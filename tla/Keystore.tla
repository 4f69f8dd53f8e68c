------------------------------ MODULE Keystore ------------------------------
(***************************************************************************)
(* The encrypted keystore file and the commands that use it: init, add-hd, *)
(* add-raw, and every command that only reads it (list, show-seed, and,    *)
(* through _load_mnemonic, address, balance, swap, send and the liquidity  *)
(* commands).  A process is one invocation.  Invocations share the file    *)
(* and hold no lock; each of them may be interrupted between any two       *)
(* steps, and the machine may lose power.                                  *)
(*                                                                         *)
(* A file is [state, version, phrase, entries, synced].  Its state is      *)
(* "missing", "partial" (created, or written in part) or "whole"; synced   *)
(* says that its data has reached the disk.  Encryption is modelled by the *)
(* passphrase that opens the file.                                         *)
(***************************************************************************)
EXTENDS Integers, Sequences

CONSTANTS
    Proc,       \* invocations of the program
    Command,    \* the command lines that are run (records, see CommandType)
    Label,      \* key labels
    Phrase,     \* keystore passphrases
    Bip39,      \* BIP-39 passphrases
    Seed,       \* secrets: mnemonics and raw private keys
    None,       \* no BIP-39 passphrase / no keystore passphrase
    InitialFile \* keystore files there may be at the start

EntryType == [label : Label, kind : {"hd", "raw"}, secret : Seed,
              bip39 : Bip39 \cup {None}]
FileType == [state : {"missing", "partial", "whole"}, version : {1, 2},
             phrase : Phrase \cup {None}, entries : Seq(EntryType),
             synced : BOOLEAN]
CommandType == [op : {"init", "add", "read"}, force : BOOLEAN, phrase : Phrase,
                entry : EntryType]

ENVELOPE_VERSION == 2

NoFile == [state |-> "missing", version |-> ENVELOPE_VERSION, phrase |-> None,
           entries |-> <<>>, synced |-> TRUE]

VARIABLES
    file,         \* what the keystore path names
    disk,         \* what it names on the disk, that is, after a power loss
    pc,           \* where each invocation is
    cmd,          \* its command line
    keystore,     \* its Keystore.entries
    temp,         \* its temporary file
    original,     \* history: the file at the start
    overlapped,   \* history: another invocation ran while this one did
    powerLost     \* history: the machine has lost power

history == <<original, overlapped, powerLost>>
vars == <<file, disk, pc, cmd, keystore, temp, history>>

Active == {"exists", "phrase", "load", "add", "save", "write", "sync", "replace"}
Ended == {"done", "refused", "error", "killed"}

UniqueLabels(entries) ==
    \A i, j \in DOMAIN entries : entries[i].label = entries[j].label => i = j

ASSUME KeystoreAssumption ==
    /\ Command \subseteq CommandType
    /\ InitialFile \subseteq FileType
    /\ \A f \in InitialFile : /\ f.state \in {"missing", "whole"}
                              /\ f.synced
                              /\ UniqueLabels(f.entries)
                              /\ f.state = "missing" => f.entries = <<>>

---------------------------------------------------------------------------
\* The envelope

\* Mutant: the stored BIP-39 passphrase of an old keystore is kept.
Loaded_KeepPassphrase(f) == f.entries

\* Mutant: entries of another kind than "hd" are skipped.
Loaded_HdOnly(f) ==
    LET kept == SelectSeq(f.entries, LAMBDA e : e.kind = "hd")
    IN  IF f.version < 2
        THEN [i \in DOMAIN kept |-> [kept[i] EXCEPT !.bip39 = None]] ELSE kept

\* What Keystore.load makes of a file: the BIP-39 passphrases of a version 1
\* keystore are dropped, because version 1 never derived with them.
Loaded(f) ==
    IF f.version < 2
    THEN [i \in DOMAIN f.entries |-> [f.entries[i] EXCEPT !.bip39 = None]]
    ELSE f.entries

\* The keys the wallet derives from a file.  This is what funds are sent to:
\* version 1 stored a BIP-39 passphrase and derived without it.
Derived(f) ==
    [i \in DOMAIN f.entries |->
        [f.entries[i] EXCEPT !.bip39 = IF f.version = 1 THEN None ELSE @]]

\* Mutant: a version that load does not know.
Saved_NextVersion(entries, phrase) ==
    [state |-> "whole", version |-> 3, phrase |-> phrase, entries |-> entries,
     synced |-> FALSE]

\* The file that Keystore.save writes.
Saved(entries, phrase) ==
    [state |-> "whole", version |-> ENVELOPE_VERSION, phrase |-> phrase,
     entries |-> entries, synced |-> FALSE]

---------------------------------------------------------------------------
\* An invocation, step by step

Goto(p, l) == pc' = [pc EXCEPT ![p] = l]

\* The command line; add and read ask for the passphrase, then load.
Start(p) ==
    /\ pc[p] = "idle"
    /\ \E c \in Command :
        /\ cmd' = [cmd EXCEPT ![p] = c]
        /\ Goto(p, IF c.op = "init" THEN "exists" ELSE "load")
    /\ overlapped' = [q \in Proc |->
            IF q = p THEN \E r \in Proc : pc[r] \in Active
            ELSE overlapped[q] \/ pc[q] \in Active]
    /\ UNCHANGED <<file, disk, keystore, temp, original, powerLost>>

\* init: "already exists; use --force to overwrite".
CheckExists(p) ==
    /\ pc[p] = "exists"
    /\ Goto(p, IF file.state # "missing" /\ ~cmd[p].force THEN "refused" ELSE "phrase")
    /\ UNCHANGED <<file, disk, cmd, keystore, temp, history>>

\* init: the passphrase is typed twice; an empty keystore is to be saved.
ConfirmPassphrase(p) ==
    /\ pc[p] = "phrase"
    /\ \/ /\ keystore' = [keystore EXCEPT ![p] = <<>>]
          /\ Goto(p, "save")
       \/ /\ Goto(p, "error")                   \* "passphrases do not match"
          /\ UNCHANGED keystore
    /\ UNCHANGED <<file, disk, cmd, temp, history>>

\* Keystore.load: a file that is missing, truncated or encrypted with another
\* passphrase is a KeystoreError.
Load(p) ==
    /\ pc[p] = "load"
    /\ IF file.state = "whole" /\ file.phrase = cmd[p].phrase
       THEN /\ keystore' = [keystore EXCEPT ![p] = Loaded(file)]
            /\ Goto(p, IF cmd[p].op = "add" THEN "add" ELSE "done")
       ELSE Goto(p, "error") /\ UNCHANGED keystore
    /\ UNCHANGED <<file, disk, cmd, temp, history>>

\* Mutant: a label may be used twice.
Add_AnyLabel(p) ==
    /\ pc[p] = "add"
    /\ keystore' = [keystore EXCEPT ![p] = Append(@, cmd[p].entry)]
    /\ Goto(p, "save")
    /\ UNCHANGED <<file, disk, cmd, temp, history>>

\* add_hd and add_raw, after the mnemonic or key has been typed or generated.
Add(p) ==
    LET e == cmd[p].entry
    IN  /\ pc[p] = "add"
        /\ IF \E i \in DOMAIN keystore[p] : keystore[p][i].label = e.label
           THEN Goto(p, "error") /\ UNCHANGED keystore     \* duplicate key label
           ELSE /\ keystore' = [keystore EXCEPT ![p] = Append(@, e)]
                /\ Goto(p, "save")
        /\ UNCHANGED <<file, disk, cmd, temp, history>>

---------------------------------------------------------------------------
\* _atomic_write

MakeTemp(p) ==
    /\ pc[p] = "save"
    /\ temp' = [temp EXCEPT ![p] = [Saved(<<>>, None) EXCEPT !.state = "partial"]]
    /\ Goto(p, "write")
    /\ UNCHANGED <<file, disk, cmd, keystore, history>>

Write(p) ==
    /\ pc[p] = "write"
    /\ temp' = [temp EXCEPT ![p] = Saved(keystore[p], cmd[p].phrase)]
    /\ Goto(p, "sync")
    /\ UNCHANGED <<file, disk, cmd, keystore, history>>

\* Mutant: flush without fsync.
Fsync_FlushOnly(p) ==
    /\ pc[p] = "sync"
    /\ Goto(p, "replace")
    /\ UNCHANGED <<file, disk, cmd, keystore, temp, history>>

Fsync(p) ==
    /\ pc[p] = "sync"
    /\ temp' = [temp EXCEPT ![p].synced = TRUE]
    /\ Goto(p, "replace")
    /\ UNCHANGED <<file, disk, cmd, keystore, history>>

\* os.replace, then the success message.
Replace(p) ==
    /\ pc[p] = "replace"
    /\ file' = temp[p]
    /\ temp' = [temp EXCEPT ![p] = NoFile]
    /\ Goto(p, "done")
    /\ UNCHANGED <<disk, cmd, keystore, history>>

\* An exception or ^C: a full disk, no permission.  _atomic_write unlinks its
\* temporary file and raises on.
Fail(p) ==
    /\ pc[p] \in Active
    /\ temp' = [temp EXCEPT ![p] = NoFile]
    /\ Goto(p, "error")
    /\ UNCHANGED <<file, disk, cmd, keystore, history>>

\* The process is killed; its temporary file stays.
Kill(p) ==
    /\ pc[p] \in Active
    /\ Goto(p, "killed")
    /\ UNCHANGED <<file, disk, cmd, keystore, temp, history>>

---------------------------------------------------------------------------
\* The machine

\* The directory reaches the disk, some time after os.replace.
Flush ==
    /\ disk # file
    /\ disk' = file
    /\ UNCHANGED <<file, pc, cmd, keystore, temp, history>>

\* What is left of a file after a power loss.
Survives(f) == IF f.synced THEN f ELSE [f EXCEPT !.state = "partial", !.synced = TRUE]

PowerLoss ==
    /\ file' = Survives(disk)
    /\ disk' = Survives(disk)
    /\ pc' = [p \in Proc |-> IF pc[p] \in Active THEN "killed" ELSE pc[p]]
    /\ powerLost' = TRUE
    /\ UNCHANGED <<cmd, keystore, temp, original, overlapped>>

---------------------------------------------------------------------------
NoCommand == [op |-> "read", force |-> FALSE, phrase |-> None, entry |-> None]

Init ==
    /\ file \in InitialFile
    /\ disk = file /\ original = file
    /\ pc = [p \in Proc |-> "idle"]
    /\ cmd = [p \in Proc |-> NoCommand]
    /\ keystore = [p \in Proc |-> <<>>]
    /\ temp = [p \in Proc |-> NoFile]
    /\ overlapped = [p \in Proc |-> FALSE]
    /\ powerLost = FALSE

Step(p) ==
    \/ Start(p) \/ CheckExists(p) \/ ConfirmPassphrase(p) \/ Load(p) \/ Add(p)
    \/ MakeTemp(p) \/ Write(p) \/ Fsync(p) \/ Replace(p) \/ Fail(p) \/ Kill(p)

Next == (\E p \in Proc : Step(p)) \/ Flush \/ PowerLoss

Spec == Init /\ [][Next]_vars

---------------------------------------------------------------------------
\* Properties

\* Types of the variables.
TypeOK ==
    /\ file \in FileType /\ disk \in FileType /\ original \in InitialFile
    /\ pc \in [Proc -> {"idle"} \cup Active \cup Ended]
    /\ cmd \in [Proc -> Command \cup {NoCommand}]
    /\ keystore \in [Proc -> Seq(EntryType)]
    /\ temp \in [Proc -> FileType]
    /\ overlapped \in [Proc -> BOOLEAN] /\ powerLost \in BOOLEAN

\* Neither a crash nor a full disk nor a power loss, at any moment of any number
\* of commands, leaves a truncated keystore, or none where the disk had one
\* (keystore.py _atomic_write).
Intact ==
    /\ file.state \in {"missing", "whole"} /\ disk.state \in {"missing", "whole"}
    /\ disk.state = "whole" => file.state = "whole"
    /\ original.state = "whole" => disk.state = "whole"

\* No two keys of a keystore have the same label (_require_unique), although
\* every invocation checks its own copy.
LabelsUnique == UniqueLabels(file.entries)

Recreated == \E p \in Proc : cmd[p].op = "init" /\ cmd[p].force

\* Unless somebody runs init --force, the keys that were in the keystore at the
\* start stay in it, in their places (the first HD key is the default), and
\* derive the same addresses, whatever version the file was written in.
OriginalKeysKept ==
    original.state = "whole" /\ ~Recreated =>
        /\ Len(original.entries) <= Len(file.entries)
        /\ \A i \in DOMAIN original.entries : Derived(file)[i] = Derived(original)[i]

Holds(f, e) == \E i \in DOMAIN f.entries : f.entries[i] = e

\* A key that was reported as added, by an invocation that ran alone, is in the
\* keystore from then on.
SoloAdditionsKept ==
    \A p \in Proc :
        pc[p] = "done" /\ cmd[p].op = "add" /\ ~overlapped[p] /\ ~powerLost
            /\ ~Recreated =>
            Holds(file, cmd[p].entry)

---------------------------------------------------------------------------
\* What messages say, and the code does not do

\* "the new seed is stored ENCRYPTED in the keystore" (cli.py cmd_add_hd).
AddedKeyStored ==
    ~powerLost /\ (\A p \in Proc : cmd[p].op # "init") =>
        \A p \in Proc : pc[p] = "done" /\ cmd[p].op = "add" =>
            Holds(file, cmd[p].entry)

\* "already exists; use --force to overwrite" (cli.py cmd_init).
OverwriteNeedsForce ==
    [][\A p \in Proc :
            pc[p] = "replace" /\ pc'[p] = "done" /\ cmd[p].op = "init"
                /\ file.state = "whole" => cmd[p].force]_vars

---------------------------------------------------------------------------
\* The inductive invariant behind the safety properties

\* The invocation holds a list of keys that it will save.
Holding == {"add", "save", "write", "sync", "replace"}

FileInv(f) ==
    /\ f.state \in {"missing", "whole"} /\ f.synced
    /\ UniqueLabels(f.entries)
    /\ f.state = "missing" => f.entries = <<>>

\* A temporary file is renamed only when it is complete and on the disk.
ProcessInv(p) ==
    /\ IF pc[p] = "idle" THEN cmd[p] = NoCommand ELSE cmd[p] \in Command
    /\ pc[p] \in {"exists", "phrase"} => cmd[p].op = "init"
    /\ pc[p] \in {"load", "add"} => cmd[p].op # "init"
    /\ pc[p] \in Holding => UniqueLabels(keystore[p])
    /\ pc[p] \in Holding /\ cmd[p].op # "init" => cmd[p].op = "add"
    /\ pc[p] \in {"save", "write", "sync", "replace", "done"} /\ cmd[p].op = "add" =>
            \E i \in DOMAIN keystore[p] : keystore[p][i] = cmd[p].entry
    /\ pc[p] \in {"sync", "replace"} =>
            /\ temp[p].state = "whole" /\ temp[p].version = ENVELOPE_VERSION
            /\ temp[p].entries = keystore[p]
    /\ pc[p] = "replace" => temp[p].synced

\* An init that has passed its check found no keystore, or was forced to.
Forced(p) == cmd[p].op = "init" /\ pc[p] \in Holding \cup {"phrase"} => cmd[p].force

\* A list of keys begins with those of the original keystore.
Keeps(entries) ==
    /\ Len(original.entries) <= Len(entries)
    /\ \A i \in DOMAIN original.entries : entries[i] = Derived(original)[i]

OriginalInv ==
    original.state = "whole" =>
        /\ file.state = "whole" /\ disk.state = "whole"
        /\ \A p \in Proc : Forced(p)
        /\ ~Recreated => /\ Keeps(Derived(file)) /\ Keeps(Derived(disk))
                         /\ \A p \in Proc : pc[p] \in Holding => Keeps(keystore[p])

\* The addition of p is done, and nothing has come to undo it.
Settled(p) == pc[p] = "done" /\ cmd[p].op = "add" /\ ~overlapped[p] /\ ~powerLost
              /\ ~Recreated

SoloInv ==
    \A p \in Proc :
        /\ pc[p] \in Active /\ ~overlapped[p] => \A q \in Proc \ {p} : pc[q] \notin Active
        /\ Settled(p) =>
            /\ file.state = "whole" /\ file.version = 2
            /\ Holds(file, cmd[p].entry)
            /\ \A q \in Proc : Forced(q)
            /\ \A q \in Proc : pc[q] \in Holding =>
                    \E i \in DOMAIN keystore[q] : keystore[q][i] = cmd[p].entry

KeyInv == /\ TypeOK /\ FileInv(file) /\ FileInv(disk)
          /\ disk.state = "whole" => file.state = "whole"
          /\ \A p \in Proc : ProcessInv(p)
          /\ OriginalInv /\ SoloInv
===========================================================================

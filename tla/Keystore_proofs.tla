-------------------------- MODULE Keystore_proofs --------------------------
(***************************************************************************)
(* Proofs that the keystore survives crashes and concurrent invocations,   *)
(* for every number of invocations, every command line and every file, and *)
(* that what was received at an address of an original key stays spendable *)
(* (Destination, which extends Keystore).                                  *)
(***************************************************************************)
EXTENDS Destination, SequenceTheorems, TLAPS

\* Loading keeps the length and the places of the keys, and gives the keys the
\* wallet derives from the file.
LEMMA LoadedKeys ==
    ASSUME NEW f \in FileType
    PROVE  /\ Derived(f) \in Seq(EntryType)
           /\ Loaded(f) = Derived(f)
           /\ Len(Derived(f)) = Len(f.entries)
           /\ DOMAIN Derived(f) = DOMAIN f.entries
           /\ \A i \in DOMAIN f.entries : Derived(f)[i].label = f.entries[i].label
           /\ f.version = 2 => Derived(f) = f.entries
<1> DEFINE n == Len(f.entries)
<1>1. f.entries \in Seq(EntryType) /\ f.version \in {1, 2}
  BY DEF FileType
<1>2. n \in Nat /\ DOMAIN f.entries = 1 .. n
  BY <1>1
<1>3. \A i \in 1 .. n : f.entries[i] \in EntryType
  BY <1>1, <1>2
<1>4. \A i \in 1 .. n : /\ Derived(f)[i] \in EntryType
                        /\ Derived(f)[i].label = f.entries[i].label
  BY <1>1, <1>2, <1>3 DEF Derived, EntryType
<1>5. Derived(f) = [i \in 1 .. n |-> Derived(f)[i]]
  BY <1>2 DEF Derived
<1>6. Derived(f) \in Seq(EntryType) /\ Len(Derived(f)) = n
  <2>1. Derived(f) \in [1 .. n -> EntryType]
    BY <1>2, <1>4, <1>5
  <2> QED BY <2>1, <1>2, SeqDef, LenProperties
<1>7. f.version = 2 => Derived(f) = f.entries
  <2> SUFFICES ASSUME f.version = 2 PROVE Derived(f) = f.entries
    OBVIOUS
  <2>1. \A i \in 1 .. n : Derived(f)[i] = f.entries[i]
    BY <1>2, <1>3 DEF Derived, EntryType
  <2> QED BY <2>1, <1>1, <1>2, <1>6, SeqEqual
<1>8. Loaded(f) = Derived(f)
  <2>1. CASE f.version = 1
    BY <2>1 DEF Loaded, Derived
  <2>2. CASE f.version = 2
    BY <2>2, <1>7 DEF Loaded
  <2> QED BY <1>1, <2>1, <2>2
<1> QED BY <1>2, <1>4, <1>5, <1>6, <1>7, <1>8 DEF Derived

\* A key with a new label may be appended.
LEMMA AppendKeepsUnique ==
    ASSUME NEW s \in Seq(EntryType), NEW e \in EntryType, UniqueLabels(s),
           ~ \E i \in DOMAIN s : s[i].label = e.label
    PROVE  /\ Append(s, e) \in Seq(EntryType)
           /\ UniqueLabels(Append(s, e))
           /\ Len(Append(s, e)) = Len(s) + 1
           /\ \A i \in DOMAIN s : i \in DOMAIN Append(s, e) /\ Append(s, e)[i] = s[i]
           /\ \E i \in DOMAIN Append(s, e) : Append(s, e)[i] = e
<1> DEFINE t == Append(s, e)
           n == Len(s)
<1>1. /\ n \in Nat /\ DOMAIN s = 1 .. n
      /\ t \in Seq(EntryType) /\ Len(t) = n + 1 /\ DOMAIN t = 1 .. n + 1
      /\ \A i \in 1 .. n : t[i] = s[i]
      /\ t[n + 1] = e
  BY AppendProperties
<1>2. UniqueLabels(t)
  <2> SUFFICES ASSUME NEW i \in 1 .. n + 1, NEW j \in 1 .. n + 1, t[i].label = t[j].label
               PROVE  i = j
    BY <1>1 DEF UniqueLabels
  <2>1. CASE i \in 1 .. n /\ j \in 1 .. n
    BY <2>1, <1>1 DEF UniqueLabels
  <2>2. CASE i = n + 1 \/ j = n + 1
    BY <2>2, <1>1
  <2> QED BY <2>1, <2>2, <1>1
<1> QED BY <1>1, <1>2

\* A step of one invocation leaves the others alone.
LEMMA OthersUnchanged ==
    ASSUME TypeOK, NEW q \in Proc, Step(q), NEW p \in Proc, p # q
    PROVE  /\ pc'[p] = pc[p] /\ cmd'[p] = cmd[p]
           /\ keystore'[p] = keystore[p] /\ temp'[p] = temp[p]
BY DEF TypeOK, Step, Start, CheckExists, ConfirmPassphrase, Load, Add, MakeTemp, Write,
       Fsync, Replace, Fail, Kill, Goto

LEMMA TypeStep ==
    ASSUME KeyInv, Next
    PROVE  TypeOK'
<1> USE KeystoreAssumption
<1>0. TypeOK /\ \A p \in Proc : ProcessInv(p)
  BY DEF KeyInv
<1>1. NoFile \in FileType
  BY EmptySeq DEF NoFile, FileType, ENVELOPE_VERSION
<1>2. ASSUME NEW p \in Proc, Start(p) PROVE TypeOK'
  BY <1>0, <1>2 DEF TypeOK, Start, Goto, Active
<1>3. ASSUME NEW p \in Proc, CheckExists(p) PROVE TypeOK'
  BY <1>0, <1>3 DEF TypeOK, CheckExists, Goto, Active, Ended, history
<1>4. ASSUME NEW p \in Proc, ConfirmPassphrase(p) PROVE TypeOK'
  <2>1. <<>> \in Seq(EntryType)
    BY EmptySeq
  <2>2. keystore' \in [Proc -> Seq(EntryType)]
    BY <1>0, <1>4, <2>1 DEF TypeOK, ConfirmPassphrase
  <2>3. pc' \in [Proc -> {"idle"} \cup Active \cup Ended]
    BY <1>0, <1>4 DEF TypeOK, ConfirmPassphrase, Goto, Active, Ended
  <2> QED BY <1>0, <1>4, <2>2, <2>3 DEF TypeOK, ConfirmPassphrase, history
<1>5. ASSUME NEW p \in Proc, Load(p) PROVE TypeOK'
  <2>1. Loaded(file) \in Seq(EntryType)
    BY <1>0, LoadedKeys DEF TypeOK
  <2> QED BY <1>0, <1>5, <2>1 DEF TypeOK, Load, Goto, Active, Ended, history
<1>6. ASSUME NEW p \in Proc, Add(p) PROVE TypeOK'
  <2>1. cmd[p].entry \in EntryType /\ keystore[p] \in Seq(EntryType)
    BY <1>0, <1>6 DEF TypeOK, ProcessInv, Add, CommandType
  <2>2. Append(keystore[p], cmd[p].entry) \in Seq(EntryType)
    BY <2>1, AppendProperties
  <2>3. keystore' \in [Proc -> Seq(EntryType)]
    BY <1>0, <1>6, <2>2 DEF TypeOK, Add, Goto
  <2>4. \E to \in {"error", "save"} : pc' = [pc EXCEPT ![p] = to]
    BY <1>6 DEF Add, Goto
  <2>5. pc' \in [Proc -> {"idle"} \cup Active \cup Ended]
    BY <1>0, <2>4 DEF TypeOK, Active, Ended
  <2> QED BY <1>0, <1>6, <2>3, <2>5 DEF TypeOK, Add, Goto, history
<1>7. ASSUME NEW p \in Proc, MakeTemp(p) PROVE TypeOK'
  <2>1. [Saved(<<>>, None) EXCEPT !.state = "partial"] \in FileType
    BY EmptySeq DEF Saved, FileType, ENVELOPE_VERSION
  <2> QED BY <1>0, <1>7, <2>1 DEF TypeOK, MakeTemp, Goto, Active, history
<1>8. ASSUME NEW p \in Proc, Write(p) PROVE TypeOK'
  <2>1. cmd[p].phrase \in Phrase /\ keystore[p] \in Seq(EntryType)
    BY <1>0, <1>8 DEF TypeOK, ProcessInv, Write, CommandType
  <2>2. Saved(keystore[p], cmd[p].phrase) \in FileType
    BY <2>1 DEF Saved, FileType, ENVELOPE_VERSION
  <2> QED BY <1>0, <1>8, <2>2 DEF TypeOK, Write, Goto, Active, history
<1>9. ASSUME NEW p \in Proc, Fsync(p) PROVE TypeOK'
  <2>1. [temp[p] EXCEPT !.synced = TRUE] \in FileType
    BY <1>0 DEF TypeOK, FileType
  <2> QED BY <1>0, <1>9, <2>1 DEF TypeOK, Fsync, Goto, Active, history
<1>10. ASSUME NEW p \in Proc, Replace(p) \/ Fail(p) \/ Kill(p) PROVE TypeOK'
  <2>1. CASE Replace(p)
    BY <1>0, <1>1, <2>1 DEF TypeOK, Replace, Goto, Ended, history
  <2>2. CASE Fail(p)
    BY <1>0, <1>1, <2>2 DEF TypeOK, Fail, Goto, Ended, history
  <2>3. CASE Kill(p)
    BY <1>0, <2>3 DEF TypeOK, Kill, Goto, Ended, history
  <2> QED BY <1>10, <2>1, <2>2, <2>3
<1>11. ASSUME Flush PROVE TypeOK'
  BY <1>0, <1>11 DEF TypeOK, Flush, history
<1>12. ASSUME PowerLoss PROVE TypeOK'
  <2>1. Survives(disk) \in FileType
    BY <1>0 DEF TypeOK, Survives, FileType
  <2> QED BY <1>0, <1>12, <2>1 DEF TypeOK, PowerLoss, Ended
<1> QED BY <1>2, <1>3, <1>4, <1>5, <1>6, <1>7, <1>8, <1>9, <1>10, <1>11, <1>12
           DEF Next, Step

\* The files at the path and on the disk: complete, on the disk, labels unique.
LEMMA FilesStep ==
    ASSUME KeyInv, Next
    PROVE  /\ FileInv(file)' /\ FileInv(disk)'
           /\ disk'.state = "whole" => file'.state = "whole"
<1>1. CASE \E p \in Proc : Replace(p)
  <2> PICK p \in Proc : Replace(p)
    BY <1>1
  <2>1. /\ temp[p].state = "whole" /\ temp[p].synced
        /\ UniqueLabels(temp[p].entries)
    BY DEF KeyInv, ProcessInv, Replace, Holding
  <2> QED BY <2>1 DEF KeyInv, FileInv, Replace
<1>2. CASE Flush
  BY <1>2 DEF KeyInv, Flush, FileInv
<1>3. CASE PowerLoss
  BY <1>3 DEF KeyInv, PowerLoss, FileInv, Survives
<1>4. CASE UNCHANGED <<file, disk>>
  BY <1>4 DEF KeyInv, FileInv
<1> QED BY <1>1, <1>2, <1>3, <1>4 DEF Next, Step, Start, CheckExists, ConfirmPassphrase,
           Load, Add, MakeTemp, Write, Fsync, Fail, Kill

LEMMA ProcessStep ==
    ASSUME KeyInv, Next, NEW p \in Proc
    PROVE  ProcessInv(p)'
<1> USE KeystoreAssumption
<1>0. TypeOK /\ ProcessInv(p) /\ FileInv(file)
  BY DEF KeyInv
<1>1. ASSUME NEW q \in Proc, q # p, Step(q) PROVE ProcessInv(p)'
  BY <1>0, <1>1, OthersUnchanged DEF ProcessInv
<1>2. CASE Start(p)
  BY <1>0, <1>2 DEF TypeOK, ProcessInv, Start, Goto, Holding, CommandType
<1>3. CASE CheckExists(p)
  BY <1>0, <1>3 DEF TypeOK, ProcessInv, CheckExists, Goto, Holding
<1>4. CASE ConfirmPassphrase(p)
  BY <1>0, <1>4 DEF TypeOK, ProcessInv, ConfirmPassphrase, Goto, Holding, UniqueLabels
<1>5. CASE Load(p)
  <2>1. file \in FileType
    BY <1>0 DEF TypeOK
  <2>2. UniqueLabels(Loaded(file))
    BY <2>1, <1>0, LoadedKeys DEF FileInv, UniqueLabels
  <2>3. cmd[p] \in Command /\ cmd[p].op \in {"add", "read"} /\ pc[p] = "load"
    BY <1>0, <1>5 DEF ProcessInv, Load, CommandType
  <2>4. /\ cmd' = cmd
        /\ \/ pc'[p] = "error"
           \/ /\ pc'[p] = IF cmd[p].op = "add" THEN "add" ELSE "done"
              /\ keystore'[p] = Loaded(file)
    BY <1>0, <1>5 DEF TypeOK, Load, Goto
  <2> QED BY <2>2, <2>3, <2>4 DEF ProcessInv, Holding
<1>6. CASE Add(p)
  <2>1. /\ cmd[p] \in Command /\ cmd[p].op = "add" /\ pc[p] = "add" /\ cmd' = cmd
        /\ keystore[p] \in Seq(EntryType) /\ UniqueLabels(keystore[p])
        /\ cmd[p].entry \in EntryType
    BY <1>0, <1>6 DEF TypeOK, ProcessInv, Add, CommandType, Holding
  <2>2. CASE \E i \in DOMAIN keystore[p] : keystore[p][i].label = cmd[p].entry.label
    BY <1>0, <1>6, <2>1, <2>2 DEF TypeOK, ProcessInv, Add, Goto, Holding
  <2>3. CASE ~ \E i \in DOMAIN keystore[p] : keystore[p][i].label = cmd[p].entry.label
    <3>1. keystore'[p] = Append(keystore[p], cmd[p].entry) /\ pc'[p] = "save"
      BY <1>0, <1>6, <2>3 DEF TypeOK, Add, Goto
    <3> QED BY <3>1, <2>1, <2>3, AppendKeepsUnique DEF ProcessInv, Holding
  <2> QED BY <2>2, <2>3
<1>7. CASE MakeTemp(p)
  BY <1>0, <1>7 DEF TypeOK, ProcessInv, MakeTemp, Goto, Holding
<1>8. CASE Write(p)
  <2>1. /\ pc[p] = "write" /\ pc'[p] = "sync" /\ cmd' = cmd /\ keystore' = keystore
        /\ temp'[p] = Saved(keystore[p], cmd[p].phrase)
    BY <1>0, <1>8 DEF TypeOK, Write, Goto
  <2> QED BY <1>0, <2>1 DEF ProcessInv, Holding, Saved
<1>9. CASE Fsync(p)
  <2>1. temp[p] \in FileType /\ temp'[p] = [temp[p] EXCEPT !.synced = TRUE]
    BY <1>0, <1>9 DEF TypeOK, Fsync
  <2> QED BY <1>0, <1>9, <2>1 DEF TypeOK, ProcessInv, Fsync, Goto, Holding, FileType
<1>10. CASE Replace(p) \/ Fail(p) \/ Kill(p)
  BY <1>0, <1>10 DEF TypeOK, ProcessInv, Replace, Fail, Kill, Goto, Holding, Active
<1>11. CASE Flush
  BY <1>0, <1>11 DEF ProcessInv, Flush
<1>12. CASE PowerLoss
  BY <1>0, <1>12 DEF TypeOK, ProcessInv, PowerLoss, Holding, Active
<1> QED BY <1>1, <1>2, <1>3, <1>4, <1>5, <1>6, <1>7, <1>8, <1>9, <1>10, <1>11, <1>12
           DEF Next, Step

\* The original file is not touched, and an init --force is never forgotten.
LEMMA HistoryStep ==
    ASSUME KeyInv, Next
    PROVE  original' = original /\ (Recreated => Recreated')
<1>1. TypeOK /\ \A p \in Proc : ProcessInv(p)
  BY DEF KeyInv
<1>2. original' = original
  BY DEF Next, Step, Start, CheckExists, ConfirmPassphrase, Load, Add, MakeTemp, Write,
         Fsync, Replace, Fail, Kill, Flush, PowerLoss, history
<1>3. ASSUME NEW q \in Proc, Start(q), Recreated PROVE Recreated'
  <2>1. PICK p \in Proc : cmd[p].op = "init" /\ cmd[p].force
    BY <1>3 DEF Recreated
  <2>2. p # q
    BY <1>1, <1>3, <2>1 DEF Start, ProcessInv, NoCommand
  <2> QED BY <1>1, <1>3, <2>1, <2>2 DEF TypeOK, Start, Recreated
<1>4. CASE UNCHANGED cmd
  BY <1>2, <1>4 DEF Recreated
<1> QED BY <1>2, <1>3, <1>4 DEF Next, Step, CheckExists, ConfirmPassphrase, Load, Add,
           MakeTemp, Write, Fsync, Replace, Fail, Kill, Flush, PowerLoss

\* While there is a keystore, only a forced init gets past its check.
LEMMA ForcedStep ==
    ASSUME KeyInv, Next, file.state = "whole", NEW p \in Proc, Forced(p)
    PROVE  Forced(p)'
<1>0. TypeOK /\ ProcessInv(p)
  BY DEF KeyInv
<1>1. ASSUME NEW q \in Proc, q # p, Step(q) PROVE Forced(p)'
  BY <1>0, <1>1, OthersUnchanged DEF Forced
<1>2. CASE Step(p)
  BY <1>0, <1>2 DEF TypeOK, ProcessInv, Forced, Step, Start, CheckExists,
     ConfirmPassphrase, Load, Add, MakeTemp, Write, Fsync, Replace, Fail, Kill, Goto,
     Holding, Active
<1>3. CASE Flush
  BY <1>0, <1>3 DEF Forced, Flush
<1>4. CASE PowerLoss
  BY <1>0, <1>4 DEF TypeOK, Forced, PowerLoss, Holding, Active
<1> QED BY <1>1, <1>2, <1>3, <1>4 DEF Next

\* What an invocation holds afterwards, it held before, or has loaded or added
\* just now; or it is an init.
LEMMA HoldingStep ==
    ASSUME KeyInv, Next, NEW p \in Proc, pc'[p] \in Holding
    PROVE  \/ cmd'[p].op = "init" /\ pc'[p] \in Holding
           \/ keystore'[p] = keystore[p] /\ pc[p] \in Holding /\ cmd'[p] = cmd[p]
           \/ keystore'[p] = Derived(file) /\ file.state = "whole"
           \/ /\ pc[p] \in Holding
              /\ keystore[p] \in Seq(EntryType) /\ keystore'[p] \in Seq(EntryType)
              /\ Len(keystore'[p]) = Len(keystore[p]) + 1
              /\ \A i \in DOMAIN keystore[p] : /\ i \in DOMAIN keystore'[p]
                                               /\ keystore'[p][i] = keystore[p][i]
<1> USE KeystoreAssumption
<1>0. TypeOK /\ ProcessInv(p)
  BY DEF KeyInv
<1>1. ASSUME NEW q \in Proc, q # p, Step(q)
      PROVE  keystore'[p] = keystore[p] /\ pc[p] \in Holding /\ cmd'[p] = cmd[p]
  BY <1>0, <1>1, OthersUnchanged
<1>2. CASE Start(p) \/ CheckExists(p) \/ Replace(p) \/ Fail(p) \/ Kill(p)
  BY <1>0, <1>2 DEF TypeOK, Start, CheckExists, Replace, Fail, Kill, Goto, Holding
<1>3. CASE ConfirmPassphrase(p)
  BY <1>0, <1>3 DEF ProcessInv, ConfirmPassphrase
<1>4. CASE Load(p)
  <2>1. Loaded(file) = Derived(file)
    BY <1>0, LoadedKeys DEF TypeOK
  <2> QED BY <1>0, <1>4, <2>1 DEF TypeOK, Load, Goto, Holding
<1>5. CASE Add(p)
  <2>1. /\ keystore[p] \in Seq(EntryType) /\ cmd[p].entry \in EntryType
        /\ UniqueLabels(keystore[p]) /\ pc[p] \in Holding
    BY <1>0, <1>5 DEF TypeOK, ProcessInv, Add, Holding, CommandType
  <2>2. ~ \E i \in DOMAIN keystore[p] : keystore[p][i].label = cmd[p].entry.label
    BY <1>0, <1>5 DEF TypeOK, Add, Goto, Holding
  <2>3. keystore'[p] = Append(keystore[p], cmd[p].entry)
    BY <1>0, <1>5, <2>2 DEF TypeOK, Add
  <2> QED BY <2>1, <2>2, <2>3, AppendKeepsUnique
<1>6. CASE MakeTemp(p) \/ Write(p) \/ Fsync(p)
  BY <1>0, <1>6 DEF MakeTemp, Write, Fsync, Holding
<1>7. CASE Flush \/ PowerLoss
  BY <1>0, <1>7 DEF TypeOK, Flush, PowerLoss, Holding
<1> QED BY <1>1, <1>2, <1>3, <1>4, <1>5, <1>6, <1>7 DEF Next, Step

\* The file is what it was, what the disk holds, or what an invocation held.
LEMMA FileStep ==
    ASSUME KeyInv, Next
    PROVE  /\ disk' \in {disk, file}
           /\ \/ file' = file
              \/ file' = disk /\ powerLost'
              \/ \E p \in Proc : /\ pc[p] = "replace" /\ pc'[p] = "done" /\ cmd' = cmd
                                 /\ file'.state = "whole" /\ file'.version = 2
                                 /\ file'.entries = keystore[p]
                                 /\ Derived(file') = keystore[p]
<1>0. TypeOK /\ FileInv(disk) /\ \A p \in Proc : ProcessInv(p)
  BY DEF KeyInv
<1>1. ASSUME NEW p \in Proc, Replace(p)
      PROVE  /\ pc[p] = "replace" /\ pc'[p] = "done" /\ cmd' = cmd /\ disk' = disk
             /\ file'.state = "whole" /\ file'.version = 2
             /\ file'.entries = keystore[p]
             /\ Derived(file') = keystore[p]
  <2>1. /\ temp[p].state = "whole" /\ temp[p].version = 2
        /\ temp[p].entries = keystore[p] /\ temp[p] \in FileType
    BY <1>0, <1>1 DEF TypeOK, ProcessInv, Replace, ENVELOPE_VERSION
  <2>2. Derived(temp[p]) = temp[p].entries
    BY <2>1, LoadedKeys
  <2> QED BY <1>0, <1>1, <2>1, <2>2 DEF TypeOK, Replace, Goto
<1>2. CASE Flush
  BY <1>2 DEF Flush
<1>3. CASE PowerLoss
  <2>1. Survives(disk) = disk
    BY <1>0 DEF FileInv, Survives
  <2> QED BY <1>3, <2>1 DEF PowerLoss
<1>4. CASE UNCHANGED <<file, disk>>
  BY <1>4
<1> QED BY <1>1, <1>2, <1>3, <1>4 DEF Next, Step, Start, CheckExists, ConfirmPassphrase,
           Load, Add, MakeTemp, Write, Fsync, Fail, Kill

LEMMA OriginalStep ==
    ASSUME KeyInv, Next
    PROVE  OriginalInv'
<1>0. TypeOK /\ OriginalInv /\ \A p \in Proc : ProcessInv(p)
  BY DEF KeyInv
<1>1. original' = original /\ (Recreated => Recreated')
  BY HistoryStep
<1> SUFFICES ASSUME original.state = "whole" PROVE OriginalInv'
  BY <1>1 DEF OriginalInv
<1>2. file.state = "whole" /\ disk.state = "whole" /\ \A p \in Proc : Forced(p)
  BY <1>0 DEF OriginalInv
<1>3. file'.state = "whole" /\ disk'.state = "whole"
  BY <1>2, FileStep
<1>4. \A p \in Proc : Forced(p)'
  BY <1>2, ForcedStep
<1>5. ASSUME ~Recreated'
      PROVE  /\ Keeps(Derived(file))' /\ Keeps(Derived(disk))'
             /\ \A p \in Proc : pc'[p] \in Holding => Keeps(keystore[p])'
  <2>1. /\ Keeps(Derived(file)) /\ Keeps(Derived(disk))
        /\ \A p \in Proc : pc[p] \in Holding => Keeps(keystore[p])
    BY <1>0, <1>1, <1>5 DEF OriginalInv
  <2> DEFINE K(t) == /\ Len(original.entries) <= Len(t)
                     /\ \A i \in DOMAIN original.entries : t[i] = Derived(original)[i]
  <2>2. /\ K(Derived(file)) /\ K(Derived(disk))
        /\ \A p \in Proc : pc[p] \in Holding => K(keystore[p])
    BY <2>1 DEF Keeps
  <2>3. ASSUME NEW p \in Proc, pc'[p] \in Holding PROVE K(keystore'[p])
    <3>1. cmd'[p].op # "init"
      BY <1>4, <1>5, <2>3 DEF Forced, Recreated
    <3>2. CASE keystore'[p] = keystore[p] /\ pc[p] \in Holding
      BY <3>2, <2>2
    <3>3. CASE keystore'[p] = Derived(file)
      BY <3>3, <2>2
    <3>4. CASE /\ pc[p] \in Holding
               /\ keystore[p] \in Seq(EntryType) /\ keystore'[p] \in Seq(EntryType)
               /\ Len(keystore'[p]) = Len(keystore[p]) + 1
               /\ \A i \in DOMAIN keystore[p] : keystore'[p][i] = keystore[p][i]
      <4>1. K(keystore[p])
        BY <3>4, <2>2
      <4>2. original.entries \in Seq(EntryType)
        BY <1>0, KeystoreAssumption DEF TypeOK, FileType
      <4>3. DOMAIN original.entries \subseteq DOMAIN keystore[p]
        BY <3>4, <4>1, <4>2
      <4>4. Len(original.entries) <= Len(keystore'[p])
        BY <3>4, <4>1, <4>2
      <4> QED BY <3>4, <4>1, <4>3, <4>4
    <3> QED BY <2>3, <3>1, <3>2, <3>3, <3>4, HoldingStep
  <2>4. K(Derived(disk'))
    BY <2>2, FileStep
  <2>5. K(Derived(file'))
    <3>1. ASSUME NEW p \in Proc, pc[p] = "replace", Derived(file') = keystore[p]
          PROVE  K(Derived(file'))
      BY <2>2, <3>1 DEF Holding
    <3> QED BY <2>2, <3>1, FileStep
  <2> QED BY <1>1, <2>3, <2>4, <2>5 DEF Keeps
<1> QED BY <1>1, <1>3, <1>4, <1>5 DEF OriginalInv

LEMMA SoloStep ==
    ASSUME KeyInv, Next
    PROVE  SoloInv'
<1>0. TypeOK /\ SoloInv /\ FileInv(disk) /\ \A p \in Proc : ProcessInv(p)
  BY DEF KeyInv
<1>1. original' = original /\ (Recreated => Recreated')
  BY HistoryStep
<1> SUFFICES ASSUME NEW p \in Proc
             PROVE  /\ pc'[p] \in Active /\ ~overlapped'[p] =>
                          \A q \in Proc \ {p} : pc'[q] \notin Active
                    /\ Settled(p)' =>
                          /\ file'.state = "whole" /\ file'.version = 2
                          /\ Holds(file', cmd'[p].entry)
                          /\ \A q \in Proc : Forced(q)'
                          /\ \A q \in Proc : pc'[q] \in Holding =>
                                \E i \in DOMAIN keystore'[q] : keystore'[q][i] = cmd'[p].entry
  BY DEF SoloInv
\* Becoming active is Start, which tells everybody.
<1>2. pc'[p] \in Active /\ ~overlapped'[p] => \A q \in Proc \ {p} : pc'[q] \notin Active
  <2>1. ASSUME NEW r \in Proc, Start(r)
        PROVE  pc'[p] \in Active /\ ~overlapped'[p] => \A q \in Proc \ {p} : pc'[q] \notin Active
    BY <1>0, <2>1 DEF TypeOK, SoloInv, Start, Goto, Active
  <2>2. ASSUME NEW r \in Proc, Step(r), ~Start(r)
        PROVE  /\ overlapped' = overlapped
               /\ \A q \in Proc : pc'[q] \in Active => pc[q] \in Active
    BY <1>0, <2>2 DEF TypeOK, Step, CheckExists, ConfirmPassphrase, Load, Add, MakeTemp,
       Write, Fsync, Replace, Fail, Kill, Goto, Active, history
  <2>3. CASE Flush \/ PowerLoss
    BY <1>0, <2>3 DEF TypeOK, SoloInv, Flush, PowerLoss, Active, history
  <2> QED BY <1>0, <2>1, <2>2, <2>3 DEF Next, SoloInv
<1>3. ASSUME Settled(p)', Settled(p), cmd'[p] = cmd[p]
      PROVE  /\ file'.state = "whole" /\ file'.version = 2
             /\ Holds(file', cmd'[p].entry)
             /\ \A q \in Proc : Forced(q)'
             /\ \A q \in Proc : pc'[q] \in Holding =>
                    \E i \in DOMAIN keystore'[q] : keystore'[q][i] = cmd'[p].entry
  <2>1. /\ file.state = "whole" /\ file.version = 2 /\ Holds(file, cmd[p].entry)
        /\ \A q \in Proc : Forced(q)
        /\ \A q \in Proc : pc[q] \in Holding =>
              \E i \in DOMAIN keystore[q] : keystore[q][i] = cmd[p].entry
    BY <1>0, <1>3 DEF SoloInv
  <2>2. \A q \in Proc : Forced(q)'
    BY <2>1, ForcedStep
  <2>3. ~powerLost' /\ ~Recreated'
    BY <1>3 DEF Settled
  <2>4. file'.state = "whole" /\ file'.version = 2 /\ Holds(file', cmd[p].entry)
    <3>1. ASSUME NEW q \in Proc, pc[q] = "replace", file'.entries = keystore[q]
          PROVE  Holds(file', cmd[p].entry)
      BY <2>1, <3>1 DEF Holds, Holding
    <3> QED BY <2>1, <2>3, <3>1, FileStep
  <2>5. ASSUME NEW q \in Proc, pc'[q] \in Holding
        PROVE  \E i \in DOMAIN keystore'[q] : keystore'[q][i] = cmd[p].entry
    <3>1. cmd'[q].op # "init"
      BY <2>2, <2>3, <2>5 DEF Forced, Recreated
    <3>2. Derived(file) = file.entries
      BY <1>0, <2>1, LoadedKeys DEF TypeOK
    <3> QED BY <2>1, <2>5, <3>1, <3>2, HoldingStep DEF Holds
  <2> QED BY <1>3, <2>2, <2>4, <2>5
<1>4. ASSUME Settled(p)', pc[p] # "done"
      PROVE  /\ file'.state = "whole" /\ file'.version = 2
             /\ Holds(file', cmd'[p].entry)
             /\ \A q \in Proc : Forced(q)'
             /\ \A q \in Proc : pc'[q] \in Holding =>
                    \E i \in DOMAIN keystore'[q] : keystore'[q][i] = cmd'[p].entry
  <2>1. Replace(p)
    <3>1. pc'[p] = "done" /\ cmd'[p].op = "add"
      BY <1>4 DEF Settled
    <3>2. ~ \E q \in Proc : q # p /\ Step(q)
      BY <1>0, <1>4, <3>1, OthersUnchanged
    <3>3. ~(Flush \/ PowerLoss)
      BY <1>0, <1>4, <3>1 DEF TypeOK, Flush, PowerLoss
    <3>4. Step(p)
      BY <3>2, <3>3 DEF Next
    <3> QED BY <1>0, <3>1, <3>4 DEF TypeOK, Step, Start, CheckExists, ConfirmPassphrase, Load,
               Add, MakeTemp, Write, Fsync, Fail, Kill, Goto
  <2>2. /\ pc[p] = "replace" /\ cmd' = cmd /\ file' = temp[p] /\ overlapped' = overlapped
        /\ pc' = [pc EXCEPT ![p] = "done"]
    BY <2>1 DEF Replace, Goto, history
  <2>3. \A q \in Proc \ {p} : pc[q] \notin Active
    BY <1>0, <1>4, <2>2 DEF SoloInv, Settled, Active
  <2>4. \A q \in Proc : pc'[q] \notin Active
    BY <1>0, <2>2, <2>3 DEF TypeOK, Active
  <2>5. \A q \in Proc : pc'[q] \notin Holding \cup {"phrase"}
    BY <2>4 DEF Active, Holding
  <2>6. /\ file'.state = "whole" /\ file'.version = 2 /\ file'.entries = keystore[p]
        /\ \E i \in DOMAIN keystore[p] : keystore[p][i] = cmd[p].entry
    BY <1>0, <1>4, <2>2 DEF ProcessInv, Settled, ENVELOPE_VERSION
  <2> QED BY <2>2, <2>5, <2>6 DEF Forced, Holds
<1>5. Settled(p)' /\ pc[p] = "done" => Settled(p) /\ cmd'[p] = cmd[p]
  <2> SUFFICES ASSUME Settled(p)', pc[p] = "done" PROVE Settled(p) /\ cmd'[p] = cmd[p]
    OBVIOUS
  <2>1. cmd'[p] = cmd[p] /\ (overlapped[p] => overlapped'[p]) /\ (powerLost => powerLost')
    BY <1>0 DEF TypeOK, Next, Step, Start, CheckExists, ConfirmPassphrase, Load, Add,
       MakeTemp, Write, Fsync, Replace, Fail, Kill, Flush, PowerLoss, history, Active
  <2> QED BY <1>1, <2>1 DEF Settled
<1> QED BY <1>2, <1>3, <1>4, <1>5

---------------------------------------------------------------------------

LEMMA KeyInvInit ==
    ASSUME Init
    PROVE  KeyInv
<1> USE KeystoreAssumption
<1>1. NoFile \in FileType /\ <<>> \in Seq(EntryType)
  BY EmptySeq DEF NoFile, FileType, ENVELOPE_VERSION
<1>2. TypeOK
  BY <1>1 DEF Init, TypeOK
<1>3. FileInv(file) /\ FileInv(disk) /\ (disk.state = "whole" => file.state = "whole")
  BY DEF Init, FileInv
<1>4. \A p \in Proc : ProcessInv(p)
  BY DEF Init, ProcessInv, Holding
<1>5. OriginalInv
  <2>1. original \in FileType /\ file = original /\ disk = original
    BY <1>2 DEF Init, TypeOK
  <2>2. Keeps(Derived(original))
    BY <2>1, LoadedKeys DEF Keeps, FileType
  <2> QED BY <2>1, <2>2 DEF Init, OriginalInv, Forced, Holding, NoCommand
<1>6. SoloInv
  BY DEF Init, SoloInv, Settled, Active
<1> QED BY <1>2, <1>3, <1>4, <1>5, <1>6 DEF KeyInv

\* The inductive invariant: for any number of invocations, any command lines and
\* any keystore to begin with.
THEOREM KeyInvariant == Spec => []KeyInv
<1>1. Init => KeyInv
  BY KeyInvInit
<1>2. KeyInv /\ [Next]_vars => KeyInv'
  <2>1. CASE KeyInv /\ Next
    BY <2>1, TypeStep, FilesStep, ProcessStep, OriginalStep, SoloStep DEF KeyInv
  <2>2. CASE KeyInv /\ UNCHANGED vars
    BY <2>2 DEF KeyInv, TypeOK, FileInv, ProcessInv, OriginalInv, SoloInv, Forced, Keeps,
       Settled, Recreated, vars, history
  <2> QED BY <2>1, <2>2
<1> QED BY <1>1, <1>2, PTL DEF Spec

\* The keystore, its temporary files and what invocations hold keep their types:
\* whatever is saved is of the version the next load expects.
THEOREM TypeCorrect == Spec => []TypeOK
<1>1. KeyInv => TypeOK
  BY DEF KeyInv
<1> QED BY <1>1, KeyInvariant, PTL

\* Whatever is interrupted, and whenever the power fails, the path names a complete
\* keystore (or none, when there never was one on the disk).
THEOREM NeverTruncated == Spec => []Intact
<1>1. KeyInv => Intact
  BY DEF KeyInv, FileInv, OriginalInv, Intact
<1> QED BY <1>1, KeyInvariant, PTL

\* Labels stay unique, although invocations check their own copies and run
\* without a lock.
THEOREM UniqueForever == Spec => []LabelsUnique
<1>1. KeyInv => LabelsUnique
  BY DEF KeyInv, FileInv, LabelsUnique
<1> QED BY <1>1, KeyInvariant, PTL

\* The keys of the keystore one starts with are never lost or moved, and never
\* derive other addresses, unless init --force is run.
THEOREM OriginalKeysSafe == Spec => []OriginalKeysKept
<1>1. KeyInv => OriginalKeysKept
  <2> SUFFICES ASSUME KeyInv, original.state = "whole", ~Recreated
               PROVE  /\ Len(original.entries) <= Len(file.entries)
                      /\ \A i \in DOMAIN original.entries :
                            Derived(file)[i] = Derived(original)[i]
    BY DEF OriginalKeysKept
  <2>1. Keeps(Derived(file)) /\ file \in FileType
    BY DEF KeyInv, OriginalInv, TypeOK
  <2>2. Len(Derived(file)) = Len(file.entries)
    BY <2>1, LoadedKeys
  <2> QED BY <2>1, <2>2 DEF Keeps
<1> QED BY <1>1, KeyInvariant, PTL

\* A key added by an invocation that ran alone stays in the keystore.
THEOREM SoloAdditionsSafe == Spec => []SoloAdditionsKept
<1>1. KeyInv => SoloAdditionsKept
  BY DEF KeyInv, SoloInv, Settled, SoloAdditionsKept
<1> QED BY <1>1, KeyInvariant, PTL

---------------------------------------------------------------------------
\* Destination: what the wallet received at an address of an original key, it
\* can still spend

\* A list that begins with the original keys selects, of those, the same key.
LEMMA SelectedOriginal ==
    ASSUME TypeOK, NEW entries \in Seq(EntryType), Keeps(entries), NEW key,
           NEW i \in DOMAIN original.entries
    PROVE  /\ i \in Selected(entries, key) <=> i \in Selected(Derived(original), key)
           /\ entries[i] = Derived(original)[i]
<1> DEFINE orig == Derived(original)
<1>1. /\ DOMAIN orig = DOMAIN original.entries
      /\ DOMAIN original.entries = 1 .. Len(original.entries)
      /\ Len(original.entries) \in Nat
  <2>1. original \in FileType
    BY KeystoreAssumption DEF TypeOK
  <2>2. original.entries \in Seq(EntryType)
    BY <2>1 DEF FileType
  <2> QED
    BY <2>1, <2>2, LoadedKeys
<1>2. DOMAIN entries = 1 .. Len(entries) /\ Len(entries) \in Nat
  OBVIOUS
<1>3. \A j \in DOMAIN orig : j \in DOMAIN entries /\ entries[j] = orig[j]
  BY <1>1, <1>2 DEF Keeps
<1> HIDE DEF orig
<1>4. \A j \in DOMAIN orig : j \in Matches(entries, key) <=> j \in Matches(orig, key)
  BY <1>3 DEF Matches
<1>5. \A j \in Matches(entries, key) : j \notin DOMAIN orig => i <= j
  BY <1>1, <1>2 DEF Matches
<1>6. Matches(orig, key) \subseteq DOMAIN orig
  BY DEF Matches
<1>7. i \in Selected(entries, key) <=> i \in Selected(orig, key)
  BY <1>1, <1>4, <1>5, <1>6 DEF Selected
<1> QED
  BY <1>1, <1>3, <1>7 DEF orig

\* A command has read the keys of the file as it found it.
LEMMA ReadStep ==
    ASSUME KeyInv, ReadInv, Next
    PROVE  ReadInv'
<1>0. TypeOK /\ OriginalInv /\ \A q \in Proc : ProcessInv(q)
  BY DEF KeyInv
<1>1. original' = original /\ (Recreated => Recreated')
  BY HistoryStep
<1> SUFFICES ASSUME original.state = "whole", ~Recreated, NEW p \in Proc,
                    pc'[p] = "done", cmd'[p].op = "read"
             PROVE  Keeps(keystore'[p])
  BY <1>1 DEF ReadInv, Keeps
<1>2. CASE pc[p] = "done" /\ cmd'[p] = cmd[p] /\ keystore'[p] = keystore[p]
  BY <1>2 DEF ReadInv
<1>3. CASE Load(p)
  <2>1. keystore'[p] = Loaded(file)
    BY <1>0, <1>3 DEF Load, TypeOK, Goto
  <2>2. Loaded(file) = Derived(file)
    BY <1>0, LoadedKeys DEF TypeOK
  <2> QED
    BY <1>0, <2>1, <2>2 DEF OriginalInv
<1>4. CASE Step(p) /\ ~Load(p)
  <2>1. pc[p] = "replace" /\ cmd' = cmd
    BY <1>0, <1>4 DEF TypeOK, Step, Start, CheckExists, ConfirmPassphrase, Add, MakeTemp,
         Write, Fsync, Replace, Fail, Kill, Goto, Active, Load
  <2> QED
    BY <1>0, <2>1 DEF ProcessInv, Holding
<1>5. ASSUME NEW q \in Proc, q # p, Step(q) PROVE Keeps(keystore'[p])
  BY <1>0, <1>2, <1>5, OthersUnchanged
<1>6. CASE Flush \/ PowerLoss
  BY <1>0, <1>2, <1>6 DEF Flush, PowerLoss, TypeOK, history, Active
<1> QED
  BY <1>3, <1>4, <1>5, <1>6 DEF Next

\* A derived address belongs to the key at its place.
LEMMA ResolvedStep ==
    ASSUME KeyInv, ReadInv, ResolvedInv, NEW p \in Proc, DStep(p)
    PROVE  ResolvedInv'
<1>0. TypeOK
  BY DEF KeyInv
<1>1. Reader(p) /\ UNCHANGED vars
  BY DEF DStep, NoKey, ShowAddress, DeriveDestination, TypedDestination, Result
<1>2. /\ original' = original /\ cmd' = cmd /\ DOMAIN resolved = Proc
      /\ Recreated' <=> Recreated
  BY <1>1 DEF ResolvedInv, vars, history, Recreated
<1> DEFINE r == resolved'[p]
<1>3. /\ resolved' = [resolved EXCEPT ![p] = r]
      /\ \/ r.place = 0
         \/ /\ r.place \in Selected(keystore[p], r.key)
            /\ \A a \in r.addrs :
                  a[2] = derive_address(keystore[p][r.place], PathOf(a[1]))
  <2>1. CASE NoKey(p)
    <3>1. PICK key \in Label \cup {First} :
            resolved' = [resolved EXCEPT ![p] =
                [Pending EXCEPT !.kind = "nokey", !.key = key]]
      BY <2>1 DEF NoKey, Result
    <3> QED
      BY <1>2, <3>1 DEF Pending
  <2>4. CASE TypedDestination(p)
    <3>1. PICK to \in Target, form \in Form :
            resolved' = [resolved EXCEPT ![p] = [Pending EXCEPT !.to = to, !.form = form,
                !.kind = IF validate_destination_address(to, form) THEN "typed"
                         ELSE "refused"]]
      BY <2>4 DEF TypedDestination, Result
    <3> QED
      BY <1>2, <3>1 DEF Pending
  <2>2. ASSUME NEW kind, NEW key, NEW i \in Selected(keystore[p], key), NEW to, NEW chains,
               resolved' = [resolved EXCEPT ![p] = Answer(p, kind, key, i, to, chains)]
        PROVE  /\ resolved' = [resolved EXCEPT ![p] = r]
               /\ r.place \in Selected(keystore[p], r.key)
               /\ \A a \in r.addrs :
                     a[2] = derive_address(keystore[p][r.place], PathOf(a[1]))
    BY <1>2, <2>2 DEF Answer, Pending
  <2>3. CASE ShowAddress(p)
    <3>1. PICK key \in Label \cup {First} : \E i \in Selected(keystore[p], key) :
            Result(p, Answer(p, "shown", key, i, "none", DerivableChains \cup {"BSC"}))
      BY <2>3 DEF ShowAddress
    <3>2. PICK i \in Selected(keystore[p], key) :
            Result(p, Answer(p, "shown", key, i, "none", DerivableChains \cup {"BSC"}))
      BY <3>1
    <3>3. resolved' = [resolved EXCEPT ![p] =
            Answer(p, "shown", key, i, "none", DerivableChains \cup {"BSC"})]
      BY <3>2 DEF Result
    <3> QED
      BY <2>2, <3>3
  <2>5. CASE DeriveDestination(p)
    <3>1. PICK key \in Label \cup {First} : \E i \in Selected(keystore[p], key) :
            \E to \in Target :
              Result(p, IF to \in DerivableChains THEN Answer(p, "derived", key, i, to, {to})
                        ELSE Answer(p, "required", key, i, to, {}))
      BY <2>5 DEF DeriveDestination
    <3>2. PICK i \in Selected(keystore[p], key), to \in Target :
              Result(p, IF to \in DerivableChains THEN Answer(p, "derived", key, i, to, {to})
                        ELSE Answer(p, "required", key, i, to, {}))
      BY <3>1
    <3>3. \/ resolved' = [resolved EXCEPT ![p] = Answer(p, "derived", key, i, to, {to})]
          \/ resolved' = [resolved EXCEPT ![p] = Answer(p, "required", key, i, to, {})]
      BY <3>2 DEF Result
    <3> QED
      BY <2>2, <3>3
  <2> QED
    BY <2>1, <2>3, <2>4, <2>5 DEF DStep
<1> HIDE DEF r
<1>4. ASSUME original.state = "whole", ~Recreated, r.place \in DOMAIN original.entries
      PROVE  /\ r.place \in Selected(Derived(original), r.key)
             /\ \A a \in r.addrs :
                    a[2] = Signs(Derived(original)[r.place], PathOf(a[1]))
  <2>1. Keeps(keystore[p]) /\ keystore[p] \in Seq(EntryType)
    BY <1>0, <1>1, <1>4 DEF ReadInv, Reader, TypeOK
  <2>2. r.place # 0
    <3>1. original.entries \in Seq(EntryType)
      BY <1>0, KeystoreAssumption DEF TypeOK, FileType
    <3> QED
      BY <1>4, <3>1
  <2>3. /\ r.place \in Selected(keystore[p], r.key)
        /\ \A a \in r.addrs : a[2] = derive_address(keystore[p][r.place], PathOf(a[1]))
    BY <1>3, <2>2
  <2> QED
    BY <1>0, <1>4, <2>1, <2>3, SelectedOriginal DEF derive_address, Signs
<1>5. \A q \in Proc : resolved'[q] = IF q = p THEN r ELSE resolved[q]
  BY <1>2, <1>3
<1>6. DOMAIN resolved' = Proc
  BY <1>2, <1>3
<1> QED
  BY <1>2, <1>4, <1>5, <1>6 DEF ResolvedInv

\* The keys of the file sign for what was derived from an original key.
LEMMA ReachKept ==
    ASSUME KeyInv, ResolvedInv
    PROVE  FundsStaySpendable
<1> SUFFICES ASSUME original.state = "whole", ~Recreated, NEW p \in Proc,
                    resolved[p].place \in DOMAIN original.entries,
                    NEW a \in resolved[p].addrs
             PROVE  a[2] \in Spendable(resolved[p].key, a[1])
  BY DEF FundsStaySpendable
<1> DEFINE i == resolved[p].place
           key == resolved[p].key
<1>1. TypeOK /\ Keeps(Derived(file))
  BY DEF KeyInv, OriginalInv
<1>2. Loaded(file) = Derived(file) /\ Derived(file) \in Seq(EntryType)
  BY <1>1, LoadedKeys DEF TypeOK
<1>3. /\ i \in Selected(Derived(original), key)
      /\ a[2] = Signs(Derived(original)[i], PathOf(a[1]))
  BY DEF ResolvedInv
<1>4. i \in Selected(Loaded(file), key) /\ Loaded(file)[i] = Derived(original)[i]
  BY <1>1, <1>2, <1>3, SelectedOriginal
<1>5. PathOf(a[1]) \in SignPaths(a[1])
  BY DEF PathOf, SignPaths
<1> QED
  BY <1>3, <1>4, <1>5 DEF Spendable

\* Whatever was derived from an original key, for a swap's payout or for
\* `address` to show, the same command line can spend for ever after, unless the
\* keystore is deliberately replaced (init --force).
THEOREM FundsSpendable == DSpec => []FundsStaySpendable
<1>1. DInit => KeyInv /\ ReadInv /\ ResolvedInv
  <2> SUFFICES ASSUME DInit PROVE KeyInv /\ ReadInv /\ ResolvedInv
    OBVIOUS
  <2>1. KeyInv
    BY KeyInvInit DEF DInit
  <2>2. ReadInv
    BY DEF DInit, Init, ReadInv
  <2>3. ResolvedInv
    <3>1. original.entries \in Seq(EntryType)
      BY <2>1, KeystoreAssumption DEF KeyInv, TypeOK, FileType
    <3>2. 0 \notin DOMAIN original.entries
      BY <3>1
    <3> QED
      BY <3>2 DEF DInit, ResolvedInv, Pending
  <2> QED
    BY <2>1, <2>2, <2>3
<1>2. KeyInv /\ ReadInv /\ ResolvedInv /\ [DNext]_dvars => (KeyInv /\ ReadInv /\ ResolvedInv)'
  <2> SUFFICES ASSUME KeyInv, ReadInv, ResolvedInv, [DNext]_dvars
               PROVE  (KeyInv /\ ReadInv /\ ResolvedInv)'
    OBVIOUS
  <2>1. CASE Next /\ UNCHANGED resolved
    <3>1. KeyInv'
      BY <2>1, TypeStep, FilesStep, ProcessStep, OriginalStep, SoloStep DEF KeyInv
    <3>2. ReadInv'
      BY <2>1, ReadStep
    <3>3. original' = original /\ (Recreated => Recreated')
      BY <2>1, HistoryStep
    <3>4. ResolvedInv'
      BY <2>1, <3>3 DEF ResolvedInv
    <3> QED
      BY <3>1, <3>2, <3>4
  <2>2. ASSUME UNCHANGED vars PROVE KeyInv' /\ ReadInv'
    <3> USE <2>2 DEF vars, history
    <3>1. TypeOK' /\ FileInv(file)' /\ FileInv(disk)' /\ (disk.state = "whole" => file.state = "whole")'
      BY DEF KeyInv, TypeOK, FileInv
    <3>2. \A p \in Proc : ProcessInv(p)'
      BY DEF KeyInv, ProcessInv
    <3>3. Recreated' <=> Recreated
      BY DEF Recreated
    <3>4. OriginalInv' /\ SoloInv'
      BY <3>3 DEF KeyInv, OriginalInv, SoloInv, Forced, Keeps, Settled, Holds
    <3>5. ReadInv'
      BY <3>3 DEF ReadInv, Keeps
    <3> QED
      BY <3>1, <3>2, <3>4, <3>5 DEF KeyInv
  <2>3. CASE \E p \in Proc : DStep(p)
    <3>1. UNCHANGED vars
      BY <2>3 DEF DStep, NoKey, ShowAddress, DeriveDestination, TypedDestination, Result
    <3> QED
      BY <2>2, <2>3, <3>1, ResolvedStep
  <2>4. CASE UNCHANGED dvars
    <3>1. UNCHANGED vars /\ resolved' = resolved
      BY <2>4 DEF dvars
    <3>2. original' = original /\ (Recreated' <=> Recreated)
      BY <3>1 DEF vars, history, Recreated
    <3>3. ResolvedInv'
      BY <3>1, <3>2 DEF ResolvedInv
    <3> QED
      BY <2>2, <3>1, <3>3
  <2> QED
    BY <2>1, <2>3, <2>4 DEF DNext
<1>3. KeyInv /\ ResolvedInv => FundsStaySpendable
  BY ReachKept
<1> QED
  BY <1>1, <1>2, <1>3, PTL DEF DSpec

===========================================================================

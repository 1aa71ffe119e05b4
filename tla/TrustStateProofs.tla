-------------------------- MODULE TrustStateProofs --------------------------
(* Proofs about the trust state files, for any number of commands, any set   *)
(* of root transitions and manifests, and any length of the log.             *)
EXTENDS TrustState, SequenceTheorems, TLAPS

-----------------------------------------------------------------------------
(* The inductive invariant.                                                  *)

CallType == [op : Command, step : Step, doc : Document \union {Nothing},
             root : Root \union {Nothing}, mode : Mode, update : BOOLEAN]

(* What a command c of process p carries from one of its steps to the next:  *)
(* a transition that waits for the root's lock is in the log, one that is    *)
(* being written replaces the stored root under its lock, and a retirement   *)
(* names a root there was.                                                   *)
Justified(p, c) ==
    /\ c.step = "state" => c.doc \in Manifest /\ c.op # "apply"
    /\ c.step \in {"log", "tip"} =>
          c.doc \in Document /\ (c.op = "apply" => c.doc \in Transition)
    /\ c.step \in {"lock", "write"} => c.doc \in Transition
    /\ c.step \in {"tip", "lock", "write"} => Included(c.doc)
    /\ c.step = "write" => rootLock = p /\ TransitionVerifies(c.doc, root)
    /\ c.step = "retire" => \E i \in DOMAIN roots : roots[i] = c.root

CallInv == \A p \in Process : Justified(p, calls[p])

(* The history of root states ends in the stored one.                        *)
HistoryInv ==
    /\ root = Nothing => roots = <<>>
    /\ root # Nothing => roots # <<>> /\ roots[Len(roots)] = root

(* Each root state has the epoch after the one before it: none comes back.   *)
EpochsAdvance ==
    \A i \in DOMAIN roots : roots[i].epoch = roots[1].epoch + i - 1

IInv ==
    /\ TypeOK /\ CallInv /\ HistoryInv /\ EpochsAdvance
    /\ NoConflictingEntries /\ TipNeverAhead /\ RootIsLogged /\ RetiredUnderItsEpoch

-----------------------------------------------------------------------------
(* What appending does to a log or a history.                                *)
LEMMA Appended ==
    ASSUME NEW S, NEW s \in Seq(S), NEW e \in S
    PROVE  /\ Append(s, e) \in Seq(S)
           /\ Len(Append(s, e)) = Len(s) + 1
           /\ DOMAIN s = 1 .. Len(s)
           /\ DOMAIN Append(s, e) = 1 .. Len(s) + 1
           /\ Len(s) \in Nat
           /\ \A i \in 1 .. Len(s) : Append(s, e)[i] = s[i]
           /\ Append(s, e)[Len(s) + 1] = e
  BY AppendProperties, LenProperties

(* The idle command of a process is a command and carries nothing.           *)
LEMMA NoCallType == NoCall \in CallType /\ \A p : Justified(p, NoCall)
  BY DEF NoCall, CallType, Command, Step, Mode, Justified

(* A step that moves one command and leaves the log, the roots and the       *)
(* root's lock alone keeps what the commands carry.                          *)
LEMMA CallStep ==
    ASSUME IInv, NEW p \in Process, NEW c \in CallType, Justified(p, c),
           calls' = [calls EXCEPT ![p] = c],
           UNCHANGED <<root, log, rootLock, roots>>
    PROVE  calls' \in [Process -> CallType] /\ CallInv'
<1>1. calls \in [Process -> CallType]
  BY DEF IInv, TypeOK, CallType
<1>2. calls' \in [Process -> CallType]
  BY <1>1
<1>3. \A q \in Process : calls'[q] = IF q = p THEN c ELSE calls[q]
  BY <1>1
<1>4. \A q \in Process : Justified(q, calls'[q])
  BY <1>3 DEF IInv, CallInv
<1>5. \A q \in Process : Justified(q, calls[q])'
  BY <1>4 DEF Justified, Included, TransitionVerifies
<1> QED
  BY <1>2, <1>5 DEF CallInv

(* The same, where the files named by the invariant are unchanged as well.   *)
LEMMA CallStepKeepsInv ==
    ASSUME IInv, NEW p \in Process, NEW c \in CallType, Justified(p, c),
           calls' = [calls EXCEPT ![p] = c],
           torn' \in BOOLEAN,
           manifest' \in Manifest \union {Nothing},
           UNCHANGED <<root, retired, log, tip, rootLock, logLock, roots>>
    PROVE  IInv'
<1>1. calls' \in [Process -> CallType] /\ CallInv'
  BY CallStep
<1>2. TypeOK'
  BY <1>1 DEF IInv, TypeOK, CallType
<1>3. HistoryInv' /\ EpochsAdvance'
  BY DEF IInv, HistoryInv, EpochsAdvance
<1>4. NoConflictingEntries' /\ TipNeverAhead'
  BY DEF IInv, NoConflictingEntries, TipNeverAhead
<1>5. RootIsLogged' /\ RetiredUnderItsEpoch'
  BY DEF IInv, RootIsLogged, RetiredUnderItsEpoch
<1> QED
  BY <1>1, <1>2, <1>3, <1>4, <1>5 DEF IInv

-----------------------------------------------------------------------------
(* Each action keeps the invariant.                                          *)

(* Ending a command that left the files alone: nothing is carried on.        *)
LEMMA DoneKeepsInv ==
    ASSUME IInv, NEW p \in Process, Done(p), torn' \in BOOLEAN,
           manifest' \in Manifest \union {Nothing},
           UNCHANGED <<root, retired, log, tip, rootLock, logLock, roots>>
    PROVE  IInv'
  BY NoCallType, CallStepKeepsInv DEF Done

(* A command that goes on to its next step keeps its document.               *)
LEMMA GotoFields ==
    ASSUME IInv, NEW p \in Process, NEW s \in Step, Goto(p, s)
    PROVE  \E c \in CallType :
              /\ calls' = [calls EXCEPT ![p] = c]
              /\ c.step = s /\ c.doc = calls[p].doc /\ c.root = calls[p].root
              /\ c.op = calls[p].op /\ c.mode = calls[p].mode
<1> DEFINE c == [calls[p] EXCEPT !.step = s]
<1>1. calls[p] \in CallType
  BY DEF IInv, TypeOK, CallType
<1>2. c \in CallType /\ c.step = s /\ c.doc = calls[p].doc /\ c.root = calls[p].root
      /\ c.op = calls[p].op /\ c.mode = calls[p].mode
  BY <1>1 DEF CallType
<1>3. calls' = [calls EXCEPT ![p] = c]
  BY DEF Goto
<1> HIDE DEF c
<1> QED
  BY <1>2, <1>3

(* apply_root_transition_with_transparency and the check of a transition     *)
(* begin with a transition that verifies under the stored root.              *)
LEMMA ReadForTransitionKeepsInv ==
    ASSUME IInv, NEW p \in Process, NEW op \in {"apply", "check"}, NEW t \in Transition,
           NEW mode \in Mode, ReadForTransition(p, op, t, mode)
    PROVE  IInv'
<1> DEFINE c == [op |-> op, step |-> "log", doc |-> t, root |-> root,
                 mode |-> mode, update |-> FALSE]
<1>1. c \in CallType
  BY DEF IInv, TypeOK, CallType, Command, Step, Document
<1>2. Justified(p, c)
  BY DEF Justified, Document
<1>3. calls' = [calls EXCEPT ![p] = c]
  BY DEF ReadForTransition
<1>4. torn' \in BOOLEAN /\ manifest' \in Manifest \union {Nothing}
  BY DEF ReadForTransition, IInv, TypeOK
<1> HIDE DEF c
<1> QED
  BY <1>1, <1>2, <1>3, <1>4, CallStepKeepsInv DEF ReadForTransition

(* A manifest command begins with a manifest of the stored root.             *)
LEMMA ReadForManifestKeepsInv ==
    ASSUME IInv, NEW p \in Process, NEW m \in Manifest, NEW mode \in Mode,
           NEW update \in BOOLEAN, ReadForManifest(p, m, mode, update)
    PROVE  IInv'
<1> DEFINE c == [op |-> "manifest", step |-> "state", doc |-> m, root |-> root,
                 mode |-> mode, update |-> update]
<1>1. c \in CallType
  BY DEF IInv, TypeOK, CallType, Command, Step, Document
<1>2. Justified(p, c)
  BY DEF Justified
<1>3. calls' = [calls EXCEPT ![p] = c]
  BY DEF ReadForManifest
<1>4. torn' \in BOOLEAN /\ manifest' \in Manifest \union {Nothing}
  BY DEF ReadForManifest, IInv, TypeOK
<1> HIDE DEF c
<1> QED
  BY <1>1, <1>2, <1>3, <1>4, CallStepKeepsInv DEF ReadForManifest

(* The manifest state takes the command's manifest, or stays.                *)
LEMMA ApplyManifestKeepsInv ==
    ASSUME IInv, NEW p \in Process, ApplyManifest(p)
    PROVE  IInv'
<1>1. calls[p].doc \in Manifest /\ calls[p].op # "apply"
  BY DEF ApplyManifest, IInv, CallInv, Justified
<1>2. torn' \in BOOLEAN /\ manifest' \in Manifest \union {Nothing}
  BY <1>1 DEF ApplyManifest, IInv, TypeOK
<1>3. UNCHANGED <<root, retired, log, tip, rootLock, logLock, roots>>
  BY DEF ApplyManifest
<1>4. CASE Done(p)
  BY <1>2, <1>3, <1>4, DoneKeepsInv
<1>5. CASE Goto(p, "log") /\ calls[p].mode # "none"
  <2>1. PICK c \in CallType :
            calls' = [calls EXCEPT ![p] = c] /\ c.step = "log" /\ c.doc = calls[p].doc
            /\ c.op = calls[p].op
    BY <1>5, GotoFields DEF Step
  <2>2. Justified(p, c)
    BY <1>1, <2>1 DEF Justified, Document
  <2> QED
    BY <1>2, <1>3, <2>1, <2>2, CallStepKeepsInv
<1> QED
  BY <1>4, <1>5 DEF ApplyManifest

(* Going on after the log: to the root's lock with a transition that is in   *)
(* the log, or to the end.                                                   *)
LEMMA AfterLogCall ==
    ASSUME IInv, NEW p \in Process, AfterLog(p), calls[p].step \in {"log", "tip"},
           Included(calls[p].doc)
    PROVE  \E c \in CallType : calls' = [calls EXCEPT ![p] = c] /\ Justified(p, c)
<1>1. CASE Done(p)
  BY <1>1, NoCallType DEF Done
<1>2. CASE Goto(p, "lock") /\ calls[p].op = "apply"
  <2>1. PICK c \in CallType :
            calls' = [calls EXCEPT ![p] = c] /\ c.step = "lock" /\ c.doc = calls[p].doc
    BY <1>2, GotoFields DEF Step
  <2>2. calls[p].doc \in Transition
    BY <1>2 DEF IInv, CallInv, Justified
  <2>3. Justified(p, c)
    BY <2>1, <2>2 DEF Justified
  <2> QED
    BY <2>1, <2>3
<1> QED
  BY <1>1, <1>2 DEF AfterLog

(* The entry is there already.                                               *)
LEMMA FindEntryKeepsInv ==
    ASSUME IInv, NEW p \in Process, FindEntry(p)
    PROVE  IInv'
<1>1. PICK c \in CallType : calls' = [calls EXCEPT ![p] = c] /\ Justified(p, c)
  BY AfterLogCall DEF FindEntry
<1>2. torn' \in BOOLEAN /\ manifest' \in Manifest \union {Nothing}
  BY DEF FindEntry, IInv, TypeOK
<1> QED
  BY <1>1, <1>2, CallStepKeepsInv DEF FindEntry

(* A torn line leaves the entries and their tip as they are.                 *)
LEMMA TearLineKeepsInv ==
    ASSUME IInv, NEW p \in Process, TearLine(p)
    PROVE  IInv'
<1>1. torn' \in BOOLEAN /\ manifest' \in Manifest \union {Nothing}
  BY DEF TearLine, IInv, TypeOK
<1> QED
  BY <1>1, DoneKeepsInv DEF TearLine

(* A new entry: its identifier was not in the log, the tip still names a     *)
(* prefix, and what was in the log still is.                                 *)
LEMMA AppendEntryKeepsInv ==
    ASSUME IInv, NEW p \in Process, AppendEntry(p)
    PROVE  IInv'
<1>0. PICK d : d = calls[p].doc
  OBVIOUS
<1>1. d \in Document /\ (calls[p].op = "apply" => d \in Transition)
  BY <1>0 DEF AppendEntry, MayAppend, IInv, CallInv, Justified
<1>2. /\ ~Logged(Identifier(d))
      /\ log' = Append(log, d)
      /\ UNCHANGED <<root, manifest, retired, torn, tip, rootLock, roots>>
      /\ logLock' = p
  BY <1>0 DEF AppendEntry, MayAppend
<1>3. PICK c \in CallType :
          calls' = [calls EXCEPT ![p] = c] /\ c.step = "tip" /\ c.doc = d
          /\ c.op = calls[p].op
  BY <1>0, GotoFields DEF AppendEntry, Step
<1>4. log \in Seq(Document)
  BY DEF IInv, TypeOK
<1>5. /\ log' \in Seq(Document)
      /\ Len(log) \in Nat
      /\ Len(log') = Len(log) + 1
      /\ DOMAIN log = 1 .. Len(log)
      /\ DOMAIN log' = 1 .. Len(log) + 1
      /\ \A i \in 1 .. Len(log) : log'[i] = log[i]
      /\ log'[Len(log) + 1] = d
  BY <1>1, <1>2, <1>4, Appended
<1>6. calls \in [Process -> CallType]
  BY DEF IInv, TypeOK, CallType
<1>7. \A q \in Process : calls'[q] = IF q = p THEN c ELSE calls[q]
  BY <1>3, <1>6
<1>8. TypeOK'
  BY <1>2, <1>3, <1>5 DEF IInv, TypeOK, CallType
<1>9. CallInv'
  <2>1. \A doc : Included(doc) => Included(doc)'
    BY <1>5 DEF Included
  <2>2. Included(d)'
    BY <1>5 DEF Included
  <2>3. ASSUME NEW q \in Process
        PROVE  Justified(q, calls[q])'
    <3>1. CASE q = p
      BY <1>1, <1>3, <1>7, <2>2, <3>1 DEF Justified
    <3>2. CASE q # p
      <4>1. calls'[q] = calls[q] /\ Justified(q, calls[q])
        BY <1>7, <3>2 DEF IInv, CallInv
      <4> QED
        BY <1>2, <2>1, <4>1 DEF Justified, TransitionVerifies
    <3> QED
      BY <3>1, <3>2
  <2> QED
    BY <2>3 DEF CallInv
<1>10. HistoryInv' /\ EpochsAdvance' /\ RetiredUnderItsEpoch'
  BY <1>2 DEF IInv, HistoryInv, EpochsAdvance, RetiredUnderItsEpoch
<1>11. NoConflictingEntries'
  <2>1. \A i \in 1 .. Len(log) : Identifier(log[i]) # Identifier(d)
    BY <1>2, <1>5 DEF Logged
  <2>2. \A i, j \in 1 .. Len(log) : Identifier(log[i]) = Identifier(log[j]) => i = j
    BY <1>5 DEF IInv, NoConflictingEntries
  <2>3. \A i, j \in 1 .. Len(log) + 1 : Identifier(log'[i]) = Identifier(log'[j]) => i = j
    BY <1>5, <2>1, <2>2
  <2> QED
    BY <1>5, <2>3 DEF NoConflictingEntries
<1>12. TipNeverAhead'
  BY <1>2, <1>4, <1>5, SubSeqProperties DEF IInv, TipNeverAhead, TypeOK
<1>13. RootIsLogged'
  BY <1>2, <1>5 DEF IInv, RootIsLogged
<1> QED
  BY <1>8, <1>9, <1>10, <1>11, <1>12, <1>13 DEF IInv

(* The recorded tip is the whole log.                                        *)
LEMMA ExportTipKeepsInv ==
    ASSUME IInv, NEW p \in Process, ExportTip(p)
    PROVE  IInv'
<1>1. Included(calls[p].doc)
  BY DEF ExportTip, IInv, CallInv, Justified
<1>2. PICK c \in CallType : calls' = [calls EXCEPT ![p] = c] /\ Justified(p, c)
  BY <1>1, AfterLogCall DEF ExportTip
<1>3. /\ tip' = log /\ logLock' = Nobody
      /\ UNCHANGED <<root, manifest, retired, log, torn, rootLock, roots>>
  BY DEF ExportTip
<1>4. calls' \in [Process -> CallType] /\ CallInv'
  BY <1>2, <1>3, CallStep
<1>5. TypeOK'
  BY <1>3, <1>4 DEF IInv, TypeOK, CallType
<1>6. HistoryInv' /\ EpochsAdvance' /\ RetiredUnderItsEpoch'
  BY <1>3 DEF IInv, HistoryInv, EpochsAdvance, RetiredUnderItsEpoch
<1>7. NoConflictingEntries' /\ RootIsLogged'
  BY <1>3 DEF IInv, NoConflictingEntries, RootIsLogged
<1>8. TipNeverAhead'
  <2>1. log \in Seq(Document) /\ Len(log) \in Nat /\ SubSeq(log, 1, Len(log)) = log
    BY SubSeqFull, LenProperties DEF IInv, TypeOK
  <2> QED
    BY <1>3, <2>1 DEF TipNeverAhead
<1> QED
  BY <1>4, <1>5, <1>6, <1>7, <1>8 DEF IInv

(* Every command that waits to write the root holds its lock, so no other    *)
(* one does.                                                                 *)
LEMMA NoWriterWhenFree ==
    ASSUME IInv, NEW p \in Process, rootLock # p
    PROVE  calls[p].step # "write"
  BY DEF IInv, CallInv, Justified

(* A root trust state is written where there is none: no transition is being *)
(* written at that time, and the history is empty.                           *)
LEMMA InitializeRootKeepsInv ==
    ASSUME IInv, NEW r \in FirstRoots, InitializeRoot(r)
    PROVE  IInv'
<1>1. /\ root = Nothing /\ root' = r /\ roots' = Append(roots, r) /\ rootLock = Nobody
      /\ UNCHANGED <<manifest, retired, log, torn, tip, rootLock, logLock, calls>>
  BY DEF InitializeRoot
<1>2. r \in Root /\ r # Nothing
  BY TrustAssumption
<1>3. roots = <<>> /\ roots \in Seq(Root)
  BY <1>1 DEF IInv, HistoryInv, TypeOK
<1>4. roots' = <<r>>
  BY <1>1, <1>3
<1>5. TypeOK'
  BY <1>1, <1>2, <1>4 DEF IInv, TypeOK
<1>6. CallInv'
  <2>1. ASSUME NEW q \in Process
        PROVE  Justified(q, calls[q])'
    <3>1. calls[q].step # "write"
      BY <1>1, NoWriterWhenFree, TrustAssumption
    <3>2. calls[q].step # "retire"
      BY <1>3 DEF IInv, CallInv, Justified
    <3>3. Justified(q, calls[q])
      BY DEF IInv, CallInv
    <3> QED
      BY <1>1, <3>1, <3>2, <3>3 DEF Justified, Included
  <2> QED
    BY <2>1 DEF CallInv
<1>7. HistoryInv' /\ EpochsAdvance'
  BY <1>1, <1>2, <1>4 DEF HistoryInv, EpochsAdvance, Root
<1>8. NoConflictingEntries' /\ TipNeverAhead'
  BY <1>1 DEF IInv, NoConflictingEntries, TipNeverAhead
<1>9. RootIsLogged'
  BY <1>4 DEF RootIsLogged
<1>10. RetiredUnderItsEpoch'
  BY <1>1, <1>3 DEF IInv, RetiredUnderItsEpoch
<1> QED
  BY <1>5, <1>6, <1>7, <1>8, <1>9, <1>10 DEF IInv

(* The root's lock is taken with a transition that verifies under the root   *)
(* loaded while it is held.                                                  *)
LEMMA LockRootKeepsInv ==
    ASSUME IInv, NEW p \in Process, LockRoot(p)
    PROVE  IInv'
<1>1. /\ calls[p].step = "lock" /\ rootLock = Nobody /\ rootLock' = p
      /\ TransitionVerifies(calls[p].doc, root)
      /\ UNCHANGED <<root, manifest, retired, log, torn, tip, logLock, roots>>
  BY DEF LockRoot
<1>2. PICK c \in CallType :
          calls' = [calls EXCEPT ![p] = c] /\ c.step = "write" /\ c.doc = calls[p].doc
  BY GotoFields DEF LockRoot, Step
<1>3. calls \in [Process -> CallType]
  BY DEF IInv, TypeOK, CallType
<1>4. \A q \in Process : calls'[q] = IF q = p THEN c ELSE calls[q]
  BY <1>2, <1>3
<1>5. TypeOK'
  BY <1>1, <1>2 DEF IInv, TypeOK, CallType
<1>6. CallInv'
  <2>1. ASSUME NEW q \in Process
        PROVE  Justified(q, calls[q])'
    <3>1. Justified(q, calls[q])
      BY DEF IInv, CallInv
    <3>2. CASE q = p
      BY <1>1, <1>2, <1>4, <3>1, <3>2 DEF Justified, Included, TransitionVerifies
    <3>3. CASE q # p
      <4>1. calls[q].step # "write"
        BY <1>1, NoWriterWhenFree, TrustAssumption
      <4> QED
        BY <1>1, <1>4, <3>1, <3>3, <4>1 DEF Justified, Included
    <3> QED
      BY <3>2, <3>3
  <2> QED
    BY <2>1 DEF CallInv
<1>7. HistoryInv' /\ EpochsAdvance' /\ RetiredUnderItsEpoch'
  BY <1>1 DEF IInv, HistoryInv, EpochsAdvance, RetiredUnderItsEpoch
<1>8. NoConflictingEntries' /\ RootIsLogged' /\ TipNeverAhead'
  BY <1>1 DEF IInv, NoConflictingEntries, RootIsLogged, TipNeverAhead
<1> QED
  BY <1>5, <1>6, <1>7, <1>8 DEF IInv

(* The root is replaced by its successor: the transition is in the log, its  *)
(* predecessor is the root at the end of the history, and nobody else holds  *)
(* the lock.                                                                 *)
LEMMA WriteRootKeepsInv ==
    ASSUME IInv, NEW p \in Process, WriteRoot(p)
    PROVE  IInv'
<1>0. PICK d : d = calls[p].doc
  OBVIOUS
<1>1. /\ calls[p].step = "write" /\ root' = d.next /\ roots' = Append(roots, d.next)
      /\ rootLock' = Nobody /\ calls' = [calls EXCEPT ![p] = NoCall]
      /\ UNCHANGED <<manifest, retired, log, torn, tip, logLock>>
  BY <1>0 DEF WriteRoot, Done
<1>2. d \in Transition /\ Included(d) /\ rootLock = p /\ d.previous = root
  BY <1>0, <1>1 DEF IInv, CallInv, Justified, TransitionVerifies
<1>3. /\ d.next \in Root /\ d.previous \in Root
      /\ d.next.epoch = d.previous.epoch + 1
      /\ d.next # Nothing /\ root # Nothing
  BY <1>2, TrustAssumption
<1>4. roots \in Seq(Root) /\ roots # <<>> /\ roots[Len(roots)] = root
  BY <1>3 DEF IInv, TypeOK, HistoryInv
<1>5. /\ roots' \in Seq(Root)
      /\ Len(roots) \in Nat \ {0}
      /\ Len(roots') = Len(roots) + 1
      /\ DOMAIN roots = 1 .. Len(roots)
      /\ DOMAIN roots' = 1 .. Len(roots) + 1
      /\ \A i \in 1 .. Len(roots) : roots'[i] = roots[i]
      /\ roots'[Len(roots) + 1] = d.next
  BY <1>1, <1>3, <1>4, Appended, EmptySeq
<1>6. calls \in [Process -> CallType]
  BY DEF IInv, TypeOK, CallType
<1>7. \A q \in Process : calls'[q] = IF q = p THEN NoCall ELSE calls[q]
  BY <1>1, <1>6
<1>8. TypeOK'
  BY <1>1, <1>3, <1>5, NoCallType DEF IInv, TypeOK, CallType
<1>9. CallInv'
  <2>1. ASSUME NEW q \in Process
        PROVE  Justified(q, calls[q])'
    <3>1. CASE q = p
      BY <1>7, <3>1 DEF Justified, NoCall
    <3>2. CASE q # p
      <4>1. calls'[q] = calls[q] /\ Justified(q, calls[q])
        BY <1>7, <3>2 DEF IInv, CallInv
      <4>2. calls[q].step # "write"
        BY <1>2, <3>2, NoWriterWhenFree
      <4> QED
        BY <1>1, <1>5, <4>1, <4>2 DEF Justified, Included
    <3> QED
      BY <3>1, <3>2
  <2> QED
    BY <2>1 DEF CallInv
<1>10. HistoryInv'
  BY <1>1, <1>3, <1>5 DEF HistoryInv
<1>11. EpochsAdvance'
  <2>1. roots[Len(roots)].epoch = roots[1].epoch + Len(roots) - 1
    BY <1>5 DEF IInv, EpochsAdvance
  <2>2. roots[1].epoch \in Nat
    <3>1. roots[1] \in Root
      BY <1>4, <1>5, ElementOfSeq
    <3> QED
      BY <3>1 DEF Root
  <2>3. d.next.epoch = roots[1].epoch + (Len(roots) + 1) - 1
    BY <1>2, <1>3, <1>4, <1>5, <2>1, <2>2
  <2> QED
    BY <1>5, <2>3 DEF IInv, EpochsAdvance
<1>12. NoConflictingEntries' /\ TipNeverAhead'
  BY <1>1 DEF IInv, NoConflictingEntries, TipNeverAhead
<1>13. RootIsLogged'
  <2>1. \E j \in DOMAIN log : log[j] \in Transition /\ log[j].previous = roots[Len(roots)]
                              /\ log[j].next = d.next
    BY <1>2, <1>4 DEF Included
  <2>2. ASSUME NEW i \in 2 .. Len(roots) + 1
        PROVE  \E j \in DOMAIN log : log[j] \in Transition /\ log[j].previous = roots'[i - 1]
                                     /\ log[j].next = roots'[i]
    BY <1>5, <2>1 DEF IInv, RootIsLogged
  <2> QED
    BY <1>1, <1>5, <2>2 DEF RootIsLogged
<1>14. RetiredUnderItsEpoch'
  BY <1>1, <1>5 DEF IInv, RetiredUnderItsEpoch
<1> QED
  BY <1>8, <1>9, <1>10, <1>11, <1>12, <1>13, <1>14 DEF IInv

(* A retirement begins with the stored root, the last of the history.        *)
LEMMA ReadForRetirementKeepsInv ==
    ASSUME IInv, NEW p \in Process, ReadForRetirement(p)
    PROVE  IInv'
<1> DEFINE c == [NoCall EXCEPT !.op = "retire", !.step = "retire", !.root = root]
<1>1. /\ root # Nothing /\ calls' = [calls EXCEPT ![p] = c]
      /\ UNCHANGED <<root, manifest, retired, log, torn, tip, rootLock, logLock, roots>>
  BY DEF ReadForRetirement
<1>2. c \in CallType /\ c.step = "retire" /\ c.root = root
  BY DEF NoCall, CallType, Command, Step, Mode, IInv, TypeOK
<1>3. \E i \in DOMAIN roots : roots[i] = root
  BY <1>1, LenProperties, EmptySeq DEF IInv, HistoryInv, TypeOK
<1>4. Justified(p, c)
  BY <1>2, <1>3 DEF Justified
<1>5. torn' \in BOOLEAN /\ manifest' \in Manifest \union {Nothing}
  BY <1>1 DEF IInv, TypeOK
<1> HIDE DEF c
<1> QED
  BY <1>1, <1>2, <1>4, <1>5, CallStepKeepsInv

(* The manifest state moves to the epoch of a root there was and whose key   *)
(* it names.                                                                 *)
LEMMA RetireManifestKeepsInv ==
    ASSUME IInv, NEW p \in Process, RetireManifest(p)
    PROVE  IInv'
<1>1. /\ calls[p].step = "retire" /\ manifest # Nothing
      /\ manifest.root = calls[p].root.key
      /\ retired' = [retired EXCEPT ![calls[p].root.epoch] = manifest]
      /\ manifest' = Nothing /\ calls' = [calls EXCEPT ![p] = NoCall]
      /\ UNCHANGED <<root, log, torn, tip, rootLock, logLock, roots>>
  BY DEF RetireManifest, Done
<1>2. calls' \in [Process -> CallType] /\ CallInv'
  BY <1>1, NoCallType, CallStep
<1>3. TypeOK'
  BY <1>1, <1>2 DEF IInv, TypeOK, CallType
<1>4. HistoryInv' /\ EpochsAdvance'
  BY <1>1 DEF IInv, HistoryInv, EpochsAdvance
<1>5. NoConflictingEntries' /\ TipNeverAhead' /\ RootIsLogged'
  BY <1>1 DEF IInv, NoConflictingEntries, TipNeverAhead, RootIsLogged
<1>6. RetiredUnderItsEpoch'
  <2>1. \E i \in DOMAIN roots : roots[i] = calls[p].root
    BY <1>1 DEF IInv, CallInv, Justified
  <2>2. \A e \in Epoch : retired'[e] = IF e = calls[p].root.epoch THEN manifest ELSE retired[e]
    BY <1>1 DEF IInv, TypeOK
  <2> QED
    BY <1>1, <2>1, <2>2 DEF IInv, RetiredUnderItsEpoch
<1> QED
  BY <1>2, <1>3, <1>4, <1>5, <1>6 DEF IInv

(* A command that stops frees its own locks only.                            *)
LEMMA StopKeepsInv ==
    ASSUME IInv, NEW p \in Process, Stop(p)
    PROVE  IInv'
<1>1. /\ rootLock' = (IF rootLock = p THEN Nobody ELSE rootLock)
      /\ logLock' = (IF logLock = p THEN Nobody ELSE logLock)
      /\ calls' = [calls EXCEPT ![p] = NoCall]
      /\ UNCHANGED <<root, manifest, retired, log, torn, tip, roots>>
  BY DEF Stop, Done
<1>2. calls \in [Process -> CallType]
  BY DEF IInv, TypeOK, CallType
<1>3. \A q \in Process : calls'[q] = IF q = p THEN NoCall ELSE calls[q]
  BY <1>1, <1>2
<1>4. TypeOK'
  BY <1>1, NoCallType DEF IInv, TypeOK, CallType
<1>5. CallInv'
  <2>1. ASSUME NEW q \in Process
        PROVE  Justified(q, calls[q])'
    <3>1. CASE q = p
      BY <1>3, <3>1 DEF Justified, NoCall
    <3>2. CASE q # p
      <4>1. calls'[q] = calls[q] /\ Justified(q, calls[q])
        BY <1>3, <3>2 DEF IInv, CallInv
      <4> QED
        BY <1>1, <3>2, <4>1 DEF Justified, Included, TransitionVerifies
    <3> QED
      BY <3>1, <3>2
  <2> QED
    BY <2>1 DEF CallInv
<1>6. HistoryInv' /\ EpochsAdvance' /\ RetiredUnderItsEpoch'
  BY <1>1 DEF IInv, HistoryInv, EpochsAdvance, RetiredUnderItsEpoch
<1>7. NoConflictingEntries' /\ RootIsLogged' /\ TipNeverAhead'
  BY <1>1 DEF IInv, NoConflictingEntries, RootIsLogged, TipNeverAhead
<1> QED
  BY <1>4, <1>5, <1>6, <1>7 DEF IInv

-----------------------------------------------------------------------------
(* The invariant holds, and with it what it is made of.                      *)
LEMMA InvInitially == Init => IInv
<1> SUFFICES ASSUME Init PROVE IInv
  OBVIOUS
<1>1. TypeOK
  BY NoCallType, EmptySeq DEF Init, TypeOK, CallType
<1>2. CallInv
  BY NoCallType DEF Init, CallInv
<1>3. HistoryInv /\ EpochsAdvance
  BY DEF Init, HistoryInv, EpochsAdvance
<1>4. NoConflictingEntries /\ TipNeverAhead
  BY DEF Init, NoConflictingEntries, TipNeverAhead
<1>5. RootIsLogged /\ RetiredUnderItsEpoch
  BY DEF Init, RootIsLogged, RetiredUnderItsEpoch
<1> QED
  BY <1>1, <1>2, <1>3, <1>4, <1>5 DEF IInv

(* No step of any command breaks it.                                         *)
LEMMA InvStep == IInv /\ [Next]_vars => IInv'
<1> SUFFICES ASSUME IInv, [Next]_vars PROVE IInv'
  OBVIOUS
<1>1. ASSUME NEW r \in FirstRoots, InitializeRoot(r) PROVE IInv'
  BY <1>1, InitializeRootKeepsInv
<1>2. ASSUME NEW p \in Process, NEW t \in Transition, NEW mode \in {"register", "require"},
             ReadForTransition(p, "apply", t, mode)
      PROVE  IInv'
  BY <1>2, ReadForTransitionKeepsInv DEF Mode
<1>3. ASSUME NEW p \in Process, NEW t \in Transition,
             ReadForTransition(p, "check", t, "register")
      PROVE  IInv'
  BY <1>3, ReadForTransitionKeepsInv DEF Mode
<1>4. ASSUME NEW p \in Process, NEW m \in Manifest, NEW mode \in Mode,
             NEW update \in BOOLEAN, ReadForManifest(p, m, mode, update)
      PROVE  IInv'
  BY <1>4, ReadForManifestKeepsInv
<1>5. ASSUME NEW p \in Process, NEW m \in Manifest, InitializeManifest(p, m)
      PROVE  IInv'
  BY <1>5, ReadForManifestKeepsInv DEF InitializeManifest, Mode
<1>6. ASSUME NEW p \in Process,
             \/ ApplyManifest(p) \/ FindEntry(p) \/ AppendEntry(p) \/ TearLine(p)
             \/ ExportTip(p) \/ LockRoot(p) \/ WriteRoot(p) \/ ReadForRetirement(p)
             \/ RetireManifest(p) \/ Stop(p)
      PROVE  IInv'
  BY <1>6, ApplyManifestKeepsInv, FindEntryKeepsInv, AppendEntryKeepsInv, TearLineKeepsInv,
     ExportTipKeepsInv, LockRootKeepsInv, WriteRootKeepsInv, ReadForRetirementKeepsInv,
     RetireManifestKeepsInv, StopKeepsInv
<1>7. CASE UNCHANGED vars
  <2>1. UNCHANGED <<root, manifest, retired, log, torn, tip, rootLock, logLock, calls, roots>>
    BY <1>7 DEF vars
  <2>2. TypeOK' /\ HistoryInv' /\ EpochsAdvance' /\ NoConflictingEntries'
        /\ TipNeverAhead' /\ RootIsLogged' /\ RetiredUnderItsEpoch'
    BY <2>1 DEF IInv, TypeOK, HistoryInv, EpochsAdvance, NoConflictingEntries, TipNeverAhead,
                RootIsLogged, RetiredUnderItsEpoch
  <2>3. CallInv'
    BY <2>1 DEF IInv, CallInv, Justified, Included, TransitionVerifies
  <2> QED
    BY <2>2, <2>3 DEF IInv
<1> QED
  BY <1>1, <1>2, <1>3, <1>4, <1>5, <1>6, <1>7 DEF Next

(* The inductive invariant of the trust state files: what each command       *)
(* carries from step to step stays true while other commands run.            *)
THEOREM Invariance == Spec => []IInv
  BY InvInitially, InvStep, PTL DEF Spec

(* Files, locks and commands keep their types.                               *)
THEOREM TrustTypes == Spec => []TypeOK
<1>1. IInv => TypeOK
  BY DEF IInv
<1> QED
  BY <1>1, Invariance, PTL

(* No identifier is registered twice (register_verified_artifact).           *)
THEOREM EntriesNeverConflict == Spec => []NoConflictingEntries
<1>1. IInv => NoConflictingEntries
  BY DEF IInv
<1> QED
  BY <1>1, Invariance, PTL

(* The recorded tip is a prefix of the log, wherever commands are stopped.   *)
THEOREM TipFollowsLog == Spec => []TipNeverAhead
<1>1. IInv => TipNeverAhead
  BY DEF IInv
<1> QED
  BY <1>1, Invariance, PTL

(* Every root but the first was reached by a transition in the log           *)
(* (apply_root_transition_with_transparency).                                *)
THEOREM RootsAreLogged == Spec => []RootIsLogged
<1>1. IInv => RootIsLogged
  BY DEF IInv
<1> QED
  BY <1>1, Invariance, PTL

(* A retired manifest is filed under the epoch of a root there was and       *)
(* whose key it names (retire_manifest_trust_state).                         *)
THEOREM RetiredWhereIssued == Spec => []RetiredUnderItsEpoch
<1>1. IInv => RetiredUnderItsEpoch
  BY DEF IInv
<1> QED
  BY <1>1, Invariance, PTL

(* Epochs count the root states: no epoch is ever held by two of them, so    *)
(* the epoch a manifest is retired under names one root.                     *)
THEOREM EpochsNeverReturn ==
    Spec => [](\A i, j \in DOMAIN roots : roots[i].epoch = roots[j].epoch => i = j)
<1>1. IInv => \A i, j \in DOMAIN roots : roots[i].epoch = roots[j].epoch => i = j
  <2> SUFFICES ASSUME IInv, NEW i \in DOMAIN roots, NEW j \in DOMAIN roots,
                      roots[i].epoch = roots[j].epoch
               PROVE  i = j
    OBVIOUS
  <2>1. roots \in Seq(Root) /\ i \in 1 .. Len(roots) /\ j \in 1 .. Len(roots)
        /\ Len(roots) \in Nat
    BY LenProperties DEF IInv, TypeOK
  <2>2. roots[1].epoch \in Nat
    <3>1. roots[1] \in Root
      BY <2>1, ElementOfSeq
    <3> QED
      BY <3>1 DEF Root
  <2>3. /\ roots[i].epoch = roots[1].epoch + i - 1
        /\ roots[j].epoch = roots[1].epoch + j - 1
    BY DEF IInv, EpochsAdvance
  <2>4. roots[1].epoch + i - 1 = roots[1].epoch + j - 1
    BY <2>3
  <2> QED
    BY <2>1, <2>2, <2>4
<1> QED
  BY <1>1, Invariance, PTL

-----------------------------------------------------------------------------
(* Action properties.                                                        *)

(* Only initialisation and the last step of a transition write the root.     *)
LEMMA RootWriters ==
    ASSUME Next, root' # root
    PROVE  \/ root = Nothing
           \/ \E p \in Process : WriteRoot(p)
  BY DEF Next, InitializeRoot, ReadForTransition, ReadForManifest, InitializeManifest,
         ApplyManifest, FindEntry, AppendEntry, TearLine, ExportTip, LockRoot,
         ReadForRetirement, RetireManifest, Stop

(* Only apply_manifest_trust_state puts a manifest in place of another.      *)
LEMMA ManifestWriters ==
    ASSUME Next, manifest' # manifest, manifest' # Nothing
    PROVE  \E p \in Process : ApplyManifest(p)
  BY DEF Next, InitializeRoot, ReadForTransition, ReadForManifest, InitializeManifest,
         WriteRoot, FindEntry, AppendEntry, TearLine, ExportTip, LockRoot,
         ReadForRetirement, RetireManifest, Stop

(* The root changes only by a transition that names the state it replaces,   *)
(* whatever was verified before the lock was taken (apply_root_transition).  *)
THEOREM RootsChain == Spec => RootChain
<1>1. IInv /\ [Next]_vars =>
          [root' # root => \/ root = Nothing
                           \/ \E t \in Transition : t.previous = root /\ t.next = root']_vars
  <2> SUFFICES ASSUME IInv, Next, root' # root, root # Nothing
               PROVE  \E t \in Transition : t.previous = root /\ t.next = root'
    BY DEF vars
  <2>1. PICK p \in Process : WriteRoot(p)
    BY RootWriters
  <2>2. /\ calls[p].doc \in Transition /\ calls[p].doc.previous = root
        /\ root' = calls[p].doc.next
    BY <2>1 DEF WriteRoot, IInv, CallInv, Justified, TransitionVerifies
  <2> QED
    BY <2>2
<1> QED
  BY <1>1, Invariance, PTL DEF Spec, RootChain

(* A stored manifest gives way only to a higher generation of its own root   *)
(* (evaluate_manifest_trust_state).                                          *)
THEOREM GenerationsOnlyGrow == Spec => GenerationsGrow
<1>1. IInv /\ [Next]_vars =>
          [manifest # Nothing /\ manifest' # Nothing /\ manifest' # manifest =>
              /\ manifest'.root = manifest.root
              /\ manifest'.generation > manifest.generation]_vars
  <2> SUFFICES ASSUME IInv, Next, manifest # Nothing, manifest' # Nothing,
                      manifest' # manifest
               PROVE  /\ manifest'.root = manifest.root
                      /\ manifest'.generation > manifest.generation
    BY DEF vars
  <2>1. PICK p \in Process : ApplyManifest(p)
    BY ManifestWriters
  <2>2. manifest' = calls[p].doc /\ calls[p].doc \in Manifest /\ manifest \in Manifest
    BY <2>1 DEF ApplyManifest, IInv, TypeOK, CallInv, Justified
  <2>3. /\ manifest'.generation >= manifest.generation
        /\ manifest'.root = manifest.root
        /\ manifest'.generation = manifest.generation => manifest' = manifest
    BY <2>1, <2>2 DEF ApplyManifest, Evaluates
  <2>4. manifest.generation \in Nat /\ manifest'.generation \in Nat
    BY <2>2, TrustAssumption
  <2> QED
    BY <2>3, <2>4
<1> QED
  BY <1>1, Invariance, PTL DEF Spec, GenerationsGrow
=============================================================================

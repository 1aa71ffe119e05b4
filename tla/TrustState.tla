----------------------------- MODULE TrustState -----------------------------
(***************************************************************************)
(* The files that hold what the audit tool trusts: the root trust state,    *)
(* the signing key manifest trust state with its retired copies, and the    *)
(* transparency log with the state of its tip.  Every command of the tool   *)
(* is a process of its own; several may run at once.                        *)
(*                                                                         *)
(* A state file is replaced atomically, so it holds the old or the new      *)
(* state.  A command that writes one file reads, decides and writes under   *)
(* that file's lock, in one step unless it also touches another file.       *)
(* Commands that use several files take several steps.  A digest stands for *)
(* the document it was computed from and an entry hash for the entries up   *)
(* to it: hashes and signatures are taken to be sound.  Documents do not    *)
(* change after they were signed.                                           *)
(***************************************************************************)
EXTENDS Naturals, Sequences

CONSTANTS Process,
          Key,             \* root keys, by fingerprint
          FirstRoots,      \* root states an operator may start with
          Transition,      \* root transitions signed by both of their roots
          Manifest,        \* signing key manifests signed by their root
          MinGeneration,   \* configured minimum_generation
          MaxEntries,      \* MAX_TRANSPARENCY_LOG_ENTRIES
          ManifestPathGiven, \* whether commands that apply a transition name
                           \* the manifest state: a set of Booleans
          Nothing,         \* a file that does not exist
          Nobody           \* holds a lock that is free

Root == [epoch : Nat \ {0}, key : Key]

ASSUME TrustAssumption ==
    /\ FirstRoots \subseteq Root
    /\ Transition \subseteq [previous : Root, next : Root]
    /\ \A t \in Transition : /\ t.next.epoch = t.previous.epoch + 1
                             /\ t.next.key # t.previous.key
    /\ Manifest \subseteq [root : Key, generation : Nat \ {0}, content : Nat]
    /\ MinGeneration \in Nat \ {0}
    /\ MaxEntries \in Nat
    /\ ManifestPathGiven \subseteq BOOLEAN
    /\ Nothing \notin Root \union Manifest
    /\ Nobody \notin Process

VARIABLES root,        \* root trust state
          manifest,    \* manifest trust state
          retired,     \* retired manifest trust states, by root epoch
          log,         \* entries of the transparency log
          torn,        \* the log ends in an incomplete line
          tip,         \* transparency log state
          rootLock, logLock,
          calls,       \* the command of each process
          roots        \* every root state there was (history)

vars == <<root, manifest, retired, log, torn, tip, rootLock, logLock, calls, roots>>

Command == {"none", "apply", "check", "manifest", "retire"}
Step == {"idle", "state", "log", "tip", "lock", "write", "retire"}
Mode == {"none", "register", "require"}
Document == Transition \union Manifest

NoCall == [op |-> "none", step |-> "idle", doc |-> Nothing, root |-> Nothing,
           mode |-> "none", update |-> FALSE]

Epoch == {t.previous.epoch : t \in Transition} \union {t.next.epoch : t \in Transition}
            \union {r.epoch : r \in FirstRoots}

-----------------------------------------------------------------------------
(* Artifacts of the log.                                                    *)

(* artifact_identifier: what may be registered once, whatever its content.  *)
Identifier(doc) ==
    IF doc \in Transition
    THEN <<"root-transition", doc.previous.epoch, doc.next.epoch>>
    ELSE <<"signing-key-manifest", doc.root, doc.generation>>

Logged(id) == \E i \in DOMAIN log : Identifier(log[i]) = id

(* _verify_transparency_log_unlocked: every line complete, no identifier    *)
(* twice, and the tip recorded in the state is the last entry.              *)
LogVerifies ==
    /\ ~torn
    /\ \A i, j \in DOMAIN log : Identifier(log[i]) = Identifier(log[j]) => i = j
    /\ tip = (IF log = <<>> THEN Nothing ELSE log)

(* require_transparency_entry: registered, and with this digest.            *)
Included(doc) == \E i \in DOMAIN log : log[i] = doc

-----------------------------------------------------------------------------
(* Documents.                                                               *)

(* verify_root_transition, as far as the current root decides it.           *)
TransitionVerifies(t, current) == t.previous = current

(* verify_signing_key_manifest under the root the command has loaded.       *)
ManifestVerifies(m, current) ==
    /\ m.root = current.key
    /\ m.generation >= MinGeneration

\* Mutant: the stored generation is not a minimum.
EvaluatesAnyGeneration(m, stored) ==
    /\ m.generation >= MinGeneration
    /\ stored # Nothing => m.root = stored.root

(* evaluate_manifest_trust_state: FALSE where it raises.                    *)
Evaluates(m, stored) ==
    IF stored = Nothing THEN m.generation >= MinGeneration
    ELSE /\ m.generation >= MinGeneration
         /\ m.generation >= stored.generation
         /\ m.root = stored.root
         /\ m.generation = stored.generation => m = stored

-----------------------------------------------------------------------------
Goto(p, step) == calls' = [calls EXCEPT ![p].step = step]
Done(p) == calls' = [calls EXCEPT ![p] = NoCall]

(* What a command does once its document is in the log.                     *)
AfterLog(p) ==
    IF calls[p].op = "apply" THEN Goto(p, "lock") ELSE Done(p)

(* initialize_root_trust_state: under the lock, only if there is none.      *)
InitializeRoot(r) ==
    /\ rootLock = Nobody
    /\ root = Nothing
    /\ root' = r
    /\ roots' = Append(roots, r)
    /\ UNCHANGED <<manifest, retired, log, torn, tip, rootLock, logLock, calls>>

\* Mutant: the log is not consulted before the transition is applied.
ReadForTransitionUnlogged(p, op, t, mode) ==
    /\ calls[p] = NoCall
    /\ root # Nothing
    /\ TransitionVerifies(t, root)
    /\ calls' = [calls EXCEPT ![p] = [op |-> op, step |-> "lock", doc |-> t, root |-> root,
                                      mode |-> mode, update |-> FALSE]]
    /\ UNCHANGED <<root, manifest, retired, log, torn, tip, rootLock, logLock, roots>>

(* apply_root_transition_with_transparency loads the root state without its *)
(* lock and verifies the transition; _run_verify_root_transition likewise.  *)
ReadForTransition(p, op, t, mode) ==
    /\ calls[p] = NoCall
    /\ root # Nothing
    /\ TransitionVerifies(t, root)
    /\ calls' = [calls EXCEPT ![p] = [op |-> op, step |-> "log", doc |-> t, root |-> root,
                                      mode |-> mode, update |-> FALSE]]
    /\ UNCHANGED <<root, manifest, retired, log, torn, tip, rootLock, logLock, roots>>

(* _run_verify_signing_key_manifest: the root state is loaded, the manifest *)
(* verified against it.                                                     *)
ReadForManifest(p, m, mode, update) ==
    /\ calls[p] = NoCall
    /\ root # Nothing
    /\ ManifestVerifies(m, root)
    /\ calls' = [calls EXCEPT ![p] = [op |-> "manifest", step |-> "state", doc |-> m,
                                      root |-> root, mode |-> mode, update |-> update]]
    /\ UNCHANGED <<root, manifest, retired, log, torn, tip, rootLock, logLock, roots>>

(* _run_initialize_manifest_state: refused where a state file exists, then  *)
(* an update without the log.                                               *)
InitializeManifest(p, m) ==
    /\ manifest = Nothing
    /\ ReadForManifest(p, m, "none", TRUE)

(* apply_manifest_trust_state, under the lock of the manifest state.  The   *)
(* state is stored before the log is consulted.                             *)
ApplyManifest(p) ==
    /\ calls[p].step = "state"
    /\ Evaluates(calls[p].doc, manifest)
    /\ manifest' = IF calls[p].update THEN calls[p].doc ELSE manifest
    /\ IF calls[p].mode = "none" THEN Done(p) ELSE Goto(p, "log")
    /\ UNCHANGED <<root, retired, log, torn, tip, rootLock, logLock, roots>>

(* The document is in the log: register_verified_artifact adds nothing, a   *)
(* command that requires the entry is satisfied.                            *)
FindEntry(p) ==
    /\ calls[p].step = "log"
    /\ logLock = Nobody
    /\ LogVerifies
    /\ Included(calls[p].doc)
    /\ AfterLog(p)
    /\ UNCHANGED <<root, manifest, retired, log, torn, tip, rootLock, logLock, roots>>

MayAppend(p) ==
    /\ calls[p].step = "log"
    /\ calls[p].mode = "register"
    /\ logLock = Nobody
    /\ LogVerifies
    /\ ~Logged(Identifier(calls[p].doc))
    /\ Len(log) < MaxEntries

\* Mutant: the tip is recorded before the entry is written.
AppendEntryTipFirst(p) ==
    /\ MayAppend(p)
    /\ tip' = Append(log, calls[p].doc)
    /\ logLock' = p
    /\ Goto(p, "tip")
    /\ UNCHANGED <<root, manifest, retired, log, torn, rootLock, roots>>

(* register_verified_artifact appends the entry under the log's lock ...    *)
AppendEntry(p) ==
    /\ MayAppend(p)
    /\ log' = Append(log, calls[p].doc)
    /\ logLock' = p
    /\ Goto(p, "tip")
    /\ UNCHANGED <<root, manifest, retired, torn, tip, rootLock, roots>>

(* ... or the write ends in the middle of the line, which no one repairs.   *)
TearLine(p) ==
    /\ MayAppend(p)
    /\ torn' = TRUE
    /\ Done(p)
    /\ UNCHANGED <<root, manifest, retired, log, tip, rootLock, logLock, roots>>

(* ... then records the new tip, verifies the log again, and releases.      *)
ExportTip(p) ==
    /\ calls[p].step = "tip"
    /\ tip' = log
    /\ logLock' = Nobody
    /\ AfterLog(p)
    /\ UNCHANGED <<root, manifest, retired, log, torn, rootLock, roots>>

(* A manifest trust state blocks the transition, if the command was told      *)
(* where it lies (active_manifest_state_path is not None).                   *)
ManifestAllows == \E given \in ManifestPathGiven : given => manifest = Nothing

\* Mutant: the state loaded before the lock is used.
LockRootStale(p) ==
    /\ calls[p].step = "lock"
    /\ rootLock = Nobody
    /\ ManifestAllows
    /\ TransitionVerifies(calls[p].doc, calls[p].root)
    /\ rootLock' = p
    /\ Goto(p, "write")
    /\ UNCHANGED <<root, manifest, retired, log, torn, tip, logLock, roots>>

(* apply_root_transition: under the root lock the state is loaded and the   *)
(* transition verified again; a manifest trust state may block it.          *)
LockRoot(p) ==
    /\ calls[p].step = "lock"
    /\ rootLock = Nobody
    /\ ManifestAllows
    /\ TransitionVerifies(calls[p].doc, root)
    /\ rootLock' = p
    /\ Goto(p, "write")
    /\ UNCHANGED <<root, manifest, retired, log, torn, tip, logLock, roots>>

WriteRoot(p) ==
    /\ calls[p].step = "write"
    /\ root' = calls[p].doc.next
    /\ roots' = Append(roots, root')
    /\ rootLock' = Nobody
    /\ Done(p)
    /\ UNCHANGED <<manifest, retired, log, torn, tip, logLock>>

(* _run_retire_manifest_state loads the root state ...                      *)
ReadForRetirement(p) ==
    /\ calls[p] = NoCall
    /\ root # Nothing
    /\ calls' = [calls EXCEPT ![p] = [NoCall EXCEPT !.op = "retire", !.step = "retire",
                                                    !.root = root]]
    /\ UNCHANGED <<root, manifest, retired, log, torn, tip, rootLock, logLock, roots>>

\* Mutant: the manifest's root is not compared.
RetireAnyManifest(p) ==
    /\ calls[p].step = "retire"
    /\ manifest # Nothing
    /\ retired[calls[p].root.epoch] = Nothing
    /\ retired' = [retired EXCEPT ![calls[p].root.epoch] = manifest]
    /\ manifest' = Nothing
    /\ Done(p)
    /\ UNCHANGED <<root, log, torn, tip, rootLock, logLock, roots>>

(* retire_manifest_trust_state renames the state file, under its lock, if   *)
(* it belongs to that root and no state of that epoch was retired before.   *)
RetireManifest(p) ==
    /\ calls[p].step = "retire"
    /\ manifest # Nothing
    /\ manifest.root = calls[p].root.key
    /\ retired[calls[p].root.epoch] = Nothing
    /\ retired' = [retired EXCEPT ![calls[p].root.epoch] = manifest]
    /\ manifest' = Nothing
    /\ Done(p)
    /\ UNCHANGED <<root, log, torn, tip, rootLock, logLock, roots>>

(* A check fails, an OSError is raised, or the process is killed: the locks *)
(* it holds are free again, the files stay as they are.                     *)
Stop(p) ==
    /\ calls[p] # NoCall
    /\ rootLock' = IF rootLock = p THEN Nobody ELSE rootLock
    /\ logLock' = IF logLock = p THEN Nobody ELSE logLock
    /\ Done(p)
    /\ UNCHANGED <<root, manifest, retired, log, torn, tip, roots>>

-----------------------------------------------------------------------------
Init ==
    /\ root = Nothing /\ manifest = Nothing /\ tip = Nothing
    /\ retired = [e \in Epoch |-> Nothing]
    /\ log = <<>> /\ roots = <<>>
    /\ torn = FALSE
    /\ rootLock = Nobody /\ logLock = Nobody
    /\ calls = [p \in Process |-> NoCall]

Next ==
    \/ \E r \in FirstRoots : InitializeRoot(r)
    \/ \E p \in Process :
         \/ \E t \in Transition, mode \in {"register", "require"} :
              ReadForTransition(p, "apply", t, mode)
         \/ \E t \in Transition : ReadForTransition(p, "check", t, "register")
         \/ \E m \in Manifest, mode \in Mode, update \in BOOLEAN :
              ReadForManifest(p, m, mode, update)
         \/ \E m \in Manifest : InitializeManifest(p, m)
         \/ ApplyManifest(p)
         \/ FindEntry(p) \/ AppendEntry(p) \/ TearLine(p) \/ ExportTip(p)
         \/ LockRoot(p) \/ WriteRoot(p)
         \/ ReadForRetirement(p) \/ RetireManifest(p)
         \/ Stop(p)

Spec == Init /\ [][Next]_vars

-----------------------------------------------------------------------------
(* Type invariant of the files, locks and commands.                         *)
TypeOK ==
    /\ root \in Root \union {Nothing}
    /\ manifest \in Manifest \union {Nothing}
    /\ retired \in [Epoch -> Manifest \union {Nothing}]
    /\ log \in Seq(Document) /\ torn \in BOOLEAN
    /\ tip \in Seq(Document) \union {Nothing}
    /\ rootLock \in Process \union {Nobody} /\ logLock \in Process \union {Nobody}
    /\ calls \in [Process -> [op : Command, step : Step, doc : Document \union {Nothing},
                              root : Root \union {Nothing}, mode : Mode, update : BOOLEAN]]
    /\ roots \in Seq(Root)

(* An identifier is registered at most once, whoever registers it: two      *)
(* rival transitions of one epoch, or two manifests of one generation, never *)
(* both get into the log (register_verified_artifact).                      *)
NoConflictingEntries ==
    \A i, j \in DOMAIN log : Identifier(log[i]) = Identifier(log[j]) => i = j

(* The recorded tip never claims more than the log holds, wherever a        *)
(* command is stopped: the line is on disk before the state that counts it.  *)
TipNeverAhead ==
    tip # Nothing => /\ Len(tip) <= Len(log)
                     /\ SubSeq(log, 1, Len(tip)) = tip

(* A root that was reached by a transition is in the log with exactly that  *)
(* transition, also when rival transitions were verified at the same time    *)
(* (apply_root_transition_with_transparency).                               *)
RootIsLogged ==
    \A i \in 2 .. Len(roots) : \E j \in DOMAIN log :
        log[j] \in Transition /\ log[j].previous = roots[i - 1] /\ log[j].next = roots[i]

(* A retired manifest state carries the epoch of the root that issued it,   *)
(* although the epoch was read before the lock was taken                    *)
(* (retire_manifest_trust_state).                                           *)
RetiredUnderItsEpoch ==
    \A e \in Epoch : retired[e] # Nothing =>
        \E i \in DOMAIN roots : roots[i].epoch = e /\ roots[i].key = retired[e].root

(* The root trust state changes only by a transition that names the state   *)
(* it replaces: two commands that verified against the same root do not both *)
(* take effect (apply_root_transition verifies again under the lock).       *)
RootChain ==
    [][root' # root => \/ root = Nothing
                       \/ \E t \in Transition : t.previous = root /\ t.next = root']_vars

(* A stored manifest state is replaced only by a higher generation of the   *)
(* same root (evaluate_manifest_trust_state under the lock).                *)
GenerationsGrow ==
    [][manifest # Nothing /\ manifest' # Nothing /\ manifest' # manifest =>
          /\ manifest'.root = manifest.root
          /\ manifest'.generation > manifest.generation]_vars

(* A manifest trust state belongs to the current root: it is retired before *)
(* the root changes (_ACTIVE_MANIFEST_MESSAGE, apply_root_transition).      *)
ManifestUnderCurrentRoot ==
    manifest # Nothing => manifest.root = root.key
=============================================================================

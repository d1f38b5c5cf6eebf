------------------------- MODULE SubscriptionsProofs -------------------------
(***************************************************************************)
(* Proofs about Subscriptions and the ConfigStore in it, for any configs   *)
(* and any number of sets and crashes.  What depends on the order of two   *)
(* file operations of different writers is proved for one writer: the run  *)
(* config_stale shows that it fails for two.                               *)
(***************************************************************************)
EXTENDS Subscriptions, TLAPS, FiniteSetTheorems

(* Inside set there is always a validated config. *)
CallsAreValid == \A w \in Writers : call[w].step # "idle" => call[w].cfg \in Valid

TypeInv == SubTypeOK /\ CallsAreValid

-----------------------------------------------------------------------------
(* Types *)

LEMMA InodesExist == 1 \in Inodes /\ None \notin Inodes
  <1>1. Cardinality(Writers) \in Nat
    BY StoreAssumption, FS_CardinalityType
  <1> QED BY <1>1, StoreAssumption DEF Inodes

LEMMA LoadedType == ASSUME NEW content PROVE Loaded(content) \in Configs
  BY StoreAssumption DEF Loaded

LEMMA AdoptedType ==
  ASSUME NEW e \in Engine \cup {None}, NEW c \in Configs PROVE Adopted(e, c) \in Engine
  BY DEF Adopted, NewEngine, Engine

LEMMA InitTypes == SubInit => TypeInv
  <1> SUFFICES ASSUME SubInit PROVE TypeInv
    OBVIOUS
  <1>1. TypeOK
    BY InodesExist, LoadedType, StoreAssumption DEF SubInit, Init, TypeOK, Idle, Steps
  <1> QED BY <1>1 DEF SubInit, Init, TypeInv, SubTypeOK, CallsAreValid, Idle

\* The calls of a writer into the file system.
Persists(w) == Create(w) \/ Write(w) \/ Rename(w) \/ PersistFails(w)

LEMMA PersistTypes ==
  ASSUME TypeOK, CallsAreValid, NEW w \in Writers, Persists(w)
  PROVE  TypeOK' /\ CallsAreValid' /\ inner' = inner /\ up' = up
  <1> USE DEF TypeOK, CallsAreValid, At, Goto, Steps
  <1>1. CASE Create(w)
    BY <1>1 DEF Create, Contents
  <1>2. CASE Write(w)
    <2>1. call[w].cfg \in Configs
      BY <1>2, StoreAssumption DEF Write
    <2> QED BY <1>2, <2>1 DEF Write, Contents
  <1>3. CASE Rename(w)
    BY <1>3 DEF Rename
  <1>4. CASE PersistFails(w)
    BY <1>4 DEF PersistFails
  <1> QED BY <1>1, <1>2, <1>3, <1>4 DEF Persists

LEMMA StoreTypes ==
  ASSUME TypeOK, CallsAreValid, NEW w \in Writers,
         (\E c \in Configs : Adopt(w, c)) \/ Return(w)
  PROVE  TypeOK' /\ CallsAreValid'
  <1> USE DEF TypeOK, CallsAreValid, At, Steps
  <1>1. ASSUME NEW c \in Configs, Adopt(w, c) PROVE TypeOK' /\ CallsAreValid'
    BY <1>1, StoreAssumption DEF Adopt
  <1>2. CASE Return(w)
    BY <1>2 DEF Return, Idle
  <1> QED BY <1>1, <1>2

LEMMA NextTypes == TypeInv /\ [SubNext]_vars => TypeInv'
  <1> SUFFICES ASSUME TypeInv, [SubNext]_vars PROVE TypeInv'
    OBVIOUS
  <1> USE DEF TypeInv, SubTypeOK
  <1>1. inner.cfg \in Configs /\ inner.gen \in 0..MaxGen
    BY DEF TypeOK
  <1>2. ASSUME NEW s \in Sessions, StoreStep(s), UNCHANGED <<session, evaluator>> PROVE TypeInv'
    BY <1>2, StoreTypes, PersistTypes DEF StoreStep, Persists, Sessions
  <1>3. ASSUME NEW s \in Sessions, Subscribed(s) PROVE TypeInv'
    <2>1. call[s].cfg \in Configs /\ session[s] \in Engine \cup {None}
      BY <1>3, StoreAssumption DEF Subscribed, Return, At, CallsAreValid, Sessions
    <2> QED BY <1>3, <2>1, StoreTypes, AdoptedType DEF Subscribed, Sessions
  <1>4. ASSUME NEW s \in Sessions, SubscribeStored(s) PROVE TypeInv'
    BY <1>4, <1>1, AdoptedType DEF SubscribeStored, storeVars, TypeOK, CallsAreValid
  <1>5. ASSUME NEW s \in Sessions, SessionReports(s) PROVE TypeInv'
    BY <1>5 DEF SessionReports, storeVars, TypeOK, CallsAreValid, Engine
  <1>6. ASSUME NEW s \in Sessions, Disconnect(s) PROVE TypeInv'
    BY <1>6 DEF Disconnect, storeVars, TypeOK, CallsAreValid
  <1>7. CASE StartEvaluator
    BY <1>7, <1>1 DEF StartEvaluator, storeVars, TypeOK, CallsAreValid, Engine, NewEngine
  <1>8. CASE Scan
    BY <1>8, <1>1 DEF Scan, storeVars, TypeOK, CallsAreValid, Engine, NewEngine
  <1>9. CASE ServerCrash
    BY <1>9 DEF ServerCrash, Crash, TypeOK, CallsAreValid, Idle, Steps
  <1>10. CASE Restart /\ UNCHANGED <<session, evaluator>>
    BY <1>10, LoadedType, StoreAssumption DEF Restart, TypeOK, CallsAreValid
  <1>11. CASE UNCHANGED vars
    BY <1>11 DEF vars, storeVars, TypeOK, CallsAreValid
  <1> QED BY <1>2, <1>3, <1>4, <1>5, <1>6, <1>7, <1>8, <1>9, <1>10, <1>11 DEF SubNext

-----------------------------------------------------------------------------
(* Generations *)

(* A generation the evaluator has noted is not ahead of the store, and once *)
(* it is the store's own it never was with another config.                  *)
FollowsStore ==
  up /\ evaluator # None =>
    /\ evaluator.gen <= inner.gen
    /\ evaluator.gen = inner.gen => evaluator.engine.cfg = inner.cfg

DownIsEmpty == ~up => evaluator = None

GenInv == TypeInv /\ FollowsStore /\ DownIsEmpty

LEMMA GenerationStep == GenInv /\ [SubNext]_vars => GenInv'
  <1> SUFFICES ASSUME GenInv, [SubNext]_vars PROVE GenInv'
    OBVIOUS
  <1> USE DEF GenInv, FollowsStore, DownIsEmpty
  <1>0. TypeInv'
    BY NextTypes
  <1>1. /\ inner.gen \in Nat
        /\ evaluator # None => evaluator.gen \in Nat
    BY DEF TypeInv, SubTypeOK, TypeOK
  <1>2. ASSUME NEW s \in Sessions, NEW c \in Configs, Adopt(s, c),
               UNCHANGED <<session, evaluator>>
        PROVE  GenInv'
    BY <1>0, <1>1, <1>2 DEF Adopt, At
  <1>3. ASSUME NEW s \in Sessions, Persists(s), UNCHANGED <<session, evaluator>> PROVE GenInv'
    <2>1. inner' = inner /\ up' = up
      BY <1>3, PersistTypes DEF TypeInv, SubTypeOK, Sessions
    <2> QED BY <1>0, <1>3, <2>1
  <1>4. ASSUME NEW s \in Sessions, Subscribed(s) PROVE GenInv'
    BY <1>0, <1>4 DEF Subscribed, Return, At
  <1>5. ASSUME NEW s \in Sessions,
               SubscribeStored(s) \/ SessionReports(s) \/ Disconnect(s)
        PROVE  GenInv'
    BY <1>0, <1>5 DEF SubscribeStored, SessionReports, Disconnect, storeVars
  <1>6. CASE StartEvaluator
    BY <1>0, <1>1, <1>6 DEF StartEvaluator, NewEngine, storeVars
  <1>7. CASE Scan
    <2>1. PICK reports \in BOOLEAN :
            LET e == IF evaluator.gen = inner.gen THEN evaluator.engine ELSE NewEngine(inner.cfg)
            IN  evaluator' = [gen |-> inner.gen,
                              engine |-> [e EXCEPT !.reported = @ \/ reports]]
      BY <1>7 DEF Scan
    <2>2. evaluator.engine \in Engine
      BY <1>7 DEF Scan, TypeInv, SubTypeOK
    <2>3. CASE evaluator.gen = inner.gen
      BY <1>0, <1>1, <1>7, <2>1, <2>2, <2>3 DEF Scan, Engine, storeVars
    <2>4. CASE evaluator.gen # inner.gen
      BY <1>0, <1>1, <1>7, <2>1, <2>4 DEF Scan, NewEngine, storeVars
    <2> QED BY <2>3, <2>4
  <1>8. CASE ServerCrash
    BY <1>0, <1>8 DEF ServerCrash, Crash
  <1>9. CASE Restart /\ UNCHANGED <<session, evaluator>>
    BY <1>0, <1>9 DEF Restart
  <1>10. CASE UNCHANGED vars
    BY <1>0, <1>10 DEF vars, storeVars
  <1> QED
    BY <1>2, <1>3, <1>4, <1>5, <1>6, <1>7, <1>8, <1>9, <1>10 DEF SubNext, StoreStep, Persists

-----------------------------------------------------------------------------
(* The files, under one writer *)

OneWriter == \A v, w \in Writers : v = w

(* Where the writer is determines what is in the files: the temporary file  *)
(* is never the config file, is empty once it is created and whole once it  *)
(* is written; what the writer carries is the live config; and the config   *)
(* file holds it as soon as the writer returns, unless something failed.    *)
FilesOK ==
  /\ tmp # None => tmp # path
  /\ path # None => data[path] \in Configs
  /\ inner.gen > 0 => inner.cfg \in Valid
  /\ up /\ persisted /\ inner.gen > 0 /\ (\A w \in Writers : call[w].step = "idle") =>
       path # None /\ data[path] = inner.cfg
  /\ \A w \in Writers :
       /\ call[w].step # "idle" => up /\ call[w].cfg = inner.cfg /\ inner.gen > 0
       /\ call[w].step = "write" => call[w].fd # None /\ call[w].fd = tmp /\ data[tmp] = Empty
       /\ call[w].step = "rename" => tmp # None /\ data[tmp] = call[w].cfg
       /\ call[w].step = "return" /\ persisted => path # None /\ data[path] = call[w].cfg

FileInv == TypeInv /\ FilesOK

LEMMA InitFiles == SubInit => FileInv
  <1> SUFFICES ASSUME SubInit PROVE FilesOK
    BY InitTypes DEF FileInv
  <1> QED BY DEF SubInit, Init, FilesOK, Idle

LEMMA AdoptFiles ==
  ASSUME OneWriter, FileInv, NEW w \in Writers, NEW c \in Configs, Adopt(w, c)
  PROVE  FilesOK'
  BY DEF OneWriter, FileInv, FilesOK, TypeInv, SubTypeOK, TypeOK, Adopt, At

LEMMA CreateFiles ==
  ASSUME OneWriter, FileInv, NEW w \in Writers, Create(w)
  PROVE  FilesOK' /\ File' = File
  <1> USE DEF OneWriter, FileInv, FilesOK, TypeInv, SubTypeOK, TypeOK, At, Goto, File
  <1>1. PICK n \in Inodes :
          /\ IF tmp = None THEN n # path /\ \A v \in Writers : call[v].fd # n ELSE n = tmp
          /\ tmp' = n /\ data' = [data EXCEPT ![n] = Empty] /\ Goto(w, "write", n)
    BY DEF Create
  <1>2. n # path /\ n # None
    BY <1>1, InodesExist
  <1> QED BY <1>1, <1>2 DEF Create

LEMMA WriteFiles ==
  ASSUME OneWriter, FileInv, NEW w \in Writers, Write(w)
  PROVE  FilesOK' /\ File' = File
  <1> USE DEF OneWriter, FileInv, FilesOK, TypeInv, SubTypeOK, TypeOK, At, Goto, File
  <1>1. call[w].fd = tmp /\ tmp # None /\ tmp # path /\ data[tmp] = Empty
    BY DEF Write
  <1>2. data' = [data EXCEPT ![tmp] = call[w].cfg]
    BY <1>1 DEF Write
  <1> QED BY <1>1, <1>2 DEF Write

LEMMA RenameFiles ==
  ASSUME OneWriter, FileInv, NEW w \in Writers, Rename(w)
  PROVE  FilesOK' /\ File' = inner.cfg
  BY DEF OneWriter, FileInv, FilesOK, TypeInv, SubTypeOK, TypeOK, At, Goto, File, Rename

LEMMA FailFiles ==
  ASSUME OneWriter, FileInv, NEW w \in Writers, PersistFails(w)
  PROVE  FilesOK' /\ File' = File
  BY DEF OneWriter, FileInv, FilesOK, TypeInv, SubTypeOK, TypeOK, At, Goto, File, PersistFails

LEMMA ReturnFiles ==
  ASSUME OneWriter, FileInv, NEW w \in Writers, Return(w)
  PROVE  FilesOK' /\ File' = File
  BY DEF OneWriter, FileInv, FilesOK, TypeInv, SubTypeOK, TypeOK, At, Idle, File, Return

LEMMA CrashFiles ==
  ASSUME FileInv, Crash
  PROVE  FilesOK' /\ File' = File
  BY DEF FileInv, FilesOK, TypeInv, SubTypeOK, TypeOK, Idle, File, Crash

LEMMA RestartFiles ==
  ASSUME FileInv, Restart
  PROVE  FilesOK' /\ File' = File
  BY DEF FileInv, FilesOK, TypeInv, SubTypeOK, TypeOK, File, Restart

LEMMA FilesStep == OneWriter /\ FileInv /\ [SubNext]_vars => FileInv'
  <1> SUFFICES ASSUME OneWriter, FileInv, [SubNext]_vars PROVE FilesOK'
    BY NextTypes DEF FileInv
  <1>1. ASSUME NEW s \in Sessions, StoreStep(s) PROVE FilesOK'
    BY <1>1, AdoptFiles, CreateFiles, WriteFiles, RenameFiles, FailFiles DEF StoreStep, Sessions
  <1>2. ASSUME NEW s \in Sessions, Subscribed(s) PROVE FilesOK'
    BY <1>2, ReturnFiles DEF Subscribed, Sessions
  <1>3. CASE ServerCrash
    BY <1>3, CrashFiles DEF ServerCrash
  <1>4. CASE Restart
    BY <1>4, RestartFiles
  <1>5. CASE UNCHANGED storeVars
    BY <1>5 DEF storeVars, FileInv, FilesOK
  <1> QED BY <1>1, <1>2, <1>3, <1>4, <1>5
         DEF SubNext, SubscribeStored, SessionReports, Disconnect, StartEvaluator, Scan, vars

-----------------------------------------------------------------------------
(* Theorems *)

\* Store, sessions and evaluator keep their types; a config inside set was
\* validated (config_store.rs:71-105, ws.rs:180-192, main.rs:339-352).
THEOREM TypesKept == SubSpec => []TypeInv
  BY InitTypes, NextTypes, PTL DEF SubSpec

\* Whatever fails or crashes, the store, its files and the sessions keep their
\* types (config_store.rs, session.rs).
THEOREM SubTypeCorrect == SubSpec => []SubTypeOK
  <1>1. TypeInv => SubTypeOK
    BY DEF TypeInv
  <1> QED BY <1>1, TypesKept, PTL

\* Equal generations mean equal configs for any number of writers
\* (config_store.rs:63-67, main.rs:347-352).
THEOREM GenerationsName == SubSpec => []GenerationNamesConfig
  <1>1. SubInit => GenInv
    BY InitTypes DEF SubInit, Init, GenInv, FollowsStore, DownIsEmpty
  <1>2. GenInv => GenerationNamesConfig
    BY DEF GenInv, FollowsStore, GenerationNamesConfig
  <1> QED BY <1>1, <1>2, GenerationStep, PTL DEF SubSpec

\* With one writer, the files follow where the writer is (config_store.rs:71-105).
THEOREM FilesFollowWriter == ASSUME OneWriter PROVE SubSpec => []FileInv
  <1>1. FileInv /\ [SubNext]_vars => FileInv'
    BY FilesStep
  <1> QED BY <1>1, InitFiles, PTL DEF SubSpec

\* What a restart would read is a whole config, whenever the process dies
\* (config_store.rs:94).
THEOREM WholeFile == ASSUME OneWriter PROVE SubSpec => []FileIsWhole
  <1>1. FileInv => FileIsWhole
    BY StoreAssumption DEF FileInv, FilesOK, FileIsWhole, File
  <1> QED BY <1>1, FilesFollowWriter, PTL

\* Once the writer has returned and nothing failed, a restart resumes the live
\* config (config_store.rs:5).
THEOREM Survival == ASSUME OneWriter PROVE SubSpec => []SurvivesRestart
  <1>1. FileInv => SurvivesRestart
    <2> SUFFICES ASSUME FileInv, up, inner.gen > 0, persisted,
                        \A w \in Writers : call[w].step = "idle"
                 PROVE  Loaded(File) = inner.cfg
      BY DEF SurvivesRestart
    <2> QED BY DEF FileInv, FilesOK, Loaded, File
  <1> QED BY <1>1, FilesFollowWriter, PTL

\* Every step of the store and its users is a step of one atomic config with
\* best-effort saving, or none: the file only ever moves to the live config
\* (config_store.rs:1-9).
THEOREM Refinement == ASSUME OneWriter PROVE SubSpec => ImplementsAtomic
  <1> DEFINE Step == [Atomic!AtomicNext]_(Atomic!atomicVars)
  <1> USE DEF Atomic!AtomicNext, Atomic!atomicVars
  <1>1. SubInit => Atomic!AtomicInit
    BY DEF SubInit, Init, File, Loaded, Atomic!AtomicInit, Atomic!Resumed
  <1>2. FileInv /\ [SubNext]_vars => Step
    <2> SUFFICES ASSUME FileInv, [SubNext]_vars PROVE Step
      OBVIOUS
    <2>1. ASSUME NEW s \in Writers, NEW c \in Configs, Adopt(s, c) PROVE Step
      BY <2>1 DEF Adopt, At, File, Atomic!AtomicSet
    <2>2. ASSUME NEW s \in Writers, Rename(s) PROVE Step
      BY <2>2, RenameFiles DEF Rename, At, Atomic!AtomicSave
    <2>3. ASSUME NEW s \in Writers, Create(s) \/ Write(s) \/ PersistFails(s) PROVE Step
      BY <2>3, CreateFiles, WriteFiles, FailFiles DEF Create, Write, PersistFails
    <2>4. ASSUME NEW s \in Writers, Return(s) PROVE Step
      BY <2>4, ReturnFiles DEF Return
    <2>5. CASE Crash
      BY <2>5, CrashFiles DEF Crash, Atomic!AtomicCrash
    <2>6. CASE Restart
      BY <2>6, RestartFiles DEF Restart, Loaded, Atomic!AtomicResume, Atomic!Resumed
    <2>7. CASE UNCHANGED storeVars
      BY <2>7 DEF storeVars, File
    <2> QED BY <2>1, <2>2, <2>3, <2>4, <2>5, <2>6, <2>7
            DEF SubNext, StoreStep, Sessions, Subscribed, ServerCrash, SubscribeStored,
                SessionReports, Disconnect, StartEvaluator, Scan, vars
  <1> QED BY <1>1, <1>2, FilesFollowWriter, PTL DEF SubSpec, ImplementsAtomic, Atomic!AtomicSpec

\* A resubscribe that changes nothing keeps what the engine knows about reported
\* episodes, for any number of sessions (ws.rs:180-192).
THEOREM Keepalive == SubSpec => KeepaliveKeepsState
  <1> DEFINE Kept(s) == (/\ session[s] # None /\ session'[s] # None
                         /\ session'[s].cfg = session[s].cfg /\ session[s].reported)
                           => session'[s].reported
  <1>1. TypeInv /\ [SubNext]_vars => [\A s \in Sessions : Kept(s)]_vars
    <2> SUFFICES ASSUME TypeInv, SubNext, NEW s \in Sessions PROVE Kept(s)
      OBVIOUS
    <2>1. session \in [Sessions -> Engine \cup {None}]
      BY DEF TypeInv, SubTypeOK
    <2>2. ASSUME NEW r \in Sessions, NEW c, session' = [session EXCEPT ![r] = Adopted(@, c)]
          PROVE  Kept(s)
      BY <2>1, <2>2 DEF Adopted, NewEngine
    <2>3. ASSUME NEW r \in Sessions, SessionReports(r) PROVE Kept(s)
      BY <2>1, <2>3 DEF SessionReports, Engine
    <2>4. ASSUME NEW r \in Sessions, Disconnect(r) PROVE Kept(s)
      BY <2>1, <2>4 DEF Disconnect
    <2>5. CASE ServerCrash
      BY <2>5 DEF ServerCrash
    <2>6. CASE UNCHANGED session
      BY <2>6
    <2> QED BY <2>2, <2>3, <2>4, <2>5, <2>6
            DEF SubNext, Subscribed, SubscribeStored, StartEvaluator, Scan
  <1> QED BY <1>1, TypesKept, PTL DEF SubSpec, KeepaliveKeepsState
=============================================================================

---------------------------- MODULE Subscriptions ----------------------------
(***************************************************************************)
(* Who screens with which config: the WS sessions, whose `subscribe` sets  *)
(* the stored config (crates/api/src/ws.rs), and the server's own signal   *)
(* evaluator, which follows it by generation (bin/server/src/main.rs).     *)
(* The store is ConfigStore; the writers inside `set` are the sessions.    *)
(*                                                                         *)
(* An engine is its config and whether it holds state worth keeping: some  *)
(* episode has been reported and must not be reported again.               *)
(***************************************************************************)
EXTENDS ConfigStore

VARIABLES
  session,    \* session[s]: its engine, None while it has not subscribed
  evaluator   \* engine and cfg_gen of the evaluator task, None before it runs

vars == <<storeVars, session, evaluator>>

Sessions == Writers

Engine == [cfg : Configs, reported : BOOLEAN]
NewEngine(c) == [cfg |-> c, reported |-> FALSE]

SubTypeOK ==
  /\ TypeOK
  /\ session \in [Sessions -> Engine \cup {None}]
  /\ evaluator \in [gen : 0..MaxGen, engine : Engine] \cup {None}

SubInit == /\ Init
           /\ session = [s \in Sessions |-> None]
           /\ evaluator = None

\* Mutant: every subscribe builds a new engine.
AdoptedAfresh(e, c) == NewEngine(c)

\* Handshake or resubscribe: only a changed config replaces the engine.
Adopted(e, c) == IF e # None /\ e.cfg = c THEN e ELSE NewEngine(c)

\* The config subscribe carries was adopted and persisted: the session goes on
\* with it, whatever other sessions have stored since.
Subscribed(s) ==
  /\ Return(s)
  /\ session' = [session EXCEPT ![s] = Adopted(@, call[s].cfg)]
  /\ UNCHANGED evaluator

\* subscribe without a config takes the stored one.
SubscribeStored(s) ==
  /\ At(s, "idle")
  /\ session' = [session EXCEPT ![s] = Adopted(@, inner.cfg)]
  /\ UNCHANGED <<storeVars, evaluator>>

\* A session's engine reports an episode, or the connection closes; the session
\* task does neither while it is inside set.
SessionReports(s) ==
  /\ At(s, "idle") /\ session[s] # None
  /\ session' = [session EXCEPT ![s].reported = TRUE]
  /\ UNCHANGED <<storeVars, evaluator>>

Disconnect(s) ==
  /\ At(s, "idle") /\ session[s] # None
  /\ session' = [session EXCEPT ![s] = None]
  /\ UNCHANGED <<storeVars, evaluator>>

-----------------------------------------------------------------------------
\* The evaluator task takes its first snapshot when it is first scheduled.
StartEvaluator ==
  /\ up /\ evaluator = None
  /\ evaluator' = [gen |-> inner.gen, engine |-> NewEngine(inner.cfg)]
  /\ UNCHANGED <<storeVars, session>>

\* Mutant: the new generation is noted, the engine is not rebuilt.
ScanWithoutRebuild ==
  /\ up /\ evaluator # None
  /\ \E reports \in BOOLEAN :
       evaluator' = [gen |-> inner.gen,
                     engine |-> [evaluator.engine EXCEPT !.reported = @ \/ reports]]
  /\ UNCHANGED <<storeVars, session>>

\* One scan: a new generation rebuilds the engine, then signals may be reported.
Scan ==
  /\ up /\ evaluator # None
  /\ \E reports \in BOOLEAN :
       LET e == IF evaluator.gen = inner.gen THEN evaluator.engine ELSE NewEngine(inner.cfg)
       IN  evaluator' = [gen |-> inner.gen,
                         engine |-> [e EXCEPT !.reported = @ \/ reports]]
  /\ UNCHANGED <<storeVars, session>>

ServerCrash == /\ Crash
               /\ session' = [s \in Sessions |-> None]
               /\ evaluator' = None

StoreStep(s) == \/ \E c \in Configs : Adopt(s, c)
                \/ Create(s) \/ Write(s) \/ Rename(s) \/ PersistFails(s)

SubNext ==
  \/ \E s \in Sessions : \/ StoreStep(s) /\ UNCHANGED <<session, evaluator>>
                         \/ Subscribed(s)
                         \/ SubscribeStored(s)
                         \/ SessionReports(s)
                         \/ Disconnect(s)
  \/ StartEvaluator
  \/ Scan
  \/ ServerCrash
  \/ Restart /\ UNCHANGED <<session, evaluator>>

SubSpec == SubInit /\ [][SubNext]_vars

\* The evaluator's timer keeps firing.
FairSubSpec == SubSpec /\ WF_vars(StartEvaluator) /\ WF_vars(Scan)

-----------------------------------------------------------------------------
(* Properties *)

\* The generation identifies the config: an evaluator that is up to date by
\* generation screens with the live config (config_store.rs:63-67 reads the two
\* under one lock).
GenerationNamesConfig ==
  (up /\ evaluator # None /\ evaluator.gen = inner.gen)
    => evaluator.engine.cfg = inner.cfg

\* A resubscribe that changes nothing keeps what the engine knows about reported
\* episodes (ws.rs:180-192).
KeepaliveKeepsState ==
  [][\A s \in Sessions :
       (/\ session[s] # None /\ session'[s] # None
        /\ session'[s].cfg = session[s].cfg /\ session[s].reported)
         => session'[s].reported]_vars

\* While the server stays up, the evaluator ends up screening with what the
\* clients have set, whichever sets it skipped (main.rs:347-352).
EvaluatorConverges ==
  <>[]up => <>[](evaluator # None /\ evaluator.engine.cfg = inner.cfg)
=============================================================================

---------------------------- MODULE AtomicConfig ----------------------------
(***************************************************************************)
(* What the config store promises (crates/persistence/src/config_store.rs, *)
(* lines 1-9): one live config, replaced atomically by whatever a client   *)
(* sets, and one saved config that only ever moves to the live one, from   *)
(* which a restart resumes.  Saving is best effort: it may never happen.   *)
(***************************************************************************)
CONSTANTS Configs, Valid, Bootstrap, None

VARIABLES live, saved, up

atomicVars == <<live, saved, up>>

\* A missing or invalid saved config falls back to the bootstrap default.
Resumed(s) == IF s \in Valid THEN s ELSE Bootstrap

AtomicInit == /\ saved \in Configs \cup {None}
              /\ live = Resumed(saved)
              /\ up = TRUE

AtomicSet(c) == up /\ c \in Valid /\ live' = c /\ UNCHANGED <<saved, up>>
AtomicSave   == up /\ saved' = live /\ UNCHANGED <<live, up>>
AtomicCrash  == up /\ up' = FALSE /\ UNCHANGED <<live, saved>>
AtomicResume == ~up /\ up' = TRUE /\ live' = Resumed(saved) /\ UNCHANGED saved

AtomicNext == \/ \E c \in Configs : AtomicSet(c)
              \/ AtomicSave
              \/ AtomicCrash
              \/ AtomicResume

AtomicSpec == AtomicInit /\ [][AtomicNext]_atomicVars
=============================================================================

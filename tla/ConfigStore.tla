----------------------------- MODULE ConfigStore -----------------------------
(***************************************************************************)
(* The persisted client config (crates/persistence/src/config_store.rs):   *)
(* the in-memory pair behind the lock, the calls of `set` that sessions    *)
(* make from their own tasks, and the file they persist to.                *)
(*                                                                         *)
(* `set` adopts the config under the write lock, releases it, and only     *)
(* then writes the temporary file and renames it.  File names refer to     *)
(* inodes, so that a writer that still holds the temporary file open after *)
(* another writer renamed it writes into the config file itself.           *)
(***************************************************************************)
EXTENDS Naturals, FiniteSets

CONSTANTS
  Writers,     \* tasks that may be inside ConfigStore::set
  Configs,     \* client configs
  Valid,       \* those ClientConfig::validate accepts
  Bootstrap,   \* default_client of the TOML
  Empty,       \* content of a file just truncated by fs::write
  Garbled,     \* content no config parses from
  None,        \* a file name that does not exist
  MaxGen       \* bound of the model: sets per run of the server

\* Every writer can hold one inode and two more have names.
Inodes == 1..Cardinality(Writers) + 2

ASSUME StoreAssumption ==
  /\ IsFiniteSet(Writers)
  /\ Valid \subseteq Configs /\ Bootstrap \in Configs
  /\ {Empty, Garbled, None} \cap Configs = {}
  /\ None \notin Inodes \cup {Empty, Garbled}
  /\ MaxGen \in Nat

VARIABLES
  inner,      \* the locked pair: generation and live config
  path,       \* inode of the config file, or None
  tmp,        \* inode of the temporary file, or None
  data,       \* content of the inodes
  call,       \* call[w]: where w is inside set, with which config and inode
  persisted,  \* no persist of the current run has failed since the last adopt
  up          \* the server process is running

storeVars == <<inner, path, tmp, data, call, persisted, up>>

Contents == Configs \cup {Empty, Garbled}
Steps == {"idle", "create", "write", "rename", "return"}
Idle == [step |-> "idle", cfg |-> None, fd |-> None]

TypeOK ==
  /\ inner \in [gen : 0..MaxGen, cfg : Configs]
  /\ path \in Inodes \cup {None} /\ tmp \in Inodes \cup {None}
  /\ data \in [Inodes -> Contents]
  /\ call \in [Writers -> [step : Steps, cfg : Configs \cup {None}, fd : Inodes \cup {None}]]
  /\ persisted \in BOOLEAN /\ up \in BOOLEAN

\* What the server finds in the config file, None when there is no file.
File == IF path = None THEN None ELSE data[path]

\* Mutant: whatever is in the file is taken.
LoadedBlindly(content) == content

\* load_or: a file that is absent, does not parse or does not validate is ignored.
Loaded(content) == IF content \in Valid THEN content ELSE Bootstrap

Init == /\ path \in {1, None} /\ tmp = None
        /\ data \in [Inodes -> Contents]
        /\ \A n \in Inodes \ {path} : data[n] = Empty
        /\ path # None => data[path] \in Configs
        /\ inner = [gen |-> 0, cfg |-> Loaded(File)]
        /\ call = [w \in Writers |-> Idle]
        /\ persisted = TRUE /\ up = TRUE

At(w, step) == up /\ call[w].step = step
Goto(w, step, fd) ==
  call' = [call EXCEPT ![w] = [step |-> step, cfg |-> call[w].cfg, fd |-> fd]]

-----------------------------------------------------------------------------
(* ConfigStore::set *)

\* Mutant: the config is not validated.
AdoptUnvalidated(w, c) ==
  /\ At(w, "idle")
  /\ inner.gen < MaxGen
  /\ inner' = [gen |-> inner.gen + 1, cfg |-> c]
  /\ call' = [call EXCEPT ![w] = [step |-> "create", cfg |-> c, fd |-> None]]
  /\ persisted' = TRUE
  /\ UNCHANGED <<path, tmp, data, up>>

\* Mutant: the generation does not advance.
AdoptSilently(w, c) ==
  /\ At(w, "idle") /\ c \in Valid
  /\ inner' = [inner EXCEPT !.cfg = c]
  /\ call' = [call EXCEPT ![w] = [step |-> "create", cfg |-> c, fd |-> None]]
  /\ persisted' = TRUE
  /\ UNCHANGED <<path, tmp, data, up>>

\* Validated and adopted under the write lock; an invalid config returns early
\* and changes nothing.
Adopt(w, c) ==
  /\ At(w, "idle") /\ c \in Valid
  /\ inner.gen < MaxGen
  /\ inner' = [gen |-> inner.gen + 1, cfg |-> c]
  /\ call' = [call EXCEPT ![w] = [step |-> "create", cfg |-> c, fd |-> None]]
  /\ persisted' = TRUE
  /\ UNCHANGED <<path, tmp, data, up>>

\* Mutant: the config file itself is opened for writing.
CreateInPlace(w) ==
  /\ At(w, "create")
  /\ \E n \in Inodes :
       /\ IF path = None THEN \A v \in Writers : call[v].fd # n ELSE n = path
       /\ path' = n
       /\ data' = [data EXCEPT ![n] = Empty]
       /\ Goto(w, "write", n)
  /\ UNCHANGED <<inner, tmp, persisted, up>>

\* fs::write opens the temporary file, creating or truncating it.
Create(w) ==
  /\ At(w, "create")
  /\ \E n \in Inodes :
       /\ IF tmp = None THEN n # path /\ \A v \in Writers : call[v].fd # n ELSE n = tmp
       /\ tmp' = n
       /\ data' = [data EXCEPT ![n] = Empty]
       /\ Goto(w, "write", n)
  /\ UNCHANGED <<inner, path, persisted, up>>

\* It writes from the start of the file and closes it; over what another writer
\* has left there, the longer text shows through.
Write(w) ==
  /\ At(w, "write")
  /\ \E text \in {call[w].cfg, Garbled} :
       /\ text = Garbled => data[call[w].fd] # Empty
       /\ data' = [data EXCEPT ![call[w].fd] = text]
  /\ Goto(w, "rename", None)
  /\ UNCHANGED <<inner, path, tmp, persisted, up>>

\* Mutant: the temporary file is never renamed.
RenameForgotten(w) ==
  /\ At(w, "rename")
  /\ Goto(w, "return", None)
  /\ UNCHANGED <<inner, path, tmp, data, persisted, up>>

Rename(w) ==
  /\ At(w, "rename") /\ tmp # None
  /\ path' = tmp /\ tmp' = None
  /\ Goto(w, "return", None)
  /\ UNCHANGED <<inner, data, persisted, up>>

\* Any file operation may fail (for rename: also because the temporary file is
\* gone); set logs it and returns Ok all the same.
PersistFails(w) ==
  /\ up /\ call[w].step \in {"create", "write", "rename"}
  /\ Goto(w, "return", None)
  /\ persisted' = FALSE
  /\ UNCHANGED <<inner, path, tmp, data, up>>

Return(w) == /\ At(w, "return")
             /\ call' = [call EXCEPT ![w] = Idle]
             /\ UNCHANGED <<inner, path, tmp, data, persisted, up>>

-----------------------------------------------------------------------------
\* The process dies: memory and open files are gone, the directory stays.
Crash == /\ up /\ up' = FALSE
         /\ call' = [w \in Writers |-> Idle]
         /\ UNCHANGED <<inner, path, tmp, data, persisted>>

\* The server starts again: load_or.
Restart == /\ ~up /\ up' = TRUE
           /\ inner' = [gen |-> 0, cfg |-> Loaded(File)]
           /\ persisted' = TRUE
           /\ UNCHANGED <<path, tmp, data, call>>

Next == \/ \E w \in Writers : \/ \E c \in Configs : Adopt(w, c)
                              \/ Create(w) \/ Write(w) \/ Rename(w)
                              \/ PersistFails(w) \/ Return(w)
        \/ Crash \/ Restart

Spec == Init /\ [][Next]_storeVars

-----------------------------------------------------------------------------
(* Properties *)

\* "Write-then-rename so a crash mid-write can't leave a torn file"
\* (config_store.rs:94): what a restart would read is a whole config.
FileIsWhole == File \notin {Empty, Garbled}

\* "it survives restarts on disk" (config_store.rs:5): once every set has
\* returned and none had to log a failure, a restart resumes the live config.
SurvivesRestart ==
  (up /\ inner.gen > 0 /\ persisted /\ \A w \in Writers : call[w].step = "idle")
    => Loaded(File) = inner.cfg

\* The store is one atomic config with best-effort saving: the file only ever
\* moves to the config that is live, never back to a superseded one.
Atomic == INSTANCE AtomicConfig WITH live <- inner.cfg, saved <- File, up <- up
ImplementsAtomic == Atomic!AtomicSpec
=============================================================================

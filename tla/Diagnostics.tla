----------------------------- MODULE Diagnostics -----------------------------
(***************************************************************************)
(* The directory of the terminal console logs                              *)
(* (src/internal/adapters/incus/diagnostics.go), which outlives the        *)
(* process.  A log is known by the name of its runner.  Of the             *)
(* modification times, taken to be distinct, only the order matters, and   *)
(* it is kept as a relation.  Store runs under the sink's mutex: nobody    *)
(* else sees what is between its prune and its creation of the file, so    *)
(* they are one step, but one that may get no further than some part of    *)
(* the prune, when a removal or the creation fails or the process dies.    *)
(***************************************************************************)
EXTENDS Naturals, FiniteSets

CONSTANTS Runner,     \* instance names; GitHub runners carry the same name
          Other,      \* runners other workers delete meanwhile, or deleted before
          MaxFiles    \* maximumDiagnosticsFiles

\* There is room for a log.
ASSUME MaxFilesAssumption == MaxFiles \in Nat \ {0}
\* A name belongs to one runner.
ASSUME OtherAssumption == Runner \cap Other = {}

VARIABLES logs,       \* logs[n]: what is stored under name n, see Kind
          older       \* <<m, n>>: the log of m was modified before that of n

directory == <<logs, older>>

Name == Runner \cup Other

\* No log, a complete one, one that was cut off, one that is too long.
Kind == {"none", "whole", "partial", "oversized"}

Names == {n \in Name : logs[n] # "none"}

\* What earlier processes left behind.
DirectoryInit ==
    /\ logs \in [Name -> Kind]
    /\ Names \subseteq Other
    /\ IsFiniteSet(Names) /\ Cardinality(Names) <= MaxFiles
    /\ older \in SUBSET (Names \X Names)
    /\ \A m, n \in Names : IF m = n THEN <<m, n>> \notin older
                                    ELSE <<m, n>> \in older <=> <<n, m>> \notin older
    /\ \A l, m, n \in Names : <<l, m>> \in older /\ <<m, n>> \in older => <<l, n>> \in older

-----------------------------------------------------------------------------
(* pruneDiagnostics, as the sets of logs it may leave *)

Sized == {n \in Names : logs[n] # "oversized"}

\* The newest logs, as many as are to be retained.
Newest(retain) ==
    {kept \in SUBSET Sized :
       /\ Cardinality(kept) = IF Cardinality(Sized) <= retain THEN Cardinality(Sized) ELSE retain
       /\ \A m \in Sized \ kept, n \in kept : <<m, n>> \in older}

\* Faulty variant of pruneDiagnostics: one file too many is retained.
pruneDiagnosticsLate(retain) == Newest(retain + 1)

\* Oversized logs go first, then the oldest until only retain are left.
pruneDiagnostics(retain) == Newest(retain)

\* What is left after some of the removals, or all of them: oversized logs
\* go as they are found, then the others one by one from the oldest.
PartlyPruned(retain) ==
    {Names \ gone : gone \in SUBSET (Names \ Sized)}
      \cup UNION {Newest(n) : n \in retain..Cardinality(Sized)}

-----------------------------------------------------------------------------
(* Store *)

\* Only the logs in kept are left.
Left(kept) == /\ logs' = [n \in Name |-> IF n \in kept THEN logs[n] ELSE "none"]
              /\ older' = older \cap (kept \X kept)

\* A prune, then a new file, which is the newest.
Created(name, kind) ==
    \E kept \in pruneDiagnostics(MaxFiles - 1) :
      /\ logs' = [n \in Name |-> IF n = name THEN kind
                                 ELSE IF n \in kept THEN logs[n] ELSE "none"]
      /\ older' = (older \cap (kept \X kept)) \cup (kept \X {name})

\* A Store that comes to its prune and not to the new file: a removal fails,
\* the file cannot be created, or the process dies before it is.
OnlyPrunes == \E kept \in PartlyPruned(MaxFiles - 1) : Left(kept)

Written(name) == logs' = [logs EXCEPT ![name] = "whole"] /\ UNCHANGED older

Removed(name) == Left(Names \ {name})

\* The Store of another worker, from its lock to its unlock; the file is
\* created exclusively, so under a name that is free.
OtherStores(name) ==
    /\ name \notin Names
    /\ Created(name, "whole") \/ Created(name, "partial") \/ OnlyPrunes

(***************************************************************************)
(* The directory never holds more logs than maximumDiagnosticsFiles,       *)
(* whatever removals fail and wherever a Store is cut off.                 *)
(***************************************************************************)
RetentionBound == Cardinality(Names) <= MaxFiles
=============================================================================

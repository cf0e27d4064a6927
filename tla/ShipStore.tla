------------------------------ MODULE ShipStore ------------------------------
(***************************************************************************)
(* ShipStateService as a write-back cache of the ship table: captains'     *)
(* hulls are boarded from rows, mutated in memory, swept to the database   *)
(* every second and saved once more when they leave.                       *)
(*                                                                         *)
(* A hull's contents are a version.  The sweep is an asynchronous loop the *)
(* timer starts again without waiting for the last one, so sweeps overlap; *)
(* each `await` of a statement ends an action.  A statement is answered    *)
(* with success or an error, or never, if the process dies.  Statements on *)
(* one row go through a pool of connections and may overtake one another.  *)
(*                                                                         *)
(* Left out: the status column (module Lifecycle), deaths, and the hulls   *)
(* of the AI, which are loaded at boot.                                    *)
(***************************************************************************)
EXTENDS Naturals, FiniteSets, SequencesExt

CONSTANTS
    Hulls,
    Sweeps,         \* bound: the sweeps that may overlap
    MaxVersion,     \* bound: the mutations of a hull
    MaxEntries,     \* bound: the boardings in flight
    Faults          \* what goes wrong: "error", "crash"

ASSUME MaxVersionAssumption == MaxVersion \in Nat
ASSUME MaxEntriesAssumption == MaxEntries \in Nat
ASSUME FaultsAssumption == Faults \subseteq {"error", "crash"}
ASSUME SweepsAssumption == "unload" \notin Sweeps

VARIABLES
    mem,        \* the map: version and dirty flag of a hull, Out if not there
    before,     \* of each hull in the map, those that were put there before it
    row,        \* the version its row holds
    latest,     \* the last version it ever had
    flushed,    \* of each sweep, the entries it is past; Idle between sweeps
    issued,     \* statements on each row that have not been answered
    entries,    \* boardings in flight: rows read, and rows being hydrated
    overtaken,  \* history: how many statements on a row, its first, a later one overtook
    setback     \* history: hulls whose row such a statement was the last to write

vars == <<mem, before, row, latest, flushed, issued, entries, overtaken, setback>>
order == <<overtaken, setback>>

Version == 0 .. MaxVersion

Out  == [loaded |-> FALSE, ver |-> 0, dirty |-> FALSE]
Idle == [running |-> FALSE, past |-> {}]

\* An update statement: what it writes, who awaits it, and whether the object it
\* was taken from is still the one in the map.
Statement == [ver : Version, by : Sweeps \cup {"unload"}, live : BOOLEAN]

Entry == [hull : Hulls, ver : Version, at : {"read", "hydrate"}]

TypeOK ==
    /\ mem \in [Hulls -> [loaded : BOOLEAN, ver : Version, dirty : BOOLEAN]]
    /\ before \in [Hulls -> SUBSET Hulls]
    /\ row \in [Hulls -> Version]
    /\ latest \in [Hulls -> Version]
    /\ flushed \in [Sweeps -> [running : BOOLEAN, past : SUBSET Hulls]]
    /\ issued \in [Hulls -> Seq(Statement)]
    /\ entries \in SUBSET Entry
    /\ overtaken \in [Hulls -> Nat]
    /\ setback \in SUBSET Hulls

Init ==
    /\ mem = [h \in Hulls |-> Out]
    /\ before = [h \in Hulls |-> {}]
    /\ row = [h \in Hulls |-> 0]
    /\ latest = [h \in Hulls |-> 0]
    /\ flushed = [w \in Sweeps |-> Idle]
    /\ issued = [h \in Hulls |-> <<>>]
    /\ entries = {}
    /\ overtaken = [h \in Hulls |-> 0]
    /\ setback = {}

-----------------------------------------------------------------------------
(* Boarding (boardShipAndWelcome, board).                                  *)

\* The row is read (findMany, findHull).
Read(h) ==
    /\ Cardinality(entries) < MaxEntries
    /\ entries' = entries \cup {[hull |-> h, ver |-> row[h], at |-> "read"]}
    /\ UNCHANGED <<mem, before, row, latest, flushed, issued, order>>

\* The hull is in the map already: that object is used, the row read is dropped.
Warm(e) ==
    /\ e.at = "read" /\ mem[e.hull].loaded
    /\ entries' = entries \ {e}
    /\ UNCHANGED <<mem, before, row, latest, flushed, issued, order>>

\* It is not: the profile and the class are awaited.
Hydrate(e) ==
    /\ e.at = "read" /\ ~mem[e.hull].loaded
    /\ entries' = (entries \ {e}) \cup {[e EXCEPT !.at = "hydrate"]}
    /\ UNCHANGED <<mem, before, row, latest, flushed, issued, order>>

\* The statements on a row, once the object they were taken from left the map.
Orphaned(q) == [i \in DOMAIN q |-> [q[i] EXCEPT !.live = FALSE]]

\* board: the new object goes into the map whatever is there, at its place or at the
\* end.  It starts dirty.
Board(e) ==
    /\ e.at = "hydrate"
    /\ mem' = [mem EXCEPT ![e.hull] = [loaded |-> TRUE, ver |-> e.ver, dirty |-> TRUE]]
    /\ before' = IF mem[e.hull].loaded THEN before
                 ELSE [before EXCEPT ![e.hull] = {g \in Hulls : mem[g].loaded}]
    /\ issued' = [issued EXCEPT ![e.hull] = Orphaned(@)]
    /\ entries' = entries \ {e}
    /\ UNCHANGED <<row, latest, flushed, order>>

-----------------------------------------------------------------------------
(* Mutation and the sweep (mutate, flush).                                 *)

\* Any command or tick changes the hull.
Mutate(h) ==
    /\ mem[h].loaded /\ latest[h] < MaxVersion
    /\ latest' = [latest EXCEPT ![h] = @ + 1]
    /\ mem' = [mem EXCEPT ![h].ver = latest[h] + 1, ![h].dirty = TRUE]
    /\ UNCHANGED <<before, row, flushed, issued, entries, order>>

\* Mutant of Unflagged: saving a hull counts as a change to it.
UnflaggedStamped(m, h) == [m EXCEPT ![h].dirty = FALSE, ![h].ver = @ + 1]

\* The dirty flag is cleared before the statement is awaited.
Unflagged(m, h) == [m EXCEPT ![h].dirty = FALSE]

\* The map is iterated in the order its keys came into it.
Foremost(hulls) == {h \in hulls : before[h] \cap hulls = {}}

\* Sweep w goes on along the map m, past the entries `past`, with the statements q
\* outstanding: to the next dirty hull, issuing its statement, or to its end.
GoesOn(w, m, q, past) ==
    LET dirty == {h \in Hulls \ past : m[h].loaded /\ m[h].dirty} IN
    \/ /\ dirty = {}
       /\ mem' = m /\ issued' = q
       /\ flushed' = [flushed EXCEPT ![w] = Idle]
    \/ \E h \in Foremost(dirty) :
          /\ mem' = Unflagged(m, h)
          /\ issued' = [q EXCEPT ![h] =
                Append(@, [ver |-> m[h].ver, by |-> w, live |-> TRUE])]
          /\ flushed' = [flushed EXCEPT ![w] =
                [running |-> TRUE, past |-> past \cup before[h] \cup {h}]]

\* The timer starts a sweep.
Sweep(w) ==
    /\ ~flushed[w].running
    /\ \E h \in Hulls : mem[h].loaded /\ mem[h].dirty
    /\ GoesOn(w, mem, issued, {})
    /\ UNCHANGED <<before, row, latest, entries, order>>

\* Mutant of Reflagged: a failed save is forgotten.
ReflaggedNever(m, h, s, ok) == m

\* Mutant of Reflagged: the flag is cleared once the save is answered, as it once was.
ReflaggedLate(m, h, s, ok) == IF ok /\ s.live THEN [m EXCEPT ![h].dirty = FALSE] ELSE m

\* A save that failed leaves its object dirty.
Reflagged(m, h, s, ok) == IF ok \/ ~s.live THEN m ELSE [m EXCEPT ![h].dirty = TRUE]

-----------------------------------------------------------------------------
(* Leaving (flushAndUnload).                                               *)

\* The final save, of the hull as it is now.  Bound: one at a time for a hull.
Unload(h) ==
    /\ mem[h].loaded
    /\ \A i \in DOMAIN issued[h] : issued[h][i].by # "unload"
    /\ issued' = [issued EXCEPT ![h] =
          Append(@, [ver |-> mem[h].ver, by |-> "unload", live |-> TRUE])]
    /\ UNCHANGED <<mem, before, row, latest, flushed, entries, order>>

\* Of the statements on the row of h the i-th is answered: one that is done before
\* those issued earlier overtakes them, and what they write later sets the row back.
Overtakes(h, i, ok) ==
    /\ overtaken' = [overtaken EXCEPT ![h] =
          IF i <= @ THEN @ - 1 ELSE IF ok THEN i - 1 ELSE @]
    /\ setback' = IF ~ok THEN setback
                  ELSE IF i <= overtaken[h] THEN setback \cup {h} ELSE setback \ {h}

\* The database answers a statement, and the code that awaited it goes on: a sweep
\* to its next hull; an unload takes the hull out of the map, saved or not.
Answered(h, i, ok) ==
    LET s == issued[h][i]
        q == [issued EXCEPT ![h] = RemoveAt(@, i)]
    IN
    /\ ok \/ "error" \in Faults
    /\ row' = IF ok THEN [row EXCEPT ![h] = s.ver] ELSE row
    /\ Overtakes(h, i, ok)
    /\ \/ /\ s.by = "unload"
          /\ mem' = [mem EXCEPT ![h] = Out]
          /\ before' = [g \in Hulls |-> IF g = h THEN {} ELSE before[g] \ {h}]
          /\ issued' = [q EXCEPT ![h] = Orphaned(@)]
          /\ flushed' = [w \in Sweeps |-> [flushed[w] EXCEPT !.past = @ \ {h}]]
       \/ /\ s.by # "unload"
          /\ GoesOn(s.by, Reflagged(mem, h, s, ok), q, flushed[s.by].past)
          /\ UNCHANGED before
    /\ UNCHANGED <<latest, entries>>

\* What sweep w waits for on the row of h.
SaveAnswered(h, w) ==
    \E i \in DOMAIN issued[h], ok \in BOOLEAN : issued[h][i].by = w /\ Answered(h, i, ok)

\* The process dies.  Of the statements on a row, those up to some point were done.
Crash ==
    /\ "crash" \in Faults
    /\ row' \in {r \in [Hulls -> Version] :
          \A h \in Hulls : r[h] = row[h] \/ \E i \in DOMAIN issued[h] : r[h] = issued[h][i].ver}
    /\ mem' = [h \in Hulls |-> Out]
    /\ before' = [h \in Hulls |-> {}]
    /\ flushed' = [w \in Sweeps |-> Idle]
    /\ issued' = [h \in Hulls |-> <<>>]
    /\ entries' = {}
    /\ overtaken' = [h \in Hulls |-> 0]
    /\ setback' = {}
    /\ UNCHANGED latest

-----------------------------------------------------------------------------

Next ==
    \/ \E h \in Hulls : Read(h) \/ Mutate(h) \/ Unload(h)
    \/ \E e \in entries : Warm(e) \/ Hydrate(e) \/ Board(e)
    \/ \E w \in Sweeps : Sweep(w)
    \/ \E h \in Hulls : \E i \in DOMAIN issued[h], ok \in BOOLEAN : Answered(h, i, ok)
    \/ Crash

\* The database answers the statements of every sweep, and a hull saved again and
\* again is saved in the end; the timer goes on ticking.  Where the source starts one
\* more sweep at every tick, those in Sweeps must end for one to start: no hull comes
\* back to the end of the map, in front of a sweep, for ever.
Fairness ==
    /\ \A h \in Hulls :
          /\ \A w \in Sweeps : WF_vars(SaveAnswered(h, w))
          /\ SF_vars(\E i \in DOMAIN issued[h] : issued[h][i].by # "unload" /\ Answered(h, i, TRUE))
    /\ \A w \in Sweeps :
          /\ WF_vars(Sweep(w))
          /\ SF_vars((\E h \in Hulls : SaveAnswered(h, w)) /\ flushed'[w] = Idle)

Spec == Init /\ [][Next]_vars /\ Fairness

-----------------------------------------------------------------------------
(* Properties.                                                             *)

\* The last statement issued on a row is still to be answered, and nothing issued
\* later was done before it.
LastWordOut(h) == overtaken[h] < Len(issued[h])

\* "A mutation that lands WHILE a flush is awaiting Postgres must not be lost": a
\* hull that is not marked dirty is on its way to its row or there, unless a
\* statement that was overtaken wrote over it.
CleanIsSaved ==
    \A h \in Hulls : mem[h].loaded /\ ~mem[h].dirty =>
        IF LastWordOut(h) THEN Last(issued[h]).ver = mem[h].ver
        ELSE row[h] = mem[h].ver \/ h \in setback

\* What a hull becomes is saved, as long as it stays in the world, or its row is
\* set back by a statement that was overtaken while it is not marked dirty.
EventuallySaved ==
    \A h \in Hulls :
        mem[h].loaded ~> \/ ~mem[h].loaded \/ row[h] = mem[h].ver
                         \/ h \in setback /\ ~mem[h].dirty

-----------------------------------------------------------------------------
(* Statements of the sources' comments that the code does not keep: TLC finds *)
(* a counterexample to each, and no run checks them.                          *)

\* "Used on clean player disconnect so the saved position/state is current": when
\* nothing goes wrong, a hull out of the world was saved as it last was.
SavedStateIsCurrent ==
    \A h \in Hulls : ~mem[h].loaded /\ issued[h] = <<>> => row[h] = latest[h]

\* "must not be lost": once every statement is answered, the row of a hull that is
\* not marked dirty holds it.  Two sweeps whose statements cross leave the older.
MutationIsNotLost ==
    \A h \in Hulls : mem[h].loaded /\ ~mem[h].dirty /\ issued[h] = <<>> => row[h] = mem[h].ver

\* "never overwrites existing in-flight state": a hull in the map only moves on.
LiveStateMovesOn ==
    [][\A h \in Hulls : mem[h].loaded /\ mem'[h].loaded => mem'[h].ver >= mem[h].ver]_vars
=============================================================================

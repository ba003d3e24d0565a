-------------------------- MODULE SyncerAssignment --------------------------
(***************************************************************************)
(* Which player's client simulates a vehicle or ped nobody drives:         *)
(* CUnoccupiedVehicleSync and CPedSync, with the players' and elements'    *)
(* deletion as far as it touches the syncers.                              *)
(*                                                                         *)
(* Starting and stopping a syncer calls the handlers of                    *)
(* onElementStartSync and onElementStopSync, and these may set the syncer  *)
(* of the same element, destroy it, or kick the player.  As in the module  *)
(* ElementDeletion the stack is a variable; a frame holds what its         *)
(* function still does once the handlers have returned.  Packets to a      *)
(* client arrive in order, so a client syncs what it was last told.        *)
(* Positions are abstracted to four cases per player and element.          *)
(***************************************************************************)
EXTENDS Integers, Sequences, FiniteSets

CONSTANTS
    Vehicles, Peds, Players, NoPlayer,
    Persist,        \* the values scripts give for persist
    MaxCalls,       \* bound: what all scripts do
    MaxMoves        \* bound: changes of position and seat

Elements == Vehicles \cup Peds
Kinds == {"vehicle", "ped"}
Kind(e) == IF e \in Vehicles THEN "vehicle" ELSE "ped"

\* Close enough to become syncer, near enough to stay it, neither, or in
\* another dimension.
Places == {"close", "near", "far", "elsewhere"}

ASSUME SyncerAssignmentType ==
    /\ IsFiniteSet(Elements) /\ Vehicles \cap Peds = {}
    /\ IsFiniteSet(Players) /\ NoPlayer \notin Players
    /\ Persist \subseteq BOOLEAN /\ MaxCalls \in Nat /\ MaxMoves \in Nat

VARIABLES
    syncer,         \* m_pSyncer
    persistent,     \* m_bSyncPersist, one flag for all vehicles, one for all peds
    syncable,       \* m_bUnoccupiedSyncable, m_bSyncable
    told,           \* <<p, e>>: the last that p was told of e is to sync it
    status,         \* of players and elements
    place,
    driver,         \* the player who drives the vehicle
    stack, calls, moves,
    crashed         \* an invalid iterator was used

assigned == <<syncer, persistent, told>>
world == <<status, place, driver, moves>>
vars == <<assigned, syncable, world, stack, calls, crashed>>

Init ==
    /\ syncer = [e \in Elements |-> NoPlayer]
    /\ persistent = [k \in Kinds |-> FALSE]
    /\ syncable = [e \in Elements |-> TRUE]
    /\ told = {}
    /\ status = [x \in Players \cup Elements |-> "alive"]
    /\ place = [p \in Players |-> [e \in Elements |-> "close"]]
    /\ driver = [e \in Elements |-> NoPlayer]
    /\ stack = <<>> /\ calls = 0 /\ moves = 0 /\ crashed = FALSE

Alive(x) == status[x] = "alive"
Top == Head(stack)
Running(op) == stack # <<>> /\ Top.op = op /\ ~crashed
Idle == stack = <<>> /\ ~crashed
Script == [op |-> "script"]

\* Whoever is freed leaves the seat, and a freed vehicle is left.
SeatsLeftBy(x) == [e \in Elements |-> IF x \in {e, driver[e]} THEN NoPlayer ELSE driver[e]]

-----------------------------------------------------------------------------
(* Each operator says what becomes of the assignment and of the stack, of  *)
(* which the frames "below" are left.                                      *)

Unchanged(below) == stack' = below /\ UNCHANGED assigned

\* syncable' is what the action made of it: only SetElementSyncer changes it.
Started(p, e, below) ==
    IF syncable'[e]
    THEN /\ told' = told \cup {<<p, e>>}
         /\ syncer' = [syncer EXCEPT ![e] = p]
         /\ stack' = <<Script>> \o below
    ELSE stack' = below /\ UNCHANGED <<told, syncer>>

StartSync(p, e, below) == Started(p, e, below) /\ UNCHANGED persistent

StopSync(e, below) ==
    /\ told' = told \ {<<syncer[e], e>>}
    /\ syncer' = [syncer EXCEPT ![e] = NoPlayer]
    /\ persistent' = [persistent EXCEPT ![Kind(e)] = FALSE]
    /\ stack' = <<Script>> \o below

\* Mutant: setElementSyncer with no player assigns "nobody".
AssignAnybody(p, e, pers, below) ==
    IF ~Alive(e) THEN Unchanged(below)
    ELSE persistent' = [persistent EXCEPT ![Kind(e)] = pers] /\ Started(p, e, below)

\* OverrideSyncer once there is no other syncer.
Assign(p, e, pers, below) ==
    IF p = NoPlayer \/ ~Alive(e) THEN Unchanged(below)
    ELSE persistent' = [persistent EXCEPT ![Kind(e)] = pers] /\ Started(p, e, below)

OverrideSyncer(p, e, pers, below) ==
    \/ /\ syncer[e] = NoPlayer
       /\ Assign(p, e, pers, below)
    \/ /\ syncer[e] # NoPlayer /\ syncer[e] = p
       /\ persistent' = [persistent EXCEPT ![Kind(e)] = @ /\ pers]
       /\ stack' = below
       /\ UNCHANGED <<syncer, told>>
    \/ /\ syncer[e] # NoPlayer /\ syncer[e] # p
       /\ StopSync(e, <<[op |-> "override", p |-> p, e |-> e, pers |-> pers]>> \o below)

Syncing(p, e) == Cardinality({x \in Elements : Kind(x) = Kind(e) /\ syncer[x] = p})

\* FindPlayerCloseToVehicle, FindPlayerCloseToPed: of the joined players that
\* are close, one that syncs the fewest.
Candidates(e) ==
    LET close == {p \in Players :
                    /\ status[p] = "alive" \/ (status[p] = "deleting" /\ e \in Peds)
                    /\ place[p][e] = "close"
                    /\ ~(e \in Vehicles /\ persistent["vehicle"])}
    IN {p \in close : \A q \in close : Syncing(p, e) <= Syncing(q, e)}

FindSyncer(e, below) ==
    IF driver[e] # NoPlayer /\ Alive(driver[e]) THEN StartSync(driver[e], e, below)
    ELSE IF Candidates(e) = {} THEN Unchanged(below)
    ELSE \E p \in Candidates(e) : StartSync(p, e, below)

Away(e) == place[syncer[e]][e] \in {"far", "elsewhere"}

UpdateVehicle(e, below) ==
    LET s == syncer[e]
        p == driver[e]
        occupied == p # NoPlayer /\ ~persistent["vehicle"]
    IN \/ /\ ~syncable[e]
          /\ IF s = NoPlayer THEN Unchanged(below) ELSE StopSync(e, below)
       \/ /\ syncable[e] /\ occupied
          /\ IF s = p THEN Unchanged(below)
             ELSE IF s = NoPlayer THEN StartSync(p, e, below)
             ELSE StopSync(e, <<[op |-> "start", p |-> p, e |-> e]>> \o below)
       \/ /\ syncable[e] /\ ~occupied
          /\ IF s = NoPlayer THEN FindSyncer(e, below)
             ELSE IF place[s][e] = "elsewhere" \/ (~persistent["vehicle"] /\ place[s][e] = "far")
             THEN StopSync(e, <<[op |-> "find", e |-> e]>> \o below)
             ELSE Unchanged(below)

\* UpdateSyncer of CPedSync.
UpdatePed(e, below) ==
    LET s == syncer[e]
    IN \/ /\ ~syncable[e]
          /\ IF s = NoPlayer THEN Unchanged(below) ELSE StopSync(e, below)
       \/ /\ syncable[e] /\ s # NoPlayer
          /\ IF persistent["ped"] \/ ~Away(e) THEN Unchanged(below)
             ELSE StopSync(e, <<[op |-> "find", e |-> e]>> \o below)
       \/ /\ syncable[e] /\ s = NoPlayer
          /\ IF Alive(e) THEN FindSyncer(e, below) ELSE Unchanged(below)

-----------------------------------------------------------------------------
(* The rest of a function whose event has returned.                        *)

Overridden ==
    /\ UNCHANGED <<syncable, world, calls, crashed>>
    /\ Running("override")
    /\ Assign(Top.p, Top.e, Top.pers, Tail(stack))

DriverStarts ==
    /\ UNCHANGED <<syncable, world, calls, crashed>>
    /\ Running("start")
    /\ StartSync(Top.p, Top.e, Tail(stack))

FindNext ==
    /\ UNCHANGED <<syncable, world, calls, crashed>>
    /\ Running("find")
    /\ IF Alive(Top.e) THEN FindSyncer(Top.e, Tail(stack)) ELSE Unchanged(Tail(stack))

\* What Update still has to visit: of its copy of the vehicles, some of which
\* handlers may have destroyed, or of the list of peds, from which a destroyed
\* ped is gone.  The order, that of their creation, may be any.
LeftToUpdate == IF Top.kind = "ped" THEN {e \in Top.left : Alive(e)} ELSE Top.left

\* The iterator of the list is invalid when its ped, the last updated, is gone.
IteratorInvalid == Top.kind = "ped" /\ \E e \in Top.last : ~Alive(e)

UpdateBreaks ==
    /\ Running("update") /\ IteratorInvalid
    /\ crashed' = TRUE
    /\ UNCHANGED <<assigned, syncable, world, stack, calls>>

UpdateNext ==
    /\ UNCHANGED <<syncable, world, calls, crashed>>
    /\ Running("update") /\ ~IteratorInvalid
    /\ \E e \in LeftToUpdate :
         LET rest == <<[Top EXCEPT !.left = LeftToUpdate \ {e}, !.last = {e}]>> \o Tail(stack)
         IN \/ Top.kind = "ped" /\ UpdatePed(e, rest)
            \/ Top.kind = "vehicle" /\ UpdateVehicle(e, rest)

UpdateDone ==
    /\ UNCHANGED <<syncable, world, calls, crashed>>
    /\ Running("update") /\ ~IteratorInvalid
    /\ LeftToUpdate = {}
    /\ Unchanged(Tail(stack))

\* Mutant: what the player synced keeps him as its syncer.
PlayerLeavesSyncer ==
    /\ Running("leave")
    /\ stack' = Tail(stack)
    /\ status' = [status EXCEPT ![Top.p] = "freed"]
    /\ driver' = SeatsLeftBy(Top.p)
    /\ UNCHANGED <<assigned, syncable, place, moves, calls, crashed>>

SyncedBy(p) == {e \in Elements : syncer[e] = p}

\* ~CPlayer: RemoveAllSyncingVehicles, then RemoveAllSyncingPeds, in any order,
\* with an event for each,
PlayerStopsSync ==
    /\ Running("leave")
    /\ \E e \in SyncedBy(Top.p) :
         /\ e \in Peds => SyncedBy(Top.p) \cap Vehicles = {}
         /\ syncer' = [syncer EXCEPT ![e] = NoPlayer]
    /\ stack' = <<Script>> \o stack
    /\ UNCHANGED <<persistent, told, syncable, world, calls, crashed>>

\* then ~CPed.
PlayerLeaves ==
    /\ Running("leave") /\ SyncedBy(Top.p) = {}
    /\ stack' = Tail(stack)
    /\ status' = [status EXCEPT ![Top.p] = "freed"]
    /\ driver' = SeatsLeftBy(Top.p)
    /\ UNCHANGED <<assigned, syncable, place, moves, calls, crashed>>

-----------------------------------------------------------------------------
(* Scripts.                                                                *)

InScript == Running("script") /\ calls < MaxCalls /\ calls' = calls + 1

SetElementSyncer(e, p, enable, pers) ==
    /\ InScript /\ Alive(e) /\ (p # NoPlayer => Alive(p))
    /\ syncable' = [syncable EXCEPT ![e] = enable]
    /\ \/ enable /\ OverrideSyncer(p, e, pers, stack)
       \/ ~enable /\ p = NoPlayer /\ OverrideSyncer(p, e, pers, stack)
    /\ UNCHANGED <<world, crashed>>

\* destroyElement and kickPlayer mark; the destructors run at the pulse's end.
Destroy(x) ==
    /\ InScript /\ Alive(x)
    /\ status' = [status EXCEPT ![x] = "deleting"]
    /\ UNCHANGED <<assigned, syncable, place, driver, moves, stack, crashed>>

ScriptReturns ==
    /\ Running("script")
    /\ stack' = Tail(stack)
    /\ UNCHANGED <<assigned, syncable, world, calls, crashed>>

-----------------------------------------------------------------------------
(* The main loop.                                                          *)

ScriptStarts ==
    /\ Idle /\ calls < MaxCalls
    /\ stack' = <<Script>>
    /\ UNCHANGED <<assigned, syncable, world, calls, crashed>>

\* DoPulse of one of the two, twice a second.
Update(k) ==
    /\ Idle
    /\ stack' = <<[op |-> "update", kind |-> k, last |-> {},
                   left |-> {e \in Elements : Kind(e) = k /\ Alive(e)}]>>
    /\ UNCHANGED <<assigned, syncable, world, calls, crashed>>

\* A push packet of a client, from a player in contact with the vehicle if it
\* has a syncer; a player who starts to enter, sits down and leaves.
Push(p, e) ==
    /\ UNCHANGED <<syncable, world, calls, crashed>>
    /\ Idle /\ Alive(p) /\ e \in Vehicles /\ Alive(e) /\ place[p][e] = "close"
    /\ syncable[e] /\ syncer[e] # p /\ driver[e] = NoPlayer
    /\ syncer[e] # NoPlayer => ~persistent["vehicle"]
    /\ OverrideSyncer(p, e, FALSE, <<>>)

StartEnter(p, e) ==
    /\ UNCHANGED <<syncable, world, calls, crashed>>
    /\ Idle /\ Alive(p) /\ e \in Vehicles /\ Alive(e) /\ place[p][e] = "close"
    /\ driver[e] # p /\ ~persistent["vehicle"]
    /\ OverrideSyncer(p, e, FALSE, <<>>)

Enter(p, e) ==
    /\ Idle /\ Alive(p) /\ e \in Vehicles /\ Alive(e) /\ place[p][e] = "close"
    /\ driver[e] = NoPlayer /\ \A x \in Elements : driver[x] # p
    /\ moves < MaxMoves /\ moves' = moves + 1
    /\ driver' = [driver EXCEPT ![e] = p]
    /\ UNCHANGED <<assigned, syncable, status, place, stack, calls, crashed>>

\* The player who leaves the seat becomes the syncer.
Exit(e) ==
    /\ UNCHANGED <<syncable, status, place, moves, calls, crashed>>
    /\ Idle /\ driver[e] # NoPlayer /\ Alive(driver[e]) /\ Alive(e)
    /\ driver' = [driver EXCEPT ![e] = NoPlayer]
    /\ IF persistent["vehicle"] THEN Unchanged(<<>>) ELSE OverrideSyncer(driver[e], e, FALSE, <<>>)

Move(p, e, where) ==
    /\ Idle /\ Alive(p) /\ driver[e] # p /\ where # place[p][e]
    /\ moves < MaxMoves /\ moves' = moves + 1
    /\ place' = [place EXCEPT ![p][e] = where]
    /\ UNCHANGED <<assigned, syncable, status, driver, stack, calls, crashed>>

\* DoDeleteAll: ~CVehicle and ~CPed leave no syncer, ~CPlayer see above.
Free(x) ==
    /\ Idle /\ status[x] = "deleting"
    /\ IF x \in Players
       THEN /\ stack' = <<[op |-> "leave", p |-> x]>>
            /\ UNCHANGED <<syncer, status, driver>>
       ELSE /\ syncer' = [syncer EXCEPT ![x] = NoPlayer]
            /\ status' = [status EXCEPT ![x] = "freed"]
            /\ driver' = SeatsLeftBy(x)
            /\ UNCHANGED stack
    /\ UNCHANGED <<persistent, told, syncable, place, moves, calls, crashed>>

-----------------------------------------------------------------------------
Code ==
    \/ Overridden \/ DriverStarts \/ FindNext \/ UpdateNext \/ UpdateDone \/ UpdateBreaks
    \/ PlayerStopsSync \/ PlayerLeaves \/ ScriptReturns

Next ==
    \/ Code \/ ScriptStarts
    \/ \E e \in Elements, p \in Players \cup {NoPlayer}, enable \in BOOLEAN, pers \in Persist :
         SetElementSyncer(e, p, enable, pers)
    \/ \E x \in Elements \cup Players : Destroy(x) \/ Free(x)
    \/ \E k \in Kinds : Update(k)
    \/ \E p \in Players, e \in Elements :
         \/ Push(p, e) \/ StartEnter(p, e) \/ Enter(p, e)
         \/ \E where \in Places : Move(p, e, where)
    \/ \E e \in Elements : Exit(e)

Spec == Init /\ [][Next]_vars

\* The code runs on, and both synchronisations are pulsed again and again.
FairSpec ==
    /\ Spec /\ WF_vars(Code)
    /\ \A k \in Kinds : SF_vars(Update(k))
    /\ \A x \in Elements \cup Players : SF_vars(Free(x))

-----------------------------------------------------------------------------
\* Types.
TypeOK ==
    /\ syncer \in [Elements -> Players \cup {NoPlayer}]
    /\ persistent \in [Kinds -> BOOLEAN] /\ syncable \in [Elements -> BOOLEAN]
    /\ told \subseteq Players \X Elements
    /\ status \in [Players \cup Elements -> {"alive", "deleting", "freed"}]
    /\ place \in [Players -> [Elements -> Places]]
    /\ driver \in [Elements -> Players \cup {NoPlayer}]
    /\ calls \in 0..MaxCalls /\ moves \in 0..MaxMoves

\* The player whose sync packets the server takes for an element is one who
\* has been told to send them and not to stop, and is never one whose object
\* is freed, whatever handlers do between the steps of a change.
SyncerTold ==
    \A e \in Elements : syncer[e] # NoPlayer =>
        /\ status[syncer[e]] # "freed"
        /\ <<syncer[e], e>> \in told

\* A syncable vehicle with a player close to it gets a syncer.
SyncerFound ==
    \A e \in Vehicles :
        LET wanted == /\ Alive(e) /\ syncable[e] /\ syncer[e] = NoPlayer /\ ~crashed
                      /\ \E p \in Players : Alive(p) /\ place[p][e] = "close"
        IN wanted ~> ~wanted

(* What the code does not keep; no run checks the two.                     *)

\* Only one client believes that it syncs an element.
OneClientSyncs ==
    stack = <<>> => \A e \in Elements : \A p, q \in Players :
        Alive(e) /\ Alive(p) /\ Alive(q) /\ {<<p, e>>, <<q, e>>} \subseteq told => p = q

\* No iterator of the ped list is used after its ped has left it.
IteratorsValid == ~crashed
=============================================================================

------------------------------- MODULE Devices -------------------------------
(* The record two doors keep of one device, the second door's own machine  *)
(* (mesh/device.rs): facts that people and the machine state, addresses    *)
(* each door saw it at, and the replication that rides every dial.         *)
(* Associations with people have no writer in the source and are left out; *)
(* so is the cap of an offer, as one device never reaches it.              *)
EXTENDS Integers, FiniteSets

CONSTANTS None,
          DoorA, DoorB,
          Addrs,       \* addresses the device is seen at
          Horizon,     \* DEVICE_SYNC_WINDOW_SECS
          Hourly,      \* an address is noted again after this
          MaxNetworks, \* addresses a record keeps when a new one is noted
          MaxActs,     \* bound: what people and machines state
          MaxDay       \* bound: the clock

DevicesAssumption == /\ DoorA # DoorB /\ Horizon \in Nat /\ Hourly \in Nat \ {0}
                     /\ MaxNetworks \in Nat \ {0}
                     /\ MaxActs \in Nat /\ MaxDay \in Nat \ {0}

VARIABLES
    card,       \* each door's record of the device, or None
    version,    \* what the machine itself runs
    flight,     \* the device-sync under way: to whom, and the record it carries
    acts,       \* how often something was stated
    day         \* the clock

vars == <<card, version, flight, acts, day>>

Both == {DoorA, DoorB}
Other(d) == IF d = DoorA THEN DoorB ELSE DoorA
Default == [name |-> "", posture |-> "", found |-> "", os |-> 0,
            seen |-> [a \in Addrs |-> 0], updatedAt |-> 0]
NoFlight == [to |-> "nobody", rec |-> None]
Loaded(d) == IF card[d] = None THEN Default ELSE card[d]

Init ==
    /\ card = [d \in Both |-> None]
    /\ version = 1
    /\ flight = NoFlight
    /\ acts = 0
    /\ day = 1

Save(d, rec) == card' = [card EXCEPT ![d] = rec]
Act == acts < MaxActs /\ acts' = acts + 1
Stated(rec) == [rec EXCEPT !.updatedAt = day]

(* A person names the device at a door, or declares how it is held.        *)
SetName(d) ==
    /\ Act /\ Save(d, Stated([Loaded(d) EXCEPT !.name = "given"]))
    /\ UNCHANGED <<version, flight, day>>

SetPosture(d) ==
    /\ Act /\ Save(d, Stated([Loaded(d) EXCEPT !.posture = "fixed"]))
    /\ UNCHANGED <<version, flight, day>>

(* Discovery hears a name of it; a name already known is not written.      *)
SetDiscoveredName(d) ==
    /\ Loaded(d).found # "host"
    /\ Act /\ Save(d, Stated([Loaded(d) EXCEPT !.found = "host"]))
    /\ UNCHANGED <<version, flight, day>>

(* The door that runs on the device restates its machine facts on a tick.  *)
Upgrade ==
    /\ Act /\ version = 1 /\ version' = 2
    /\ UNCHANGED <<card, flight, day>>

RefreshSelf ==
    /\ Loaded(DoorB).os # version
    /\ Save(DoorB, Stated([Loaded(DoorB) EXCEPT !.os = version]))
    /\ UNCHANGED <<version, flight, acts, day>>

(* A sighting is no change of the facts, and is refreshed at most hourly.  *)
RefreshNetwork(d, a) ==
    /\ Loaded(d).seen[a] # 0 /\ day - Loaded(d).seen[a] >= Hourly
    /\ Act /\ Save(d, [Loaded(d) EXCEPT !.seen[a] = day])
    /\ UNCHANGED <<version, flight, day>>

(* The newest sightings, whichever of those of one time.                   *)
Newest(seen) ==
    IF Cardinality(Addrs) <= MaxNetworks THEN {Addrs}
    ELSE {keep \in SUBSET Addrs :
            /\ Cardinality(keep) = MaxNetworks
            /\ \A x \in keep, y \in Addrs \ keep : seen[x] >= seen[y]}

(* A new address may push out the oldest, or what a merge brought in.      *)
NoteNetwork(d, a) ==
    /\ Loaded(d).seen[a] = 0
    /\ LET seen == [Loaded(d).seen EXCEPT ![a] = day]
       IN  \E keep \in Newest(seen) :
             Save(d, [Loaded(d) EXCEPT !.seen = [x \in Addrs |->
                                                   IF x \in keep THEN seen[x] ELSE 0]])
    /\ Act /\ UNCHANGED <<version, flight, day>>

Offer(d) ==
    /\ flight = NoFlight
    /\ card[d] # None /\ day - card[d].updatedAt <= Horizon
    /\ flight' = [to |-> Other(d), rec |-> card[d]]
    /\ UNCHANGED <<card, version, acts, day>>

Later(x, y) == IF x >= y THEN x ELSE y
UnionSeen(a, b) == [x \in Addrs |-> Later(a.seen[x], b.seen[x])]

(* merge: the later facts whole, and the union of the sightings.           *)
Merged(a, b) ==
    [(IF b.updatedAt > a.updatedAt THEN b ELSE a) EXCEPT !.seen = UnionSeen(a, b)]

Absorb ==
    /\ flight # NoFlight
    /\ Save(flight.to, IF card[flight.to] = None THEN flight.rec
                       ELSE Merged(card[flight.to], flight.rec))
    /\ flight' = NoFlight
    /\ UNCHANGED <<version, acts, day>>

Lose ==
    /\ flight # NoFlight /\ flight' = NoFlight
    /\ UNCHANGED <<card, version, acts, day>>

Dawn ==
    /\ day < MaxDay /\ flight = NoFlight
    /\ day' = day + 1
    /\ UNCHANGED <<card, version, flight, acts>>

Next ==
    \/ \E d \in Both : SetName(d) \/ SetPosture(d) \/ SetDiscoveredName(d) \/ Offer(d)
    \/ \E d \in Both, a \in Addrs : NoteNetwork(d, a) \/ RefreshNetwork(d, a)
    \/ Upgrade \/ RefreshSelf \/ Absorb \/ Lose \/ Dawn

Spec == Init /\ [][Next]_vars

-----------------------------------------------------------------------------
(* The records keep their shape, and no record is from the future.         *)
Cards == [name : {"", "given"}, posture : {"", "fixed"}, found : {"", "host"},
          os : 0..2, seen : [Addrs -> 0..MaxDay], updatedAt : 0..MaxDay]
DevicesTypeOK ==
    /\ \A d \in Both : card[d] # None => card[d] \in Cards /\ card[d].updatedAt <= day
    /\ version \in {1, 2} /\ acts \in 0..MaxActs /\ day \in 1..MaxDay
    /\ flight = NoFlight \/ (flight.to \in Both /\ flight.rec \in Cards)

(* absorb: whatever order the copies arrive in, a door's facts never give  *)
(* way to older ones, and a sighting only to as many as a record keeps     *)
(* that are no older.                                                      *)
Crowded(seen, when, others) ==
    \E keep \in SUBSET others :
        Cardinality(keep) = MaxNetworks /\ \A b \in keep : seen[b] >= when
RecordsGrow ==
    [][\A d \in Both : card[d] # None =>
         /\ card'[d].updatedAt >= card[d].updatedAt
         /\ \A a \in Addrs :
              \/ card'[d].seen[a] >= card[d].seen[a]
              \/ Crowded(card'[d].seen, card[d].seen[a], Addrs \ {a})]_vars
=============================================================================

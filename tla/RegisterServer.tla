--------------------------- MODULE RegisterServer ---------------------------
(***************************************************************************)
(* What a Modbus slave promises its bus: each request is performed at most *)
(* once, in the order issued, whole or not at all, and only if it is meant *)
(* for this slave; a request to this slave alone is answered at most once, *)
(* in that order, with the data as they were when it was performed, or     *)
(* with an exception exactly when it changes nothing.                      *)
(*                                                                         *)
(* Requests are numbered; dest tells the addressee of each.  A request is  *)
(* sound when the code it names exists, its quantity is one the protocol   *)
(* allows, everything it names exists, and the answer fits.                *)
(***************************************************************************)
EXTENDS Naturals, Sequences

CONSTANTS Requests, Longest

VARIABLES issued,    (* requests issued so far                             *)
          dest,      (* whom each is for                                   *)
          served,    (* the last one performed, or found malformed         *)
          request,   (* that request, for a while                          *)
          map,       (* the tables                                         *)
          answers    (* the answers under way, in the order performed      *)

server == <<issued, dest, served, request, map, answers>>

Reads   == {1, 2, 3, 4}
Singles == {5, 6}
Writes  == {5, 6, 15, 16}
Bits    == {1, 2, 5, 15}
None    == [kind |-> "none"]

Table(r) == CASE r.fc \in {1, 5, 15} -> "coils" [] r.fc = 2 -> "discrete"
              [] r.fc \in {3, 6, 16} -> "holding" [] r.fc = 4 -> "inputs"
Touched(r) == IF r.fc \in Singles THEN {r.start} ELSE r.start .. r.start + r.qty - 1
Octets(r)  == IF r.fc \in Bits THEN (r.qty + 7) \div 8 ELSE 2 * r.qty
Most(r)    == CASE r.fc \in {1, 2} -> 2000 [] r.fc \in {3, 4} -> 125
                [] r.fc = 15 -> 1968 [] r.fc = 16 -> 123

Legal(r) == \/ r.fc \in Reads /\ r.qty \in 1 .. Most(r)
            \/ r.fc \in {15, 16} /\ r.qty \in 1 .. Most(r) /\ r.bytes = Octets(r)
            \/ r.fc = 5 /\ r.value \in {0, 65280}
            \/ r.fc = 6

Fits(r) == r.fc \in Reads => 3 + Octets(r) + 2 <= Longest

Sound(r) == /\ r.fc \in Reads \cup Writes
            /\ Legal(r) /\ Fits(r)
            /\ Touched(r) \subseteq DOMAIN map[Table(r)]

Lengths(r) == IF r.fc \in {15, 16} THEN {9 + r.bytes} ELSE {8}

Value(r, i) == IF r.fc = 5 THEN (IF r.value = 0 THEN 0 ELSE 1)
               ELSE IF r.fc = 6 THEN r.value ELSE r.data[i - r.start + 1]

Performed(r) ==
  [map EXCEPT ![Table(r)] =
     [i \in DOMAIN @ |-> IF i \in Touched(r) THEN Value(r, i) ELSE @[i]]]

Answers(r) ==
  IF ~Sound(r) THEN [kind : {"exception"}, exc : {1, 2, 3}]
  ELSE IF r.fc \in Writes THEN {[kind |-> "echo"]}
  ELSE {[kind |-> "data", values |-> [i \in 0 .. r.qty - 1 |-> map[Table(r)][r.start + i]]]}

Init ==
  /\ issued = 0 /\ served = 0 /\ request = None /\ answers = << >>
  /\ \A n \in DOMAIN map : \A i \in DOMAIN map[n] : map[n][i] = 0

Issue ==
  /\ issued' = issued + 1
  /\ \A n \in 1 .. issued : dest'[n] = dest[n]
  /\ UNCHANGED <<served, request, map, answers>>

(* A request whose length is not that of its code is ignored.              *)
Ignore(r) ==
  /\ r.fc \in Reads \cup Writes /\ r.len \notin Lengths(r)
  /\ UNCHANGED <<map, answers>>

Serve(n, r) ==
  /\ r.fc \in Reads \cup Writes => r.len \in Lengths(r) \/ ~Legal(r)
  /\ map' = IF Sound(r) /\ r.fc \in Writes THEN Performed(r) ELSE map
  /\ IF dest[n] = "us" THEN \E a \in Answers(r) : answers' = Append(answers, a)
     ELSE UNCHANGED answers

Take(n) ==
  /\ n > served /\ n <= issued /\ dest[n] # "other"
  /\ served' = n /\ request' \in Requests
  /\ Ignore(request') \/ Serve(n, request')
  /\ UNCHANGED <<issued, dest>>

Forget   == request' = None /\ UNCHANGED <<issued, dest, served, map, answers>>
Answered ==
  /\ answers # << >> /\ answers' = << >>
  /\ UNCHANGED <<issued, dest, served, request, map>>

Next == Issue \/ Take(served') \/ Forget \/ Answered

Spec == Init /\ [][Next]_server

=============================================================================

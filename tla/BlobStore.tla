----------------------------- MODULE BlobStore -----------------------------
(***************************************************************************)
(* What lib/settings promises of one blob: a load returns what is stored   *)
(* or rejects it; what is stored changes only while a save is under way,   *)
(* is at any time nothing or a payload some save was given, and is the     *)
(* payload itself when that save reports success.  A save that is cut off  *)
(* may leave nothing, the payload it was given, or an older one.           *)
(***************************************************************************)
CONSTANTS Payloads, None

VARIABLES value,    (* what a load would return; None = it would reject    *)
          known,    (* payloads given to a save so far                     *)
          saving,   (* the payload of the save under way, or None          *)
          ok,       (* that the last save reported success                 *)
          loaded    (* what the last load returned                         *)

blob == <<value, known, saving, ok, loaded>>

Init == value = None /\ known = {} /\ saving = None /\ ok = FALSE
        /\ loaded = None

Begin(p) ==
  /\ saving = None
  /\ saving' = p /\ known' = known \cup {p}
  /\ UNCHANGED <<value, ok, loaded>>

Disturb ==
  /\ saving # None
  /\ value' \in known \cup {None}
  /\ UNCHANGED <<known, saving, ok, loaded>>

Finish ==
  /\ saving # None
  /\ value' = saving /\ saving' = None /\ ok' = TRUE
  /\ UNCHANGED <<known, loaded>>

Fail ==
  /\ saving # None
  /\ value' \in known \cup {None} /\ saving' = None /\ ok' = FALSE
  /\ UNCHANGED <<known, loaded>>

Load ==
  /\ saving = None
  /\ loaded' = value
  /\ UNCHANGED <<value, known, saving, ok>>

Next == (\E p \in Payloads : Begin(p)) \/ Disturb \/ Finish \/ Fail \/ Load

Spec == Init /\ [][Next]_blob

=============================================================================

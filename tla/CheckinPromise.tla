--------------------------- MODULE CheckinPromise ---------------------------
(***************************************************************************)
(* What the staff kiosk promises.  Whoever was shown a success is owed an  *)
(* attendance record; the promise ends only once a record of that person   *)
(* exists for the day of the promise or a later one, or when the server    *)
(* refused the kiosk.  A record is made at most once per person and day.   *)
(***************************************************************************)
EXTENDS Integers

CONSTANTS
  Staff,     \* the users who check in
  Ids        \* names of promises

VARIABLES
  day,       \* today
  rows,      \* <<person, day>>: the attendance records
  owed,      \* [id, who, since]: promises not kept yet
  refused    \* promises the server refused

vars == <<day, rows, owed, refused>>

Init == day = 1 /\ rows = {} /\ owed = {} /\ refused = {}

Midnight == day' = day + 1 /\ UNCHANGED <<rows, owed, refused>>

\* A record is of today, or of yesterday when the request crossed midnight.
Record == \E u \in Staff, d \in 1..day :
  /\ <<u, d>> \notin rows
  /\ rows' = rows \union {<<u, d>>}
  /\ UNCHANGED <<day, owed, refused>>

\* Every promise is a new one.
Promise == \E u \in Staff, i \in Ids :
  /\ \A p \in owed \union refused : p.id # i
  /\ owed' = owed \union {[id |-> i, who |-> u, since |-> day]}
  /\ UNCHANGED <<day, rows, refused>>

Recorded(p) == \E d \in p.since..day : <<p.who, d>> \in rows

Keep == \E p \in owed :
  /\ Recorded(p)
  /\ owed' = owed \ {p}
  /\ UNCHANGED <<day, rows, refused>>

Refuse == \E p \in owed :
  /\ owed' = owed \ {p}
  /\ refused' = refused \union {p}
  /\ UNCHANGED <<day, rows>>

Next == Midnight \/ Record \/ Promise \/ Keep \/ Refuse

Spec == Init /\ [][Next]_vars
=============================================================================

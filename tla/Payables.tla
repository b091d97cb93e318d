------------------------------ MODULE Payables ------------------------------
(* What the utility-bill specialist makes of an extraction: a payable, marked
   as a duplicate when another document announces the same bill, and the
   calendar event that reminds of it.  A specialist task looks for the original
   and stores its rows in one transaction; the API deletes document units
   meanwhile.  A bill stands for the fields of the fingerprint; an extraction
   without issuer, amount, or reference and period is of no bill.           *)
EXTENDS Integers, Sequences, SequencesExt

CONSTANTS BillUnits,     \* document units with a utility-bill result
          Bills,         \* deduplication fingerprints
          PayWorkers,    \* specialist tasks that may run at once
          MaxExtractions \* bound: extractions of one behaviour

VARIABLES payables,      \* the payable of each unit that has one
          filed,         \* those units, oldest payable first
          events,        \* units whose bill has a calendar event
          projecting,    \* what each task has extracted and looked up
          deleted,       \* document units the API has deleted
          extractions    \* extractions so far
payVars == <<payables, filed, events, projecting, deleted, extractions>>

None == "none"
ASSUME PayablesAssumption == None \notin BillUnits
NoTask == [unit |-> None]
Extraction == [bill: Bills \cup {None}, due: BOOLEAN, sound: BOOLEAN]

PayInit ==
  /\ payables = <<>>
  /\ filed = <<>>
  /\ events = {}
  /\ projecting = [w \in PayWorkers |-> NoTask]
  /\ deleted = {}
  /\ extractions = 0

Filed == DOMAIN payables

\* The oldest other payable of the bill that is not itself a duplicate.
Original(u, x) ==
  LET same == {i \in DOMAIN filed : LET o == filed[i]
                                    IN  o # u /\ payables[o].bill = x.bill /\ payables[o].duplicate = None}
  IN  IF x.bill # None /\ same # {} THEN filed[Min(same)] ELSE None

\* The extraction, and project_payable up to its query for the original.
LookForOriginal(w) == \E u \in BillUnits \ deleted, x \in Extraction :
  /\ extractions < MaxExtractions
  /\ projecting[w] = NoTask
  /\ projecting' = [projecting EXCEPT ![w] =
                      [unit |-> u, found |-> x, original |-> Original(u, x)]]
  /\ extractions' = extractions + 1
  /\ UNCHANGED <<payables, filed, events, deleted>>

\* The rows the task refers to: its unit, and the original it found.
Referable(p) == p.unit \notin deleted /\ (p.original # None => p.original \in Filed)

RemindedAnyway(p) == p.found.due   \* mutant: a duplicate keeps its event

\* A bill without due date, or a duplicate, has no event; every other has one.
Reminded(p) == p.found.due /\ p.original = None

\* Payable and event are written and committed together.
Project(w) ==
  LET p == projecting[w]
      u == p.unit
  IN  /\ p # NoTask
      /\ Referable(p)
      /\ payables' = [o \in Filed \cup {u} |->
                        IF o # u THEN payables[o]
                        ELSE [bill |-> p.found.bill, duplicate |-> p.original,
                              accepted |-> p.original = None /\ p.found.sound]]
      /\ filed' = IF u \in Filed THEN filed ELSE Append(filed, u)
      /\ events' = IF Reminded(p) THEN events \cup {u} ELSE events \ {u}
      /\ projecting' = [projecting EXCEPT ![w] = NoTask]
      /\ UNCHANGED <<deleted, extractions>>

\* A foreign key fails the transaction: no row changes, the job is marked failed.
ProjectFails(w) ==
  /\ projecting[w] # NoTask
  /\ ~Referable(projecting[w])
  /\ projecting' = [projecting EXCEPT ![w] = NoTask]
  /\ UNCHANGED <<payables, filed, events, deleted, extractions>>

\* Deleting a unit removes its payable and event; its duplicates lose the
\* reference (ON DELETE SET NULL) and get no event before they are projected again.
DeleteBillUnit(u) ==
  /\ u \notin deleted
  /\ deleted' = deleted \cup {u}
  /\ payables' = [o \in Filed \ {u} |->
                    IF payables[o].duplicate = u
                    THEN [payables[o] EXCEPT !.duplicate = None] ELSE payables[o]]
  /\ filed' = IF u \in Filed THEN RemoveAt(filed, CHOOSE i \in DOMAIN filed : filed[i] = u) ELSE filed
  /\ events' = events \ {u}
  /\ UNCHANGED <<projecting, extractions>>

PayNext ==
  \/ \E w \in PayWorkers : LookForOriginal(w) \/ Project(w) \/ ProjectFails(w)
  \/ \E u \in BillUnits : DeleteBillUnit(u)
PaySpec == PayInit /\ [][PayNext]_payVars
-----------------------------------------------------------------------------
(* Properties *)

\* Of the payables of one bill at most one is on the calendar, in whatever
\* order documents are extracted again and deleted: a bill that reached the
\* archive twice is not to be paid twice (payables.py:74, calendar.py:70).  It
\* takes one specialist task at a time, the default concurrency: with two, each
\* misses the other's original.
OneReminderPerBill ==
  \A u, o \in events : u # o /\ payables[u].bill # None
                         => payables[u].bill # payables[o].bill
=============================================================================

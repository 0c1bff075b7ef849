---------------------------- MODULE CompanyCalendar ----------------------------
(***************************************************************************)
(* The planned side of CalendarService: calendar events and company hours,  *)
(* and the operating facts that Organizational State reads from them.       *)
(* Recurring work is in Calendar.                                           *)
(*                                                                          *)
(* A change reads the time, makes the record and puts it in one synchronous *)
(* stretch, so that only the current revision can be the expected one; a    *)
(* refused change alters nothing and is no step.                            *)
(***************************************************************************)
EXTENDS Integers, FiniteSets

CONSTANTS
  Events, HoursIds,  \* record ids
  Instants,          \* the instants of trusted time
  EventInputs,       \* what callers plan: [class, from, to]
  HoursInputs,       \* what callers set: [zone, windows], windows of [day, from, to]
  LocalTime,         \* Intl: LocalTime[zone][t] is the local [day, minute] of an instant
  MaxWindows,        \* MAX_WEEKLY_WINDOWS, 28
  MaxActiveEvents    \* MAX_ACTIVE_EVENT_REFS, 64

VARIABLES
  calendarTime,  \* #highWater: the latest time the calendar store has seen
  events,        \* calendar-event records
  hours          \* company-hours records

planned == <<calendarTime, events, hours>>

ASSUME CompanyCalendarAssumption ==
  /\ Instants \subseteq Nat /\ MaxWindows \in Nat /\ MaxActiveEvents \in Nat
  /\ \A input \in HoursInputs : Instants \subseteq DOMAIN LocalTime[input.zone]

NoPlan == [revision |-> 0]

\* #clock: whatever the wall clock says, time is not before what the store has seen.
Observed(now) == IF now > calendarTime THEN now ELSE calendarTime

-----------------------------------------------------------------------------
\* validateCalendarEventV1
ValidEvent(e) ==
  /\ e.class \in {"COMPANY_HOLIDAY", "MAINTENANCE_WINDOW"}
  /\ e.status \in {"ACTIVE", "CANCELLED"}
  /\ e.from < e.to

\* validateWeeklyWindow
ValidWindow(w) == w.from < w.to

\* validateCompanyHoursV1: the windows of one day do not overlap.
ValidHours(windows) ==
  /\ Cardinality(windows) \in 1..MaxWindows
  /\ \A w \in windows : ValidWindow(w)
  /\ \A v, w \in windows : v.day = w.day /\ v # w => v.to <= w.from \/ w.to <= v.from

CreateEvent(e, now) ==
  /\ events[e] = NoPlan
  /\ \E input \in EventInputs, status \in {"ACTIVE", "CANCELLED"} :
       LET r == [ revision |-> 1, class |-> input.class, status |-> status,
                  from |-> input.from, to |-> input.to ] IN
       ValidEvent(r) /\ events' = [events EXCEPT ![e] = r]
  /\ calendarTime' = Observed(now)
  /\ UNCHANGED hours

\* put: an event that was cancelled stays so.  The class is not among the inputs.
ChangeEvent(e, now) ==
  /\ events[e] # NoPlan /\ events[e].status # "CANCELLED"
  /\ \E input \in EventInputs, status \in {"ACTIVE", "CANCELLED"} :
       LET r == [ events[e] EXCEPT !.revision = @ + 1, !.status = status,
                                   !.from = input.from, !.to = input.to ] IN
       ValidEvent(r) /\ events' = [events EXCEPT ![e] = r]
  /\ calendarTime' = Observed(now)
  /\ UNCHANGED hours

\* put: the first company hours there are remain the only ones.
SetCompanyHours(h, now) ==
  /\ hours[h] # NoPlan \/ \A other \in HoursIds : hours[other] = NoPlan
  /\ \E input \in HoursInputs :
       /\ ValidHours(input.windows)
       /\ hours' = [hours EXCEPT ![h] =
            [revision |-> @.revision + 1, zone |-> input.zone, windows |-> input.windows]]
  /\ calendarTime' = Observed(now)
  /\ UNCHANGED events

-----------------------------------------------------------------------------
(* operatingFactsAt.                                                        *)

ActiveEvents(t) ==
  {e \in Events : /\ events[e] # NoPlan /\ events[e].status = "ACTIVE"
                  /\ events[e].from <= t /\ t < events[e].to}

Configured == {h \in HoursIds : hours[h] # NoPlan}

InHours(h, t) ==
  LET local == LocalTime[hours[h].zone][t] IN
  \E w \in hours[h].windows :
    w.day = local.day /\ w.from <= local.minute /\ local.minute < w.to

\* derivedCalendarStateAt: planned maintenance before a holiday before the hours.
DerivedCalendarState(active, h, t) ==
  IF \E e \in active : events[e].class = "MAINTENANCE_WINDOW" THEN "MAINTENANCE"
  ELSE IF \E e \in active : events[e].class = "COMPANY_HOLIDAY" THEN "HOLIDAY"
  ELSE IF InHours(h, t) THEN "NORMAL" ELSE "NIGHT"

\* validateCalendarOperatingFactsV1: the state agrees with the events that are named.
ValidOperatingFacts(active, state) ==
  /\ Cardinality(active) <= MaxActiveEvents
  /\ state \in {"MAINTENANCE", "HOLIDAY"} <=> active # {}

\* Without the company hours the operating state is not known.
OperatingState(t) ==
  LET active == ActiveEvents(t)
      state  == DerivedCalendarState(active, CHOOSE h \in Configured : TRUE, t) IN
  IF Cardinality(Configured) = 1 /\ ValidOperatingFacts(active, state)
  THEN state ELSE "UNAVAILABLE"

=============================================================================

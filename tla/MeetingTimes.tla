---------------------------- MODULE MeetingTimes ----------------------------
(***************************************************************************)
(* Two searches for times when people are free.  find_meeting_times of v4  *)
(* (src/tools/calendar_tools.py) fetches the free/busy strings of all      *)
(* attendees once, in intervals of 15 minutes from the start of the range, *)
(* and check_availability of v5 (v5/ewsmcp/tools/calendar_people.py) their *)
(* meetings; a cursor then walks the range, in v5 on a grid of half hours. *)
(* Time is a number; the days, hours and intervals are scaled down.  What  *)
(* a call names, and the cursor, are times of the clock on the wall; the   *)
(* meetings of Exchange and its strings are in time as it passes (Real),   *)
(* and at most once in the range the clock is changed, as for summer.  The *)
(* scores, which only order the answer, and the texts are left out.        *)
(***************************************************************************)
EXTENDS Integers, Sequences, FiniteSets

CONSTANTS
  Interval, Hour, Day,   (* lengths; an hour and a day are whole intervals  *)
  Attendees,
  Meetings,     (* what an attendee may have: <<start, end>>                *)
  MaxMeetings,  (* bound: of all attendees together                         *)
  Grid,         (* GRID_MINUTES                                             *)
  Requests      (* the tools and arguments of the calls                     *)

VARIABLES
  request,    (* tool, start, end, duration, pause, apart, hours_only,      *)
              (* earliest, latest, max; the hours of v5 are constants; and  *)
              (* when the clock is next changed, and by how much            *)
  calendar,   (* Exchange: the meetings of each attendee                    *)
  hidden,     (* attendees whose calendar Exchange does not tell            *)
  cursor,     (* current_time                                               *)
  found,      (* the suggestions, in the order in which they are found      *)
  done

(* What the proofs assume of the constants: a meeting lasts; a search of v4 *)
(* steps past what it suggests (min_break_minutes has no minimum), and its  *)
(* earliest_hour is one (datetime.replace); the hours of v5 end before      *)
(* midnight (WORKING_HOURS); a change of the clock before the range, or     *)
(* that goes back before it, is none in it.                                 *)
ConstantsOK ==
  /\ {Interval, Hour, Day, Grid} \subseteq Nat \ {0}
  /\ Hour % Interval = 0 /\ Day % Hour = 0
  /\ Meetings \subseteq {m \in Nat \X Nat : m[1] < m[2]}
  /\ Requests \subseteq [tool : {"v4", "v5"}, start : Nat, end : Nat, duration : Nat \ {0},
                         pause : Int, apart : BOOLEAN, hours_only : BOOLEAN,
                         earliest : Nat, latest : Nat, max : Nat, change : Nat, shift : Int]
  /\ \A r \in Requests : r.start < r.change /\ r.start <= r.change + r.shift
  /\ \A r \in Requests :
       IF r.tool = "v4" THEN r.duration + r.pause >= 0 /\ r.earliest * Hour < Day
       ELSE r.latest * Hour < Day

vars == <<request, calendar, hidden, cursor, found, done>>

(* Mutant: the last point of the grid, which may be before the range        *)
FloorToGrid(t) == t - (t % Grid)
_ceil_to_grid(t) == ((t + Grid - 1) \div Grid) * Grid

Init ==
  /\ request \in Requests
  /\ calendar \in [Attendees -> SUBSET Meetings]
  /\ Cardinality({x \in Attendees \X Meetings : x[2] \in calendar[x[1]]}) <= MaxMeetings
  /\ hidden \in {h \in SUBSET Attendees : Cardinality(h) <= 1}
  /\ cursor = IF request.tool = "v4" THEN request.start ELSE _ceil_to_grid(request.start)
  /\ found = <<>>
  /\ done = FALSE

(* An hour that is skipped is looked up as if the clock had not been        *)
(* changed yet, one that comes twice as the first of the two (fold).        *)
Real(t) == IF t < request.change THEN t ELSE t + request.shift

Overlap(s, e, m) == s < m[2] /\ m[1] < e
HourOf(t) == (t % Day) \div Hour
Midnight(t) == t - (t % Day)

(* _extract_merged of an answer of Exchange: one status for each interval   *)
(* of the time that passes in the range, busy if any of it is; empty if     *)
(* there is none.                                                           *)
Merged(a) ==
  IF a \in hidden THEN <<>>
  ELSE [i \in 1..((Real(request.end) - Real(request.start)) \div Interval) |->
          LET from == Real(request.start) + (i - 1) * Interval
          IN IF \E m \in calendar[a] : Overlap(from, from + Interval, m) THEN "2" ELSE "0"]

(* intervals_needed: rounded up.                                            *)
Needed(duration) == (duration + Interval - 1) \div Interval

(* All attendees are free in the intervals from the one at falls into; what *)
(* is not in the string is busy.  The index is a difference of two times on *)
(* the wall (calendar_tools.py:987), so that after a change of the clock it *)
(* is that of another time.                                                 *)
AllAvailable(at) ==
  \A a \in Attendees :
    LET index == (at - request.start) \div Interval
    IN /\ index + Needed(request.duration) <= Len(Merged(a))
       /\ \A i \in 1..Needed(request.duration) : Merged(a)[index + i] \notin {"2", "3", "4"}

-----------------------------------------------------------------------------
(* One turn of the loop.                                                    *)

Searching == ~done /\ request.tool = "v4" /\ cursor < request.end /\ Len(found) < request.max
Keep == UNCHANGED <<request, calendar, hidden>>

(* replace(hour=earliest, minute=0): the cursor is moved on to the opening. *)
Opening(t) == Midnight(t) + request.earliest * Hour
Opened(t) == IF request.hours_only /\ HourOf(t) < request.earliest THEN Opening(t) ELSE t
NextMorning(t) == Midnight(t) + Day + request.earliest * Hour

AfterHours == request.hours_only /\ HourOf(cursor) >= request.latest
Start == Opened(cursor)
Stop == Start + request.duration
Pause == IF request.apart THEN request.pause ELSE 0
TooLong == request.hours_only /\ HourOf(Stop) > request.latest

SkipToMorning ==
  /\ Searching /\ AfterHours
  /\ cursor' = NextMorning(cursor)
  /\ UNCHANGED <<found, done>> /\ Keep

GiveUp ==
  /\ Searching /\ ~AfterHours
  /\ Stop > request.end
  /\ done' = TRUE
  /\ UNCHANGED <<cursor, found>> /\ Keep

SkipTheRest ==
  /\ Searching /\ ~AfterHours /\ Stop <= request.end
  /\ TooLong
  /\ cursor' = NextMorning(Start)
  /\ UNCHANGED <<found, done>> /\ Keep

(* Mutant: one interval on, as without the fix against N overlapping ones   *)
OneIntervalOn == Start + Interval
(* Past the slot and, with avoid_back_to_back, the pause.                   *)
PastTheSlot == Stop + Pause

Suggest ==
  /\ Searching /\ ~AfterHours /\ Stop <= request.end /\ ~TooLong
  /\ AllAvailable(Start)
  /\ found' = Append(found, <<Start, Stop>>)
  /\ cursor' = PastTheSlot
  /\ done' = FALSE /\ Keep

StepOn ==
  /\ Searching /\ ~AfterHours /\ Stop <= request.end /\ ~TooLong
  /\ ~AllAvailable(Start)
  /\ cursor' = Start + Interval
  /\ UNCHANGED <<found, done>> /\ Keep

Finish ==
  /\ ~done /\ request.tool = "v4" /\ ~Searching
  /\ done' = TRUE
  /\ UNCHANGED <<cursor, found>> /\ Keep

FindMeetingTimes ==
  SkipToMorning \/ GiveUp \/ SkipTheRest \/ Suggest \/ StepOn \/ Finish

-----------------------------------------------------------------------------
(* One turn of merge_busy_and_find_slots.                                   *)

TimeOf(t) == t % Day
Fits == cursor + request.duration <= request.end
(* If all calendars are hidden the call fails instead.                      *)
Scanning == ~done /\ request.tool = "v5" /\ hidden # Attendees /\ Fits
WithinHours(s, e) ==
  request.hours_only => /\ request.earliest * Hour <= TimeOf(s)
                        /\ TimeOf(s) < TimeOf(e)
                        /\ TimeOf(e) <= request.latest * Hour
NobodyBusy(s, e) == \A a \in Attendees \ hidden : \A m \in calendar[a] : ~Overlap(Real(s), Real(e), m)

NextOnGrid ==
  /\ Scanning
  /\ LET slot == <<cursor, cursor + request.duration>>
     IN found' = IF WithinHours(slot[1], slot[2]) /\ NobodyBusy(slot[1], slot[2])
                 THEN Append(found, slot) ELSE found
  /\ cursor' = cursor + Grid
  /\ UNCHANGED done /\ Keep

GridEnds ==
  /\ ~done /\ request.tool = "v5" /\ ~Scanning
  /\ done' = TRUE
  /\ UNCHANGED <<cursor, found>> /\ Keep

CheckAvailability == NextOnGrid \/ GridEnds
Next == FindMeetingTimes \/ CheckAvailability
Spec == Init /\ [][Next]_vars

-----------------------------------------------------------------------------
(* Properties *)

Free(s, e) ==
  hidden = {} /\ \A a \in Attendees : \A m \in calendar[a] : ~Overlap(Real(s), Real(e), m)

(* The range begins on an interval, and so does what follows a suggestion.  *)
OnGrid == request.start % Interval = 0 /\ (request.duration + Pause) % Interval = 0

(* Every slot that is suggested is one all attendees are free in, none of   *)
(* them unknown, and the suggestions can all be accepted: they keep the     *)
(* pause.  The first is so on the grid only: a slot off it is looked up by  *)
(* the interval it begins in, and its last minutes by none; and of slots    *)
(* before the clock is changed: later ones are looked up an hour off.       *)
Acceptable ==
  /\ OnGrid => \A i \in DOMAIN found :
                 found[i][2] < request.change => Free(found[i][1], found[i][2])
  /\ \A i, j \in DOMAIN found :
       i < j => found[i][2] + Pause <= found[j][1]

(* A search that ends with fewer slots than it may give has overlooked      *)
(* none: each free slot of whole intervals, in the range and in working     *)
(* hours, is too near to a suggested one; if the clock is not changed in    *)
(* the range, for then free slots are taken for busy ones too.              *)
Steady == request.end < request.change
Near(slot, t) == slot[1] < t + request.duration /\ t < slot[2] + Pause
Possible(t) ==
  /\ (t - request.start) % Interval = 0
  /\ t + request.duration <= request.end /\ Free(t, t + request.duration)
  /\ request.hours_only =>
       /\ HourOf(t) >= request.earliest
       /\ t + request.duration <= Midnight(t) + request.latest * Hour
NoneOverlooked ==
  done /\ Steady /\ OnGrid /\ request.duration % Interval = 0 /\ Len(found) < request.max =>
    \A t \in request.start..request.end :
      Possible(t) => \E i \in DOMAIN found : Near(found[i], t)

(* v5 gives exactly the slots that begin on the grid, lie in the range and  *)
(* in the working hours of one day, and are free for everybody whose        *)
(* calendar it can see; it says of whom it cannot.  Slots in working hours  *)
(* are shorter than a day: of longer ones only the time of day is compared. *)
Fitting(t) ==
  LET e == t + request.duration IN
  /\ t % Grid = 0 /\ e <= request.end /\ NobodyBusy(t, e)
  /\ request.hours_only =>
       /\ t >= Midnight(t) + request.earliest * Hour
       /\ e <= Midnight(t) + request.latest * Hour
Whole ==
  done /\ hidden # Attendees /\ (request.hours_only => request.duration < Day) =>
    {found[i] : i \in DOMAIN found} =
      {<<t, t + request.duration>> : t \in {t \in request.start..request.end : Fitting(t)}}

SlotsAreRight == IF request.tool = "v4" THEN Acceptable /\ NoneOverlooked ELSE Whole
=============================================================================

----------------------------- MODULE Preprocess -----------------------------
(***************************************************************************)
(* From raw train records to the timetable, scripts/preprocess.ts and      *)
(* scripts/lib/normalize.ts: every record is validated and its times made  *)
(* absolute, copies are dropped, stations are numbered.  Pure operators.   *)
(*                                                                         *)
(* A raw record is [number, name, days, odd, schedule]: odd stands for the *)
(* deviations that only a strict policy minds (route id, operating days,   *)
(* recovered codes), and a stop of the schedule is                         *)
(* [seq, code, arr, dep, doj, dist].                                       *)
(***************************************************************************)
EXTENDS Timetable, SequencesExt

CONSTANTS
  MaxJourney,      \* 10: the last day of a journey
  LongDwell        \* 360 minutes

Absent == -1000    \* a field that is missing or null
Invalid == -1001   \* a time that does not parse
Placeholder == 0   \* a station code that is none, as "Point(4)"; codes are positive
Policies == {"strict", "correct", "skip"}

-----------------------------------------------------------------------------
(* normalize.ts: one record. *)

Sequenced(s) == \A i \in DOMAIN s : s[i].seq # Absent
Ordered(s) == IF Sequenced(s) THEN SortSeq(s, LAMBDA a, b : a.seq < b.seq) ELSE s

(* The origin has no arrival and the terminus no departure; between them one fills the other. *)
Arrives(s, i) ==
  IF i = 1 THEN Absent ELSE IF i < Len(s) /\ s[i].arr = Absent THEN s[i].dep ELSE s[i].arr
Departs(s, i) ==
  IF i = Len(s) THEN Absent ELSE IF i > 1 /\ s[i].dep = Absent THEN s[i].arr ELSE s[i].dep

(* absoluteTimes: the day of the journey is that of the departure. *)
AbsDep(s, i) ==
  IF Departs(s, i) = Absent THEN Absent ELSE (s[i].doj - 1) * Day + Departs(s, i)
AbsArr(s, i) ==
  IF Arrives(s, i) = Absent THEN Absent
  ELSE (s[i].doj - 1) * Day + Arrives(s, i)
         - (IF Departs(s, i) # Absent /\ Arrives(s, i) > Departs(s, i) THEN Day ELSE 0)

AllTimes(s) ==
  SelectSeq([k \in 1..2 * Len(s) |->
               IF k % 2 = 1 THEN AbsArr(s, (k + 1) \div 2) ELSE AbsDep(s, k \div 2)],
            LAMBDA t : t # Absent)

(* A distance (not negative) that is missing or goes back is the one before it. *)
Distance(s, i) == Max({0} \cup ({s[j].dist : j \in 1..i} \ {Absent}))

Between(s) == 2..Len(s) - 1
Boardable(s) == {i \in DOMAIN s : s[i].code # Placeholder}

(* What no policy can correct. *)
Unusable(raw) ==
  \/ raw.number = Absent
  \/ raw.days = {}
  \/ Len(raw.schedule) < 2
  \/ LET s == Ordered(raw.schedule) IN
     \/ Sequenced(s) /\ \E i \in 1..Len(s) - 1 : s[i].seq = s[i + 1].seq
     \/ \E i \in DOMAIN s : s[i].arr = Invalid \/ s[i].dep = Invalid
     \/ s[1].dep = Absent \/ s[Len(s)].arr = Absent
     \/ \E i \in Between(s) : s[i].arr = Absent /\ s[i].dep = Absent
     \/ \E i \in DOMAIN s : s[i].doj \notin 1..MaxJourney
     \/ LET times == AllTimes(s) IN \E k \in 1..Len(times) - 1 : times[k + 1] < times[k]
     \/ Cardinality(Boardable(s)) < 2

Corrected(s) ==
  \/ \E i \in Between(s) : s[i].arr = Absent \/ s[i].dep = Absent
  \/ \E i \in DOMAIN s : s[i].dist # Distance(s, i)

(* What a strict policy rejects besides. *)
Deviates(raw, s) ==
  \/ raw.odd \/ Corrected(s)
  \/ ~Sequenced(raw.schedule) \/ s # raw.schedule
  \/ Boardable(s) # DOMAIN s
  \/ \E i \in Between(s) : AbsDep(s, i) - AbsArr(s, i) > LongDwell

AcceptRecord(raw, policy) ==
  /\ ~Unusable(raw)
  /\ LET s == Ordered(raw.schedule) IN
     /\ policy = "skip" => ~Corrected(s)
     /\ policy = "strict" => ~Deviates(raw, s)

CleanRecord(raw) ==
  LET s == Ordered(raw.schedule)
  IN [number |-> raw.number, name |-> raw.name, days |-> raw.days,
      stops |-> [i \in DOMAIN s |-> [code |-> s[i].code, arr |-> AbsArr(s, i), dep |-> AbsDep(s, i),
                                     dist |-> Distance(s, i)]]]

Cleaned(records, policy) ==
  LET good == SelectSeq(records, LAMBDA raw : AcceptRecord(raw, policy))
  IN [k \in DOMAIN good |-> CleanRecord(good[k])]

-----------------------------------------------------------------------------
(* preprocess.ts: duplicates, stations, timetable. *)

(* Of the records with one number, the first of those with the most stops. *)
Kept(ts, number) ==
  LET same == SelectSeq(ts, LAMBDA t : t.number = number)
  IN FoldLeft(LAMBDA prev, t : IF Len(t.stops) > Len(prev.stops) THEN t ELSE prev, Head(same), Tail(same))

ByNumber(ts) ==
  LET numbers == SetToSortSeq({ts[k].number : k \in DOMAIN ts}, <)
  IN [k \in DOMAIN numbers |-> Kept(ts, numbers[k])]

TimetableKey(t) == <<t.days, [i \in DOMAIN t.stops |-> <<t.stops[i].code, t.stops[i].arr, t.stops[i].dep>>]>>

\* Fault: a train of another name with the same timetable is dropped as well.
IsCopyByTimes(kept, t) == \E k \in DOMAIN kept : TimetableKey(kept[k]) = TimetableKey(t)

(* A train is a copy of the first one kept with its timetable, if that has its name. *)
IsCopy(kept, t) ==
  LET same == SelectSeq(kept, LAMBDA x : TimetableKey(x) = TimetableKey(t))
  IN same # <<>> /\ Head(same).name = t.name

Distinct(ts) == FoldLeft(LAMBDA kept, t : IF IsCopy(kept, t) THEN kept ELSE Append(kept, t), <<>>, ts)

CallsAt(t) == {t.stops[i].code : i \in DOMAIN t.stops} \ {Placeholder}

(* The stations by code, each with the number of trains that call there. *)
StationMaster(ts) ==
  LET codes == SetToSortSeq(UNION {CallsAt(ts[k]) : k \in DOMAIN ts}, <)
  IN [n \in DOMAIN codes |->
        [code |-> codes[n], trains |-> Cardinality({k \in DOMAIN ts : codes[n] \in CallsAt(ts[k])})]]

StationIndex(stations, code) ==
  IF code = Placeholder THEN NoStation ELSE (CHOOSE n \in DOMAIN stations : stations[n].code = code) - 1

OrNoTime(t) == IF t = Absent THEN NoTime ELSE t

EmittedTrain(stations, t) ==
  [number |-> t.number, name |-> t.name, days |-> t.days,
   stops |-> [i \in DOMAIN t.stops |->
                [station |-> StationIndex(stations, t.stops[i].code),
                 arr |-> OrNoTime(t.stops[i].arr), dep |-> OrNoTime(t.stops[i].dep),
                 dist |-> t.stops[i].dist]]]

Preprocessed(records, policy) ==
  LET ts == Distinct(ByNumber(Cleaned(records, policy)))
      stations == StationMaster(ts)
  IN [stations |-> stations, trains |-> [k \in DOMAIN ts |-> EmittedTrain(stations, ts[k])]]

-----------------------------------------------------------------------------
(***************************************************************************)
(* What the engine and the API take from the timetable: the engine loads   *)
(* it (Finalized: a -1 is never a time), no train is left out by either as *)
(* one that never runs, distances do not go back, numbers differ; every    *)
(* station is called at, by as many trains as it says; and no accepted     *)
(* train is lost but for a longer record or a copy of it.                  *)
(***************************************************************************)
SoundTimetable(records, policy, tt) ==
  LET trains == tt.trains IN
  /\ Finalized(trains)
  /\ \A k \in DOMAIN trains :
       \A i \in 2..Len(trains[k].stops) : trains[k].stops[i - 1].dist <= trains[k].stops[i].dist
  /\ \A k \in 2..Len(trains) : trains[k - 1].number < trains[k].number
  /\ \A n \in DOMAIN tt.stations :
       /\ tt.stations[n].trains > 0
       /\ tt.stations[n].trains =
            Cardinality({k \in DOMAIN trains : \E i \in DOMAIN trains[k].stops : trains[k].stops[i].station = n - 1})
  /\ LET ok == {k \in DOMAIN records : AcceptRecord(records[k], policy)} IN
     \A k \in ok : \E j \in ok, m \in DOMAIN trains :
       /\ records[j].number = records[k].number
       /\ Len(records[j].schedule) >= Len(records[k].schedule)
       /\ trains[m].name = records[j].name /\ trains[m].days = records[j].days
       /\ Len(trains[m].stops) = Len(records[j].schedule)
=============================================================================

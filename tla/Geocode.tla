------------------------------- MODULE Geocode -------------------------------
(***************************************************************************)
(* The station coordinates of the map, scripts/lib/geocode.ts and          *)
(* scripts/geocode.ts: coordinates that disagree with the distances of the *)
(* timetable are dropped and the gaps filled along the trains.  Pure       *)
(* operators; the stations lie on a line, a position is a number, and the  *)
(* straight-line distance a difference.  A route is a sequence of          *)
(* [code, km].                                                             *)
(***************************************************************************)
EXTENDS Integers, Sequences, FiniteSets, FiniteSetsExt, SequencesExt, Functions

CONSTANTS
  Slack,           \* 25 km
  MinEdges,        \* 2
  Passes           \* 3

Abs(x) == IF x < 0 THEN -x ELSE x

(* The straight line is at most 1.6 times the rail, and some slack. *)
EdgeConsistent(a, b, rail) == 10 * Abs(a - b) <= 16 * Abs(rail) + 10 * Slack

(* The adjacent stops of all routes, both with known coordinates. *)
Edges(coords, routes) ==
  UNION {{<<r, i>> : i \in {n \in 2..Len(routes[r]) :
                             /\ {routes[r][n - 1].code, routes[r][n].code} \subseteq DOMAIN coords
                             /\ routes[r][n - 1].code # routes[r][n].code}} : r \in DOMAIN routes}

Touching(es, routes, c) == {e \in es : c \in {routes[e[1]][e[2] - 1].code, routes[e[1]][e[2]].code}}

Bad(es, coords, routes) ==
  {e \in es : LET a == routes[e[1]][e[2] - 1]
                  b == routes[e[1]][e[2]]
              IN ~EdgeConsistent(coords[a.code], coords[b.code], b.km - a.km)}

BadAt(coords, routes, c) ==
  LET es == Edges(coords, routes) IN Cardinality(Touching(Bad(es, coords, routes), routes, c))

(* More than half of the checked neighbours disagree. *)
Suspects(coords, routes) ==
  LET es == Edges(coords, routes)
      bad == Bad(es, coords, routes)
  IN {c \in DOMAIN coords :
        LET n == Cardinality(Touching(es, routes, c))
        IN n >= MinEdges /\ 2 * Cardinality(Touching(bad, routes, c)) > n}

(* The stations in the order the routes first name them on a checked edge. *)
Met(coords, routes) ==
  LET es == Edges(coords, routes)
      pairs == SetToSortSeq(es, LAMBDA d, e : d[1] < e[1] \/ (d[1] = e[1] /\ d[2] < e[2]))
  IN FlattenSeq([k \in DOMAIN pairs |->
       <<routes[pairs[k][1]][pairs[k][2] - 1].code, routes[pairs[k][1]][pairs[k][2]].code>>])

(* The first of the worst suspects. *)
Worst(coords, routes) ==
  LET suspects == Suspects(coords, routes)
      most == Max({BadAt(coords, routes, c) : c \in suspects})
      met == SelectSeq(Met(coords, routes), LAMBDA c : c \in suspects /\ BadAt(coords, routes, c) = most)
  IN Head(met)

\* Fault: all suspects are dropped at once.
WithoutSuspects(coords, routes) == Restrict(coords, DOMAIN coords \ Suspects(coords, routes))

(* findOutliers, and what is left of the coordinates: one station at a time. *)
Trusted(coords, routes) ==
  LET Left[n \in 0..Cardinality(DOMAIN coords)] ==
        IF n = 0 THEN coords
        ELSE LET c == Left[n - 1]
             IN IF Suspects(c, routes) = {} THEN c ELSE Restrict(c, DOMAIN c \ {Worst(c, routes)})
  IN Left[Cardinality(DOMAIN coords)]

(* The middle of the sorted numbers, or between its two. *)
Median(xs) ==
  LET s == SortSeq(xs, <)
      m == Len(s) \div 2
  IN IF Len(s) % 2 = 1 THEN s[m + 1] ELSE (s[m] + s[m + 1]) \div 2

(* Between the nearest known stops, in proportion to the rail distance (in the middle without one). *)
KnownBefore(stops, i, coords) == {p \in 1..i - 1 : stops[p].code \in DOMAIN coords}
KnownAfter(stops, i, coords) == {n \in i + 1..Len(stops) : stops[n].code \in DOMAIN coords}

InterpolateAt(stops, i, coords) ==
  LET p == Max(KnownBefore(stops, i, coords))
      n == Min(KnownAfter(stops, i, coords))
      a == coords[stops[p].code]
      b == coords[stops[n].code]
      span == stops[n].km - stops[p].km
      at == Max({0, Min({span, stops[i].km - stops[p].km})})
  IN IF span > 0 THEN a + ((b - a) * at) \div span ELSE a + (b - a) \div 2

Estimates(routes, c, coords) ==
  LET places == SetToSeq(UNION {{<<r, i>> : i \in {n \in 1..Len(routes[r]) :
                   /\ routes[r][n].code = c
                   /\ KnownBefore(routes[r], n, coords) # {} /\ KnownAfter(routes[r], n, coords) # {}}} :
                 r \in DOMAIN routes})
  IN [k \in DOMAIN places |-> InterpolateAt(routes[places[k][1]], places[k][2], coords)]

(* One pass: the estimates are all made before one of them counts as known. *)
FillPass(coords, routes, wanted) ==
  LET found == {c \in wanted \ DOMAIN coords : Estimates(routes, c, coords) # <<>>}
  IN [c \in DOMAIN coords \cup found |->
        IF c \in DOMAIN coords THEN coords[c] ELSE Median(Estimates(routes, c, coords))]

(* fillByInterpolation. *)
Filled(coords, routes, wanted) ==
  LET Pass[n \in 0..Passes] == IF n = 0 THEN coords ELSE FillPass(Pass[n - 1], routes, wanted)
  IN Pass[Passes]

Geocoded(coords, routes, wanted) == Filled(Trusted(coords, routes), routes, wanted)

-----------------------------------------------------------------------------
(* The pairs of known stations that a train calls at before and after c. *)
Flanks(routes, c, known) ==
  {f \in known \X known : \E r \in DOMAIN routes : \E i \in DOMAIN routes[r] :
     /\ routes[r][i].code = c
     /\ \E p \in 1..i - 1 : routes[r][p].code = f[1]
     /\ \E n \in i + 1..Len(routes[r]) : routes[r][n].code = f[2]}

(***************************************************************************)
(* The guard drops the wrong station and spares its neighbours             *)
(* (lib/geocode.ts:35-41).  truth has the real positions, which the rail   *)
(* distances agree with.  With one wrong coordinate, of a suspect that     *)
(* disagrees on more edges than any other station, that one and no other   *)
(* is dropped; it and the unknown ones are put at their real positions, if *)
(* a train passes them between two stations that are kept.  With any       *)
(* coordinates, what is filled in lies among the positions of the other    *)
(* stations before and after it on its routes.                             *)
(***************************************************************************)
SoundCoordinates(coords, routes, truth, result) ==
  LET wrong == {c \in DOMAIN coords : coords[c] # truth[c]}
      conspicuous == \E w \in wrong :
        /\ wrong = {w} /\ w \in Suspects(coords, routes)
        /\ \A c \in DOMAIN coords \ wrong : BadAt(coords, routes, c) < BadAt(coords, routes, w)
      kept == DOMAIN coords \ wrong
      passed == {c \in DOMAIN truth : Flanks(routes, c, kept) # {}}
  IN /\ wrong = {} \/ conspicuous =>
          /\ DOMAIN Trusted(coords, routes) = kept
          /\ kept \cup passed \subseteq DOMAIN result
          /\ \A c \in DOMAIN result : result[c] = truth[c]
     /\ \A c \in DOMAIN result \ DOMAIN Trusted(coords, routes) :
          LET ends == UNION {{result[f[1]], result[f[2]]} : f \in Flanks(routes, c, DOMAIN result \ {c})}
          IN result[c] \in Min(ends)..Max(ends)
=============================================================================

--------------------------- MODULE MetricQueriesMC ---------------------------
(* Stores for the model checker.  For the queries: one long series, steps that
   are no doubles of their own, and three runs to rank.  For the writer and the
   finalizations: a run whose reports are still to come beside one that ended. *)
EXTENDS MetricQueries

CONSTANTS m1

McNaN == 9
McInfinity == 8
McMinusInfinity == -8
McMinusZero == -1   \* so -2 is the next smaller number

Row(r, step, time, value) ==
  [run |-> r, metric |-> m1, step |-> step, timestamp |-> time, value |-> value,
   ingestedAt |-> 0, session |-> 0]

Aggregates(rows, status) ==
  LET series(r) == {rows[i] : i \in {j \in DOMAIN rows : rows[j].run = r}}
      last(r) == Max({p.step : p \in series(r)})
  IN {[run |-> r, metric |-> m1, count |-> Cardinality(series(r)), lastStep |-> last(r),
       lastValue |-> (CHOOSE p \in series(r) : p.step = last(r)).value,
       min |-> Min({p.value : p \in series(r)}), max |-> Max({p.value : p \in series(r)})] :
        r \in {x \in DOMAIN status : status[x] # "running" /\ series(x) # {}}}

FirstStore(rows, status, created) ==
  [points |-> [i \in DOMAIN rows |-> ("sequence" :> i) @@ rows[i]], clock |-> 1, appends |-> 0, session |-> MaxSessions,
   aggregates |-> Aggregates(rows, status),
   runs |-> [r \in DOMAIN status |->
               [status |-> status[r], startedAt |-> 10, createdAt |-> created[r]]]]

\* Nine steps, with a peak and another remarkable value, in times that go on,
\* stand still, go back, or start before the run, and once from a negative step.
\* The run has ended, but its status may have been read before.
Timelines == {[i \in 1..9 |-> 9 + i], [i \in 1..9 |-> 10 + i \div 3],
              [i \in 1..9 |-> IF i = 6 THEN 10 ELSE 9 + i], [i \in 1..9 |-> 8 + i]}

LongSeries ==
  {FirstStore([i \in 1..9 |-> Row(1, i - 1 + begin[1], begin[2][i],
                 IF i = peak THEN 2 ELSE IF i = at THEN value ELSE 1)],
              [r \in {1} |-> "finished"], [r \in {1} |-> 1]) :
     begin \in ({0} \X Timelines) \cup {<<-1, [i \in 1..9 |-> 9 + i]>>},
     peak \in {1, 5}, at \in {2, 6, 9}, value \in {-2, McNaN, McMinusInfinity}}

\* Large steps, which are not doubles of their own: around a power of two and
\* at the end of the integers.
Large == 60..74 \cup 116..127

LargeSteps ==
  {FirstStore([i \in 1..Len(steps) |-> Row(1, steps[i], 10 + i, 1)],
              [r \in {1} |-> "finished"], [r \in {1} |-> 1]) :
     steps \in {<<s>> : s \in Large} \cup {<<s, s + 1>> : s \in Large \ {127}}
               \cup {<<s, s + 4>> : s \in Large \ 124..127}}

\* What a run to be ranked may be: its status and the value of its one point.
\* Only the second of them is still running.
Contestants(r) ==
  {<<"finished", v>> : v \in {-2, McMinusZero, 0, McNaN, None}}
    \cup {<<"failed", 1>>} \cup (IF r = 2 THEN {<<"running", 1>>} ELSE {})

Contests ==
  {LET rows == [r \in 1..3 |-> IF c[r][2] = None THEN <<>> ELSE <<Row(r, 0, 10, c[r][2])>>]
   IN FirstStore(rows[1] \o rows[2] \o rows[3], [r \in 1..3 |-> c[r][1]], created) :
     c \in {<<x, y, z>> : x \in Contestants(1), y \in Contestants(2), z \in Contestants(3)},
     created \in {<<1, 1, 1>>, <<3, 2, 2>>}}

\* Only reports of run 4 are still to come: some to the last session, and fewer
\* to two.
Live ==
  {[FirstStore(<<Row(1, 0, 10, 1)>>, 1 :> "finished" @@ 4 :> "running", 1 :> 1 @@ 4 :> 1)
      EXCEPT !.clock = clock, !.session = begin[1], !.appends = begin[2]] :
     clock \in Clocks, begin \in {<<MaxSessions, MaxAppends>>, <<MaxSessions - 1, MaxAppends - 1>>}}

\* Values at the end of the doubles.
LargeValues ==
  {FirstStore([i \in 1..Len(values) |-> Row(1, i, 10 + i, values[i])],
              [r \in {1} |-> "finished"], [r \in {1} |-> 1]) :
     values \in {<<6>>, <<7>>, <<0, 6>>, <<6, 7>>, <<-3, 3>>, <<-4, 3>>, <<-7>>}}

McFirstStores == LongSeries \cup LargeSteps \cup LargeValues \cup Contests \cup Live

Report(step, value) ==
  [run |-> 4, metric |-> m1, step |-> step, timestamp |-> 10 + step, value |-> value]

\* A step is reported again in the same batch, or in a later one.
McBatches == {<<Report(0, 0)>>, <<Report(1, McNaN), Report(0, 0), Report(0, 1)>>}

CallersAreAlike == Permutations(Callers)

McViewports == {[start |-> 0, end |-> 8], [start |-> 3, end |-> 7],
                [start |-> 4, end |-> 4], [start |-> 9, end |-> 12]}
McBounds == [start |-> 5, end |-> 20]
=============================================================================

------------------------ MODULE JobApplicationsProofs ------------------------
(***************************************************************************)
(* What module JobApplications promises, proved for any stages,            *)
(* applications, size of a page and number of changes: the history of an   *)
(* application leads to its stage, and the list of the window, read page   *)
(* by page with a cursor, is the head of the ordered table.                *)
(*                                                                         *)
(* What is ordered is stated for a table t that stands for job_applications*)
(* now or after a step.                                                    *)
(***************************************************************************)
EXTENDS JobApplications, FiniteSetTheorems, TLAPS

-----------------------------------------------------------------------------
(* Types *)

Filters == Stage \cup {None}

Cursors == (Nat \X App) \cup {None}

Tables == [App -> [stage : Filters, at : Nat]]

Entries == [from : Filters, to : Stage, at : Nat]

Histories == [App -> Seq(Entries)]

Views == [filter : Filters, list : Seq(App), cursor : Cursors, loading : BOOLEAN,
          loadingMore : BOOLEAN, due : BOOLEAN, stray : BOOLEAN]

Requests == [kind : {"reset", "more"}, filter : Filters, cursor : Cursors, rows : Seq(App),
             next : Cursors, answered : BOOLEAN, failed : BOOLEAN]

Types ==
  /\ app \in Tables /\ history \in Histories
  /\ clock \in Nat /\ \A a \in App : app[a].at <= clock
  /\ view \in Views /\ channel \in Seq(Requests)

-----------------------------------------------------------------------------
(* Rows in their order *)

KeyIn(t, a) == <<t[a].at, a>>

Precedes(t, a, b) == Before(KeyIn(t, a), KeyIn(t, b))

Ahead(t, S, a) == {b \in S : Precedes(t, b, a)}

Place(t, S, a) == Cardinality(Ahead(t, S, a))

Sorted(t, S) == [i \in 1..Cardinality(S) |-> CHOOSE a \in S : Place(t, S, a) = i - 1]

Chosen(t, filter) == {a \in App : t[a].stage # None /\ filter \in {None, t[a].stage}}

Rest(t, filter, cursor) ==
  {a \in Chosen(t, filter) : cursor = None \/ Before(cursor, KeyIn(t, a))}

\* A page, and the cursor behind it.
Rows(t, filter, cursor) ==
  LET s == Sorted(t, Rest(t, filter, cursor))
  IN  SubSeq(s, 1, IF Len(s) > Limit THEN Limit ELSE Len(s))

NextCursor(t, filter, cursor) ==
  IF Cardinality(Rest(t, filter, cursor)) > Limit
  THEN KeyIn(t, Rows(t, filter, cursor)[Limit]) ELSE None

-----------------------------------------------------------------------------
(* The list and the answers on their way *)

\* The list is the head of the table, the cursor its end.
Current(t, list, cursor, filter) ==
  LET all == Sorted(t, Chosen(t, filter))
  IN  /\ Len(list) <= Len(all)
      /\ \A i \in 1..Len(list) : list[i] = all[i]
      /\ IF cursor = None
         THEN Len(list) = Len(all)
         ELSE list # <<>> /\ Len(list) < Len(all) /\ cursor = KeyIn(t, list[Len(list)])

Fresh(t, r) ==
  r.answered /\ ~ r.failed =>
    /\ r.rows = Rows(t, r.filter, r.cursor)
    /\ r.next = NextCursor(t, r.filter, r.cursor)

\* No reset is behind the first i requests.
LastReset(c, i) == \A j \in 1..Len(c) : j > i => c[j].kind = "more"

ChannelInv ==
  /\ \A i \in 1..Len(channel) : channel[i].kind = "reset" <=> channel[i].cursor = None
  /\ ~ view.due =>
       \A i \in 1..Len(channel) :
         LastReset(channel, i) => channel[i].filter = view.filter /\ Fresh(app, channel[i])

ViewInv ==
  ~ view.due /\ ~ view.stray /\ LastReset(channel, 0) =>
    Current(app, view.list, view.cursor, view.filter)

ListInv == Types /\ ChannelInv /\ ViewInv

-----------------------------------------------------------------------------
(* What the rank of a row is worth *)

LEMMA KeyFields ==
  ASSUME NEW t \in Tables, NEW a \in App
  PROVE  t[a].at \in Nat /\ t[a].stage \in Filters /\ a \in Nat /\ KeyIn(t, a) \in Cursors
BY DEF Tables, App, KeyIn, Cursors

\* The rows are strictly ordered.
LEMMA Precedence ==
  ASSUME NEW t \in Tables, NEW a \in App, NEW b \in App, NEW c \in App
  PROVE  /\ ~ Precedes(t, a, a)
         /\ Precedes(t, a, b) => ~ Precedes(t, b, a)
         /\ Precedes(t, a, b) /\ Precedes(t, b, c) => Precedes(t, a, c)
         /\ a # b => Precedes(t, a, b) \/ Precedes(t, b, a)
<1>1. ASSUME NEW x \in App, NEW y \in App
      PROVE  Precedes(t, x, y) <=> t[x].at > t[y].at \/ (t[x].at = t[y].at /\ x > y)
  BY DEF Precedes, Before, KeyIn
<1>2. /\ a \in Nat /\ b \in Nat /\ c \in Nat
      /\ t[a].at \in Nat /\ t[b].at \in Nat /\ t[c].at \in Nat
  BY KeyFields
<1> HIDE DEF Precedes
<1> QED BY <1>1, <1>2

LEMMA Finite ==
  ASSUME NEW S \in SUBSET App
  PROVE  IsFiniteSet(S) /\ Cardinality(S) \in Nat
<1>1. IsFiniteSet(App)
  BY JobBounds, FS_Interval DEF App
<1> QED BY <1>1, FS_Subset, FS_CardinalityType

LEMMA PlaceFacts ==
  ASSUME NEW t \in Tables, NEW S \in SUBSET App, NEW a \in S
  PROVE  /\ Place(t, S, a) \in 0..(Cardinality(S) - 1)
         /\ \A b \in S : Precedes(t, a, b) => Place(t, S, a) < Place(t, S, b)
         /\ \A b \in S : Place(t, S, a) = Place(t, S, b) => a = b
<1>1. ASSUME NEW b \in S
      PROVE  Ahead(t, S, b) \in SUBSET (S \ {b}) /\ Ahead(t, S, b) \in SUBSET App
  BY Precedence DEF Ahead
<1>2. ASSUME NEW b \in S PROVE Place(t, S, b) \in 0..(Cardinality(S) - 1)
  <2>1. IsFiniteSet(S) /\ Cardinality(S) \in Nat /\ Place(t, S, b) \in Nat
    BY <1>1, Finite DEF Place
  <2>2. IsFiniteSet(S \ {b}) /\ Cardinality(S \ {b}) = Cardinality(S) - 1
    BY <2>1, FS_RemoveElement
  <2>3. Place(t, S, b) <= Cardinality(S \ {b})
    BY <1>1, <2>2, FS_Subset DEF Place
  <2> QED BY <2>1, <2>2, <2>3
<1>3. ASSUME NEW b \in S, NEW c \in S, Precedes(t, b, c)
      PROVE  Place(t, S, b) < Place(t, S, c)
  <2>1. b \notin Ahead(t, S, b) /\ Ahead(t, S, b) \cup {b} \in SUBSET Ahead(t, S, c)
    BY <1>3, Precedence DEF Ahead
  <2>2. IsFiniteSet(Ahead(t, S, b)) /\ IsFiniteSet(Ahead(t, S, c))
        /\ Place(t, S, b) \in Nat /\ Place(t, S, c) \in Nat
    BY <1>1, Finite DEF Place
  <2>3. Cardinality(Ahead(t, S, b) \cup {b}) = Place(t, S, b) + 1
    BY <2>1, <2>2, FS_AddElement DEF Place
  <2>4. Cardinality(Ahead(t, S, b) \cup {b}) <= Place(t, S, c)
    BY <2>1, <2>2, FS_Subset DEF Place
  <2> QED BY <2>2, <2>3, <2>4
<1>4. ASSUME NEW b \in S, Place(t, S, a) = Place(t, S, b) PROVE a = b
  <2>1. CASE a # b
    <3>1. Precedes(t, a, b) \/ Precedes(t, b, a)
      BY <2>1, Precedence
    <3>2. Place(t, S, a) \in Nat /\ Place(t, S, b) \in Nat
      BY <1>2
    <3> QED BY <1>3, <1>4, <3>1, <3>2
  <2> QED BY <2>1
<1> QED BY <1>2, <1>3, <1>4

LEMMA EveryPlace ==
  ASSUME NEW t \in Tables, NEW S \in SUBSET App, NEW n \in 0..(Cardinality(S) - 1)
  PROVE  \E a \in S : Place(t, S, a) = n
<1> DEFINE T == 0..(Cardinality(S) - 1)
           f == [a \in S |-> Place(t, S, a)]
<1>1. IsFiniteSet(S) /\ Cardinality(S) \in Nat
  BY Finite
<1>2. IsFiniteSet(T) /\ Cardinality(T) = Cardinality(S)
  BY <1>1, FS_Interval
<1>3. f \in Injection(S, T)
  <2>1. f \in [S -> T]
    BY PlaceFacts
  <2>2. \A a, b \in S : f[a] = f[b] => a = b
    BY PlaceFacts
  <2> HIDE DEF f, T
  <2> QED BY <2>1, <2>2 DEF Injection, IsInjective
<1> HIDE DEF f, T
<1>4. f \in Surjection(S, T)
  BY <1>1, <1>2, <1>3, FS_Injection
<1>5. n \in T
  BY DEF T
<1>6. \E a \in S : f[a] = n
  BY <1>4, <1>5 DEF Surjection
<1> QED BY <1>6 DEF f

\* Sorted has every row once, in the order.
LEMMA SortedFacts ==
  ASSUME NEW t \in Tables, NEW S \in SUBSET App
  PROVE  /\ Sorted(t, S) \in Seq(App) /\ Len(Sorted(t, S)) = Cardinality(S) /\ Cardinality(S) \in Nat
         /\ \A i \in 1..Cardinality(S) :
              Sorted(t, S)[i] \in S /\ Place(t, S, Sorted(t, S)[i]) = i - 1
<1>1. Cardinality(S) \in Nat
  BY Finite
<1>2. ASSUME NEW i \in 1..Cardinality(S)
      PROVE  Sorted(t, S)[i] \in S /\ Place(t, S, Sorted(t, S)[i]) = i - 1
  <2>1. i - 1 \in 0..(Cardinality(S) - 1)
    BY <1>1
  <2>2. \E a \in S : Place(t, S, a) = i - 1
    BY <2>1, EveryPlace
  <2>3. Sorted(t, S)[i] = CHOOSE a \in S : Place(t, S, a) = i - 1
    BY DEF Sorted
  <2> QED BY <2>2, <2>3
<1>3. Sorted(t, S) \in [1..Cardinality(S) -> App]
  BY <1>2 DEF Sorted
<1> HIDE DEF Sorted
<1>4. Sorted(t, S) \in Seq(App) /\ Len(Sorted(t, S)) = Cardinality(S)
  BY <1>1, <1>3
<1> QED BY <1>1, <1>2, <1>4


\* The rows behind a row are the rest of the table from there on.
LEMMA RestSorted ==
  ASSUME NEW t \in Tables, NEW S \in SUBSET App, NEW c \in S,
         NEW T, T = {a \in S : Precedes(t, c, a)}, NEW n, n = Place(t, S, c) + 1
  PROVE  /\ n \in 1..Cardinality(S) /\ Cardinality(T) = Cardinality(S) - n
         /\ \A i \in 1..Cardinality(T) : Sorted(t, T)[i] = Sorted(t, S)[n + i]
<1>1. T \in SUBSET App /\ T \in SUBSET S /\ Cardinality(S) \in Nat /\ Cardinality(T) \in Nat
  BY Finite
<1>2. n \in 1..Cardinality(S) /\ Place(t, S, c) \in Nat
  BY <1>1, PlaceFacts
<1>3. ASSUME NEW U \in SUBSET T
      PROVE  Cardinality(Ahead(t, S, c) \cup {c} \cup U) = n + Cardinality(U)
  <2> DEFINE A == Ahead(t, S, c)
             B == A \cup {c}
  <2>1. A \in SUBSET App /\ c \notin A /\ B \cap U = {}
    BY <1>1, Precedence DEF Ahead
  <2>2. IsFiniteSet(A) /\ IsFiniteSet(U) /\ Cardinality(U) \in Nat /\ Cardinality(A) = n - 1
    BY <1>1, <1>2, <2>1, Finite DEF Place
  <2> HIDE DEF A
  <2>3. IsFiniteSet(B) /\ Cardinality(B) = n
    BY <1>2, <2>1, <2>2, FS_AddElement
  <2> HIDE DEF B
  <2>4. Cardinality(B \cup U) = n + Cardinality(U) - Cardinality({})
    BY <2>1, <2>2, <2>3, FS_Union
  <2>5. Cardinality(B \cup U) = n + Cardinality(U)
    BY <1>2, <2>2, <2>4, FS_EmptySet
  <2> QED BY <2>5 DEF A, B
<1>4. Cardinality(T) = Cardinality(S) - n
  <2>1. S = Ahead(t, S, c) \cup {c} \cup T
    BY Precedence DEF Ahead
  <2>2. Cardinality(S) = n + Cardinality(T)
    BY <1>3, <2>1
  <2> QED BY <1>1, <1>2, <2>2
<1>5. ASSUME NEW a \in T PROVE Place(t, S, a) = n + Place(t, T, a)
  <2>1. Ahead(t, S, a) = Ahead(t, S, c) \cup {c} \cup Ahead(t, T, a)
    BY <1>1, Precedence DEF Ahead
  <2>2. Ahead(t, T, a) \in SUBSET T
    BY DEF Ahead
  <2> QED BY <1>3, <2>1, <2>2 DEF Place
<1>6. ASSUME NEW i \in 1..Cardinality(T) PROVE Sorted(t, T)[i] = Sorted(t, S)[n + i]
  <2> DEFINE a == Sorted(t, T)[i]
             b == Sorted(t, S)[n + i]
  <2>1. a \in T /\ Place(t, T, a) = i - 1
    BY <1>1, SortedFacts
  <2>2. PICK m \in 1..Cardinality(S) : m = n + i
    BY <1>1, <1>2, <1>4
  <2>3. b \in S /\ Place(t, S, b) = n + i - 1
    <3>1. Sorted(t, S)[m] \in S /\ Place(t, S, Sorted(t, S)[m]) = m - 1
      BY SortedFacts
    <3> QED BY <2>2, <3>1
  <2> HIDE DEF a, b
  <2>4. Place(t, S, a) = Place(t, S, b)
    BY <1>2, <1>5, <2>1, <2>3
  <2>5. a \in S
    BY <1>1, <2>1
  <2>6. a = b
    BY <2>3, <2>4, <2>5, PlaceFacts
  <2> QED BY <2>6 DEF a, b
<1> QED BY <1>2, <1>4, <1>6

-----------------------------------------------------------------------------
(* Pages *)

LEMMA ChosenRest ==
  ASSUME NEW t \in Tables, NEW filter, NEW cursor
  PROVE  /\ Chosen(t, filter) \in SUBSET App /\ Rest(t, filter, cursor) \in SUBSET App
         /\ Rest(t, filter, None) = Chosen(t, filter)
BY DEF Chosen, Rest

LEMMA PageFacts ==
  ASSUME NEW t \in Tables, NEW filter, NEW cursor,
         NEW S, S = Rest(t, filter, cursor), NEW rows, rows = Rows(t, filter, cursor),
         NEW next, next = NextCursor(t, filter, cursor)
  PROVE  /\ rows \in Seq(App) /\ next \in Cursors
         /\ Len(rows) <= Cardinality(S) /\ Cardinality(S) \in Nat
         /\ \A i \in 1..Len(rows) : rows[i] = Sorted(t, S)[i]
         /\ IF next = None
            THEN Len(rows) = Cardinality(S)
            ELSE rows # <<>> /\ Len(rows) < Cardinality(S) /\ next = KeyIn(t, rows[Len(rows)])
<1> DEFINE s == Sorted(t, S)
           n == IF Len(s) > Limit THEN Limit ELSE Len(s)
<1>1. s \in Seq(App) /\ Len(s) = Cardinality(S) /\ Cardinality(S) \in Nat
  BY ChosenRest, SortedFacts
<1>2. rows = SubSeq(s, 1, n)
  BY DEF Rows
<1>3. next = IF Cardinality(S) > Limit THEN KeyIn(t, rows[Limit]) ELSE None
  BY DEF NextCursor
<1>4. Limit \in Nat /\ Limit >= 1
  BY JobBounds
<1> HIDE DEF s
<1>5. rows \in Seq(App) /\ Len(rows) = n /\ \A i \in 1..Len(rows) : rows[i] = s[i]
  BY <1>1, <1>2, <1>4
<1>6. CASE Cardinality(S) > Limit
  <2>1. n = Limit /\ Len(rows) = Limit /\ rows[Limit] \in App /\ rows # <<>>
    BY <1>1, <1>4, <1>5, <1>6
  <2>2. next = KeyIn(t, rows[Limit]) /\ next \in Cursors /\ next # None
    BY <1>3, <1>6, <2>1, KeyFields, NoneIsNoValue DEF KeyIn
  <2> QED BY <1>1, <1>4, <1>5, <1>6, <2>1, <2>2 DEF s
<1>7. CASE ~ Cardinality(S) > Limit
  <2>1. next = None /\ next \in Cursors
    BY <1>3, <1>7 DEF Cursors
  <2> QED BY <1>1, <1>4, <1>5, <1>7, <2>1 DEF s
<1> QED BY <1>6, <1>7

\* The answer to a reset is the head of the table.
LEMMA FirstPage ==
  ASSUME NEW t \in Tables, NEW filter
  PROVE  Current(t, Rows(t, filter, None), NextCursor(t, filter, None), filter)
<1> DEFINE S == Chosen(t, filter)
<1>1. S = Rest(t, filter, None) /\ S \in SUBSET App
  BY ChosenRest
<1>2. Len(Sorted(t, S)) = Cardinality(S)
  BY <1>1, SortedFacts
<1> HIDE DEF S
<1> QED BY <1>1, <1>2, PageFacts DEF Current, S

\* The answer to a request for more, at the cursor of the list, continues it.
LEMMA NextPage ==
  ASSUME NEW t \in Tables, NEW filter, NEW list \in Seq(App), NEW cursor, cursor # None,
         Current(t, list, cursor, filter)
  PROVE  Current(t, list \o Rows(t, filter, cursor), NextCursor(t, filter, cursor), filter)
<1> DEFINE S == Chosen(t, filter)
           T == Rest(t, filter, cursor)
           all == Sorted(t, S)
           n == Len(list)
           c == list[n]
           rows == Rows(t, filter, cursor)
           next == NextCursor(t, filter, cursor)
<1>1. S \in SUBSET App /\ T \in SUBSET App
  BY ChosenRest
<1>2. all \in Seq(App) /\ Len(all) = Cardinality(S) /\ Cardinality(S) \in Nat
  BY <1>1, SortedFacts
<1>3. /\ list # <<>> /\ n < Len(all) /\ cursor = KeyIn(t, c)
      /\ \A i \in 1..n : list[i] = all[i]
  BY DEF Current
<1>4. n \in 1..Cardinality(S) /\ c = all[n]
  BY <1>2, <1>3
<1>5. c \in S /\ Place(t, S, c) = n - 1
  BY <1>1, <1>4, SortedFacts
<1>6. T = {a \in S : Precedes(t, c, a)}
  BY <1>3 DEF Precedes, Rest
<1>7. /\ Cardinality(T) = Cardinality(S) - n
      /\ \A i \in 1..Cardinality(T) : Sorted(t, T)[i] = all[n + i]
  <2>1. n = Place(t, S, c) + 1
    BY <1>2, <1>4, <1>5
  <2>2. all = Sorted(t, S)
    OBVIOUS
  <2> HIDE DEF S, T, n, c, all
  <2> QED BY <1>1, <1>5, <1>6, <2>1, <2>2, RestSorted
<1>8. /\ rows \in Seq(App) /\ Len(rows) <= Cardinality(T) /\ Cardinality(T) \in Nat
      /\ \A i \in 1..Len(rows) : rows[i] = Sorted(t, T)[i]
      /\ IF next = None
         THEN Len(rows) = Cardinality(T)
         ELSE rows # <<>> /\ Len(rows) < Cardinality(T) /\ next = KeyIn(t, rows[Len(rows)])
  BY PageFacts
<1> HIDE DEF S, T, all, c, rows, next
<1> DEFINE new == list \o rows
<1>9. /\ new \in Seq(App) /\ Len(new) = n + Len(rows) /\ n \in Nat /\ Len(rows) \in Nat
      /\ \A i \in 1..n : new[i] = list[i]
      /\ \A i \in 1..Len(rows) : new[n + i] = rows[i]
  BY <1>8
<1> HIDE DEF new
<1>10. Len(new) <= Len(all)
  BY <1>2, <1>4, <1>7, <1>8, <1>9
<1>11. ASSUME NEW i \in 1..Len(new) PROVE new[i] = all[i]
  <2>1. CASE i \in 1..n
    BY <1>3, <1>9, <2>1
  <2>2. CASE i \notin 1..n
    <3>1. PICK j : j = i - n
      OBVIOUS
    <3>2. j \in 1..Len(rows) /\ i = n + j
      BY <1>9, <2>2, <3>1
    <3>3. new[i] = rows[j] /\ rows[j] = Sorted(t, T)[j] /\ j \in 1..Cardinality(T)
      BY <1>8, <1>9, <3>2
    <3> QED BY <1>7, <3>2, <3>3
  <2> QED BY <2>1, <2>2
<1>12. IF next = None
       THEN Len(new) = Len(all)
       ELSE new # <<>> /\ Len(new) < Len(all) /\ next = KeyIn(t, new[Len(new)])
  <2>1. CASE next = None
    <3>1. Len(rows) = Cardinality(T)
      BY <1>8, <2>1
    <3>2. Len(new) = Len(all)
      BY <1>2, <1>4, <1>7, <1>9, <3>1
    <3> QED BY <2>1, <3>2
  <2>2. CASE next # None
    <3>1. rows # <<>> /\ Len(rows) < Cardinality(T) /\ next = KeyIn(t, rows[Len(rows)])
      BY <1>8, <2>2
    <3>2. Len(rows) \in 1..Len(rows)
      BY <1>8, <3>1
    <3>3. new[Len(new)] = rows[Len(rows)] /\ new # <<>>
      BY <1>9, <3>2
    <3> QED BY <1>2, <1>4, <1>7, <1>9, <2>2, <3>1, <3>3
  <2> QED BY <2>1, <2>2
<1> QED BY <1>10, <1>11, <1>12 DEF Current, new, rows, next, all, S


-----------------------------------------------------------------------------
(* The query, and requests in the channel *)

LEMMA QueryFacts ==
  /\ \A S : Ordered(S) = Sorted(app, S)
  /\ \A filter : Matching(filter) = Chosen(app, filter)
  /\ \A filter, cursor : After(filter, cursor) = Rest(app, filter, cursor)
<1>1. ASSUME NEW S PROVE Ordered(S) = Sorted(app, S)
  BY DEF Ordered, Sorted, Place, Ahead, Precedes, KeyIn, Key
<1>2. ASSUME NEW filter PROVE Matching(filter) = Chosen(app, filter)
  BY DEF Matching, Chosen
<1>3. ASSUME NEW filter, NEW cursor PROVE After(filter, cursor) = Rest(app, filter, cursor)
  BY <1>2 DEF After, Rest, Key, KeyIn
<1> QED BY <1>1, <1>2, <1>3

LEMMA AnswerFacts ==
  ASSUME app \in Tables, NEW r \in Requests
  PROVE  /\ Answer(r) \in Requests /\ Answer(r).answered /\ Fresh(app, Answer(r))
         /\ Answer(r).kind = r.kind /\ Answer(r).filter = r.filter /\ Answer(r).cursor = r.cursor
<1> DEFINE S == Rest(app, r.filter, r.cursor)
           s == Sorted(app, S)
           page == SubSeq(s, 1, IF Len(s) > Limit THEN Limit ELSE Len(s))
           next == IF Len(s) > Limit THEN Key(Last(page)) ELSE None
<1>1. Answer(r) = [r EXCEPT !.rows = page, !.next = next, !.answered = TRUE]
  BY QueryFacts DEF Answer
<1>2. page = Rows(app, r.filter, r.cursor)
  BY DEF Rows
<1>3. s \in Seq(App) /\ Len(s) = Cardinality(S) /\ Cardinality(S) \in Nat /\ Limit \in Nat /\ Limit >= 1
  BY ChosenRest, SortedFacts, JobBounds
<1>4. next = NextCursor(app, r.filter, r.cursor)
  <2> HIDE DEF s
  <2>1. CASE Len(s) > Limit
    <3>1. page = SubSeq(s, 1, Limit)
      BY <2>1
    <3>2. Len(page) = Limit
      BY <1>3, <2>1, <3>1
    <3>3. Key(Last(page)) = KeyIn(app, page[Limit])
      BY <3>2 DEF Last, Key, KeyIn
    <3> HIDE DEF page
    <3> QED BY <1>2, <1>3, <2>1, <3>3 DEF NextCursor
  <2>2. CASE ~ Len(s) > Limit
    BY <1>3, <2>2 DEF NextCursor
  <2> QED BY <2>1, <2>2
<1> HIDE DEF page, next
<1>5. page \in Seq(App) /\ next \in Cursors
  BY <1>2, <1>4, PageFacts
<1>6. /\ Answer(r) \in Requests /\ Answer(r).rows = page /\ Answer(r).next = next
      /\ Answer(r).answered = TRUE
      /\ Answer(r).kind = r.kind /\ Answer(r).filter = r.filter /\ Answer(r).cursor = r.cursor
  BY <1>1, <1>5 DEF Requests
<1> QED BY <1>2, <1>4, <1>6 DEF Fresh

LEMMA RequestFacts ==
  ASSUME NEW kind \in {"reset", "more"}, NEW filter \in Filters, NEW cursor \in Cursors,
         NEW r, r = ListRequest(kind, filter, cursor)
  PROVE  /\ r \in Requests /\ r.kind = kind /\ r.filter = filter /\ r.cursor = cursor
         /\ ~ r.answered
BY DEF ListRequest, Requests, Cursors

LEMMA AppendFacts ==
  ASSUME NEW q \in Seq(Requests), NEW r \in Requests, NEW p, p = Append(q, r)
  PROVE  /\ p \in Seq(Requests) /\ Len(p) = Len(q) + 1 /\ Len(q) \in Nat /\ p[Len(p)] = r
         /\ \A i \in 1..Len(q) : p[i] = q[i]
OBVIOUS

-----------------------------------------------------------------------------
(* The window *)

\* A request is made for the filter that is shown.
LEMMA RequestKeeps ==
  ASSUME ListInv, NEW kind \in {"reset", "more"}, NEW filter \in Filters, NEW cursor \in Cursors,
         kind = "reset" <=> cursor = None,
         channel' = Append(channel, ListRequest(kind, filter, cursor)),
         UNCHANGED <<app, history, clock>>,
         view' \in Views, view'.filter = filter,
         kind = "more" => /\ view'.filter = view.filter /\ view'.due = view.due
                          /\ view'.stray = view.stray /\ view'.list = view.list
                          /\ view'.cursor = view.cursor
  PROVE  ListInv'
<1>1. PICK r : r = ListRequest(kind, filter, cursor)
  OBVIOUS
<1>2. /\ r \in Requests /\ r.kind = kind /\ r.filter = filter /\ r.cursor = cursor /\ ~ r.answered
  BY <1>1, RequestFacts
<1>3. channel \in Seq(Requests) /\ channel' = Append(channel, r)
  BY <1>1 DEF ListInv, Types
<1>4. /\ channel' \in Seq(Requests) /\ Len(channel') = Len(channel) + 1 /\ Len(channel) \in Nat
      /\ channel'[Len(channel')] = r
      /\ \A i \in 1..Len(channel) : channel'[i] = channel[i]
  BY <1>2, <1>3, AppendFacts
<1>5. Types'
  BY <1>4 DEF ListInv, Types
<1>6. ASSUME NEW i \in Nat, i <= Len(channel), LastReset(channel', i)
      PROVE  kind = "more" /\ LastReset(channel, i)
  <2>1. kind = "more"
    BY <1>2, <1>4, <1>6 DEF LastReset
  <2> QED BY <1>4, <1>6, <2>1 DEF LastReset
<1>7. ChannelInv'
  <2>1. ASSUME NEW i \in 1..Len(channel') PROVE channel'[i].kind = "reset" <=> channel'[i].cursor = None
    BY <1>2, <1>4 DEF ListInv, ChannelInv
  <2>2. ASSUME ~ view'.due, NEW i \in 1..Len(channel'), LastReset(channel', i)
        PROVE  channel'[i].filter = view'.filter /\ Fresh(app', channel'[i])
    <3>1. CASE i = Len(channel')
      BY <1>2, <1>4, <3>1 DEF Fresh
    <3>2. CASE i # Len(channel')
      <4>1. i \in 1..Len(channel) /\ channel'[i] = channel[i]
        BY <1>4, <3>2
      <4>2. kind = "more" /\ LastReset(channel, i) /\ ~ view.due
        BY <1>6, <2>2, <4>1
      <4> QED BY <4>1, <4>2 DEF ListInv, ChannelInv
    <3> QED BY <3>1, <3>2
  <2> QED BY <2>1, <2>2 DEF ChannelInv
<1>8. ViewInv'
  <2> SUFFICES ASSUME ~ view'.due, ~ view'.stray, LastReset(channel', 0)
               PROVE  Current(app', view'.list, view'.cursor, view'.filter)
    BY DEF ViewInv
  <2>1. kind = "more" /\ LastReset(channel, 0)
    BY <1>4, <1>6
  <2> QED BY <2>1 DEF ListInv, ViewInv
<1> QED BY <1>5, <1>7, <1>8 DEF ListInv

LEMMA ViewFields ==
  ASSUME ListInv
  PROVE  /\ view.filter \in Filters /\ view.list \in Seq(App) /\ view.cursor \in Cursors
         /\ view.stray \in BOOLEAN
BY DEF ListInv, Types, Views

LEMMA ChooseFilterKeeps ==
  ASSUME ListInv, NEW filter \in Filters, ChooseFilter(filter)
  PROVE  ListInv'
<1>1. view \in Views /\ view' = [view EXCEPT !.filter = filter, !.loading = TRUE]
  BY DEF ListInv, Types, ChooseFilter
<1>2. view' \in Views /\ view'.filter = filter
  BY <1>1 DEF Views
<1>3. None \in Cursors /\ channel' = Append(channel, ListRequest("reset", filter, None))
      /\ UNCHANGED <<app, history, clock>>
  BY DEF ChooseFilter, Requested, Cursors, database
<1> QED BY <1>2, <1>3, RequestKeeps

LEMMA RefreshKeeps == ASSUME ListInv, Refresh PROVE ListInv'
<1>1. view \in Views /\ view' = [view EXCEPT !.due = FALSE, !.loading = TRUE]
  BY DEF ListInv, Types, Refresh
<1>2. view' \in Views /\ view'.filter = view.filter /\ view.filter \in Filters
  BY <1>1 DEF Views
<1>3. None \in Cursors /\ channel' = Append(channel, ListRequest("reset", view.filter, None))
      /\ UNCHANGED <<app, history, clock>>
  BY DEF Refresh, Requested, Cursors, database
<1> QED BY <1>2, <1>3, RequestKeeps

LEMMA LoadMoreKeeps == ASSUME ListInv, LoadMore PROVE ListInv'
<1>1. view \in Views /\ view' = [view EXCEPT !.loadingMore = TRUE] /\ view.cursor # None
  BY DEF ListInv, Types, LoadMore
<1>2. /\ view' \in Views /\ view'.filter = view.filter /\ view.filter \in Filters
      /\ view'.due = view.due /\ view'.stray = view.stray /\ view'.list = view.list
      /\ view'.cursor = view.cursor
  BY <1>1 DEF Views
<1>3. /\ channel' = Append(channel, ListRequest("more", view.filter, view.cursor))
      /\ UNCHANGED <<app, history, clock>>
  BY DEF LoadMore, Requested, database
<1> QED BY <1>1, <1>2, <1>3, ViewFields, RequestKeeps


\* A request is answered with what is true of the table, or fails.
LEMMA AnswerKeeps ==
  ASSUME ListInv, NEW n \in 1..Len(channel), NEW r \in Requests, Fresh(app, r),
         r.kind = channel[n].kind, r.filter = channel[n].filter, r.cursor = channel[n].cursor,
         channel' = [channel EXCEPT ![n] = r], UNCHANGED <<app, history, clock, view>>
  PROVE  ListInv'
<1>1. channel \in Seq(Requests) /\ app \in Tables
  BY DEF ListInv, Types
<1>2. /\ channel' \in Seq(Requests) /\ Len(channel') = Len(channel) /\ channel'[n] = r
      /\ \A i \in 1..Len(channel) : i # n => channel'[i] = channel[i]
  BY <1>1
<1>3. \A i \in 1..Len(channel) : /\ channel'[i].kind = channel[i].kind
                                 /\ channel'[i].filter = channel[i].filter
                                 /\ channel'[i].cursor = channel[i].cursor
  BY <1>2
<1>4. \A i \in Nat : LastReset(channel', i) => LastReset(channel, i)
  BY <1>2, <1>3 DEF LastReset
<1>5. Types'
  BY <1>1, <1>2 DEF ListInv, Types
<1>6. ChannelInv'
  <2>1. ASSUME NEW i \in 1..Len(channel') PROVE channel'[i].kind = "reset" <=> channel'[i].cursor = None
    BY <1>2, <1>3 DEF ListInv, ChannelInv
  <2>2. ASSUME ~ view'.due, NEW i \in 1..Len(channel'), LastReset(channel', i)
        PROVE  channel'[i].filter = view'.filter /\ Fresh(app', channel'[i])
    <3>1. channel[i].filter = view.filter /\ Fresh(app, channel[i])
      BY <1>1, <1>2, <1>4, <2>2 DEF ListInv, ChannelInv
    <3>2. CASE i = n
      BY <1>1, <1>2, <3>1, <3>2
    <3>3. CASE i # n
      BY <1>1, <1>2, <2>2, <3>1, <3>3
    <3> QED BY <3>2, <3>3
  <2> QED BY <2>1, <2>2 DEF ChannelInv
<1>7. ViewInv'
  BY <1>1, <1>4 DEF ListInv, ViewInv
<1> QED BY <1>5, <1>6, <1>7 DEF ListInv

LEMMA ListKeeps ==
  ASSUME ListInv, NEW n \in Nat, ListJobApplications(n)
  PROVE  ListInv'
<1>1. PICK r : r = Answer(channel[n])
  OBVIOUS
<1>2. /\ n \in 1..Len(channel) /\ channel \in Seq(Requests) /\ channel[n] \in Requests
      /\ channel' = [channel EXCEPT ![n] = r]
      /\ UNCHANGED <<app, history, clock, view>> /\ app \in Tables
  BY <1>1 DEF ListInv, Types, ListJobApplications, database
<1>3. /\ r \in Requests /\ Fresh(app, r)
      /\ r.kind = channel[n].kind /\ r.filter = channel[n].filter /\ r.cursor = channel[n].cursor
  BY <1>1, <1>2, AnswerFacts
<1> QED BY <1>2, <1>3, AnswerKeeps

\* A request that fails has no answer to be true.
LEMMA FailKeeps ==
  ASSUME ListInv, NEW n \in Nat, ListFails(n)
  PROVE  ListInv'
<1>1. PICK r : r = [channel[n] EXCEPT !.answered = TRUE, !.failed = TRUE]
  OBVIOUS
<1>2. /\ n \in 1..Len(channel) /\ channel \in Seq(Requests) /\ channel[n] \in Requests
      /\ channel' = [channel EXCEPT ![n] = r]
      /\ UNCHANGED <<app, history, clock, view>> /\ app \in Tables
  BY <1>1 DEF ListInv, Types, ListFails, database
<1>3. /\ r \in Requests /\ Fresh(app, r)
      /\ r.kind = channel[n].kind /\ r.filter = channel[n].filter /\ r.cursor = channel[n].cursor
  BY <1>1, <1>2 DEF Requests, Fresh
<1> QED BY <1>2, <1>3, AnswerKeeps

LEMMA TailFacts ==
  ASSUME NEW q \in Seq(Requests), q # <<>>, NEW p, p = Tail(q)
  PROVE  /\ p \in Seq(Requests) /\ Len(p) = Len(q) - 1 /\ Head(q) = q[1] /\ Head(q) \in Requests
         /\ Len(q) \in Nat /\ 1 \in 1..Len(q)
         /\ \A i \in 1..Len(p) : i + 1 \in 1..Len(q) /\ p[i] = q[i + 1]
         /\ \A i \in 1..Len(q) : i > 1 => i - 1 \in 1..Len(p) /\ p[i - 1] = q[i]
OBVIOUS

\* The first request has been dealt with.
LEMMA ShownKeepsChannel ==
  ASSUME ListInv, channel # <<>>, channel' = Tail(channel), app' = app,
         view'.filter = view.filter, view'.due = view.due
  PROVE  /\ channel' \in Seq(Requests) /\ ChannelInv'
         /\ LastReset(channel', 0) => LastReset(channel, 1)
<1>1. /\ channel \in Seq(Requests)
  BY DEF ListInv, Types
<1>2. /\ channel' \in Seq(Requests) /\ Len(channel') = Len(channel) - 1
      /\ Len(channel) \in Nat
      /\ \A i \in 1..Len(channel') : i + 1 \in 1..Len(channel) /\ channel'[i] = channel[i + 1]
      /\ \A i \in 1..Len(channel) : i > 1 => i - 1 \in 1..Len(channel') /\ channel'[i - 1] = channel[i]
  BY <1>1, TailFacts
<1>3. \A i \in Nat : LastReset(channel', i) => LastReset(channel, i + 1)
  <2> SUFFICES ASSUME NEW i \in Nat, LastReset(channel', i), NEW j \in 1..Len(channel), j > i + 1
               PROVE  channel[j].kind = "more"
    BY DEF LastReset
  <2>1. j - 1 \in 1..Len(channel') /\ channel'[j - 1] = channel[j] /\ j - 1 > i
    BY <1>2
  <2> QED BY <2>1 DEF LastReset
<1>4. ChannelInv'
  <2>1. ASSUME NEW i \in 1..Len(channel') PROVE channel'[i].kind = "reset" <=> channel'[i].cursor = None
    BY <1>2 DEF ListInv, ChannelInv
  <2>2. ASSUME ~ view'.due, NEW i \in 1..Len(channel'), LastReset(channel', i)
        PROVE  channel'[i].filter = view'.filter /\ Fresh(app', channel'[i])
    <3>1. PICK j \in 1..Len(channel) : j = i + 1 /\ channel'[i] = channel[j]
      BY <1>2
    <3>2. LastReset(channel, j)
      BY <1>3, <2>2, <3>1
    <3> QED BY <2>2, <3>1, <3>2 DEF ListInv, ChannelInv
  <2> QED BY <2>1, <2>2 DEF ChannelInv
<1> QED BY <1>2, <1>3, <1>4

LEMMA ShowAnswerKeeps == ASSUME ListInv, ShowAnswer PROVE ListInv'
<1>1. PICK r : r = Head(channel)
  OBVIOUS
<1>2. PICK more \in BOOLEAN : more <=> r.kind = "more"
  OBVIOUS
<1>3. /\ channel \in Seq(Requests) /\ channel # <<>> /\ channel' = Tail(channel)
      /\ r.answered /\ ~ r.failed /\ app \in Tables
      /\ UNCHANGED <<app, history, clock>> /\ view \in Views
  BY <1>1 DEF ListInv, Types, ShowAnswer, database
<1>4. /\ channel' \in Seq(Requests) /\ Len(channel') = Len(channel) - 1
      /\ r = channel[1] /\ r \in Requests /\ Len(channel) \in Nat /\ 1 \in 1..Len(channel)
      /\ \A i \in 1..Len(channel') : i + 1 \in 1..Len(channel) /\ channel'[i] = channel[i + 1]
      /\ \A i \in 1..Len(channel) : i > 1 => i - 1 \in 1..Len(channel') /\ channel'[i - 1] = channel[i]
  BY <1>1, <1>3, TailFacts
<1>5. PICK list : list = IF r.kind = "more" THEN view.list \o r.rows ELSE r.rows
  OBVIOUS
<1>6. PICK stray : stray = (r.kind = "more" /\ (view.stray \/ r.cursor # view.cursor))
  OBVIOUS
<1>7. view' = [view EXCEPT !.list = list, !.cursor = r.next, !.stray = stray,
                           !.loading = FALSE, !.loadingMore = FALSE]
  BY <1>1, <1>5, <1>6 DEF ShowAnswer
<1>8. /\ r.rows \in Seq(App) /\ r.next \in Cursors /\ r.kind \in {"reset", "more"}
      /\ view.list \in Seq(App) /\ view.stray \in BOOLEAN
  BY <1>3, <1>4 DEF Requests, Views
<1>9. list \in Seq(App) /\ stray \in BOOLEAN
  BY <1>5, <1>6, <1>8
<1>10. /\ view' \in Views /\ view'.filter = view.filter /\ view'.due = view.due
       /\ view'.list = list /\ view'.cursor = r.next /\ view'.stray = stray
  BY <1>3, <1>7, <1>8, <1>9 DEF Views
<1>11. Types'
  BY <1>3, <1>4, <1>10 DEF ListInv, Types
<1>12. ChannelInv' /\ (LastReset(channel', 0) => LastReset(channel, 1))
  BY <1>3, <1>10, ShownKeepsChannel
<1>13. ViewInv'
  <2> SUFFICES ASSUME ~ view.due, ~ stray, LastReset(channel', 0)
               PROVE  Current(app, list, r.next, view.filter)
    BY <1>3, <1>10 DEF ViewInv
  <2>1. LastReset(channel, 1)
    BY <1>12
  <2>2. /\ r.filter = view.filter /\ Fresh(app, r)
        /\ r.kind = "reset" <=> r.cursor = None
    BY <1>4, <2>1 DEF ListInv, ChannelInv
  <2>3. /\ r.rows = Rows(app, view.filter, r.cursor)
        /\ r.next = NextCursor(app, view.filter, r.cursor)
    BY <1>3, <2>2 DEF Fresh
  <2>4. CASE r.kind = "reset"
    <3>1. list = r.rows /\ r.cursor = None
      BY <1>5, <2>2, <2>4
    <3> QED BY <1>3, <2>3, <3>1, FirstPage
  <2>5. CASE r.kind = "more"
    <3>1. list = view.list \o r.rows /\ r.cursor # None
      BY <1>5, <2>2, <2>5
    <3>2. ~ view.stray /\ r.cursor = view.cursor
      BY <1>6, <2>5
    <3>3. LastReset(channel, 0)
      BY <1>4, <2>1, <2>5 DEF LastReset
    <3>4. Current(app, view.list, r.cursor, view.filter)
      BY <3>2, <3>3 DEF ListInv, ViewInv
    <3> QED BY <1>3, <1>8, <2>3, <3>1, <3>4, NextPage
  <2> QED BY <1>8, <2>4, <2>5
<1> QED BY <1>11, <1>12, <1>13 DEF ListInv

\* The list stays the head of the table when no more of it was answered; of a
\* reload that failed nothing is said.
LEMMA ShowFailureKeeps == ASSUME ListInv, ShowFailure PROVE ListInv'
<1>1. PICK r : r = Head(channel)
  OBVIOUS
<1>2. PICK stray : stray = (view.stray \/ r.kind = "reset")
  OBVIOUS
<1>3. /\ channel \in Seq(Requests) /\ channel # <<>> /\ channel' = Tail(channel)
      /\ UNCHANGED <<app, history, clock>> /\ view \in Views
  BY DEF ListInv, Types, ShowFailure, database
<1>4. r = channel[1] /\ r \in Requests /\ Len(channel) \in Nat /\ 1 \in 1..Len(channel)
  BY <1>1, <1>3, TailFacts
<1>5. view' = [view EXCEPT !.stray = stray, !.loading = FALSE, !.loadingMore = FALSE]
  BY <1>1, <1>2 DEF ShowFailure
<1>6. stray \in BOOLEAN /\ r.kind \in {"reset", "more"}
  BY <1>2, <1>3, <1>4 DEF Requests, Views
<1>7. /\ view' \in Views /\ view'.filter = view.filter /\ view'.due = view.due
      /\ view'.list = view.list /\ view'.cursor = view.cursor /\ view'.stray = stray
  BY <1>3, <1>5, <1>6 DEF Views
<1>8. ChannelInv' /\ channel' \in Seq(Requests) /\ (LastReset(channel', 0) => LastReset(channel, 1))
  BY <1>3, <1>7, ShownKeepsChannel
<1>9. Types'
  BY <1>3, <1>7, <1>8 DEF ListInv, Types
<1>10. ViewInv'
  <2> SUFFICES ASSUME ~ view.due, ~ stray, LastReset(channel', 0)
               PROVE  Current(app, view.list, view.cursor, view.filter)
    BY <1>3, <1>7 DEF ViewInv
  <2>1. r.kind = "more" /\ ~ view.stray
    BY <1>2, <1>6
  <2>2. LastReset(channel, 0)
    BY <1>4, <1>8, <2>1 DEF LastReset
  <2> QED BY <2>1, <2>2 DEF ListInv, ViewInv
<1> QED BY <1>8, <1>9, <1>10 DEF ListInv


-----------------------------------------------------------------------------
(* Commands: the window has to read the list again *)

LEMMA CommandKeeps ==
  ASSUME ListInv, app' \in Tables, history' \in Histories, clock' \in Nat,
         \A a \in App : app'[a].at <= clock',
         view' = [view EXCEPT !.due = TRUE], channel' = channel
  PROVE  ListInv'
<1>1. view' \in Views /\ view'.due = TRUE
  BY DEF ListInv, Types, Views
<1>2. Types'
  BY <1>1 DEF ListInv, Types
<1>3. ChannelInv' /\ ViewInv'
  BY <1>1 DEF ListInv, ChannelInv, ViewInv
<1> QED BY <1>2, <1>3 DEF ListInv

\* The history of one application goes on, and its table row with it.
LEMMA RecordFacts ==
  ASSUME Types, NEW a \in App, NEW from \in Filters, NEW to \in Stage, clock' \in Nat,
         clock <= clock', app' = [app EXCEPT ![a] = [stage |-> to, at |-> clock']],
         history' = Recorded(a, from, to)
  PROVE  /\ app' \in Tables /\ history' \in Histories /\ \A b \in App : app'[b].at <= clock'
         /\ app'[a].stage = to /\ app'[a].at = clock'
         /\ history'[a] = Append(history[a], [from |-> from, to |-> to, at |-> clock'])
         /\ \A b \in App : b # a => app'[b] = app[b] /\ history'[b] = history[b]
<1> DEFINE row == [stage |-> to, at |-> clock']
           entry == [from |-> from, to |-> to, at |-> clock']
<1>1. row \in [stage : Filters, at : Nat] /\ row.stage = to /\ row.at = clock'
  BY DEF Filters
<1>2. entry \in Entries
  BY DEF Entries
<1>3. /\ app \in Tables /\ history \in Histories /\ app' = [app EXCEPT ![a] = row]
      /\ history' = [history EXCEPT ![a] = Append(history[a], entry)]
  BY DEF Types, Recorded
<1> HIDE DEF row, entry
<1>4. Append(history[a], entry) \in Seq(Entries)
  <2>1. history[a] \in Seq(Entries)
    BY <1>3 DEF Histories
  <2> QED BY <1>2, <2>1
<1>5. app' \in Tables /\ app'[a] = row /\ \A b \in App : b # a => app'[b] = app[b]
  BY <1>1, <1>3 DEF Tables
<1>6. /\ history' \in Histories /\ history'[a] = Append(history[a], entry)
      /\ \A b \in App : b # a => history'[b] = history[b]
  BY <1>3, <1>4 DEF Histories
<1>7. \A b \in App : app[b].at \in Nat /\ app[b].at <= clock /\ clock \in Nat
  BY <1>3, KeyFields DEF Types
<1>8. ASSUME NEW b \in App PROVE app'[b].at <= clock'
  BY <1>1, <1>5, <1>7
<1> QED BY <1>1, <1>5, <1>6, <1>8 DEF entry

LEMMA ClockGoes == ASSUME ListInv, Changes PROVE clock' \in Nat /\ clock <= clock'
BY JobBounds DEF ListInv, Types, Changes

LEMMA CreateFacts ==
  ASSUME ListInv, NEW a \in App, NEW s \in Stage, CreateJobApplication(a, s)
  PROVE  /\ app[a].stage = None /\ app' = [app EXCEPT ![a] = [stage |-> s, at |-> clock']]
         /\ history' = Recorded(a, None, s) /\ None \in Filters
BY DEF CreateJobApplication, Filters

LEMMA TransitionFacts ==
  ASSUME ListInv, NEW a \in App, NEW s \in Stage, TransitionJobApplication(a, s)
  PROVE  /\ app[a].stage # None /\ app' = [app EXCEPT ![a] = [stage |-> s, at |-> clock']]
         /\ history' = Recorded(a, app[a].stage, s) /\ app[a].stage \in Filters
BY KeyFields DEF TransitionJobApplication, ListInv, Types

LEMMA UpdateFacts ==
  ASSUME ListInv, NEW a \in App, UpdateJobApplication(a)
  PROVE  /\ app' \in Tables /\ app'[a].stage = app[a].stage /\ app'[a].at = clock'
         /\ \A b \in App : b # a => app'[b] = app[b]
         /\ history' = history /\ clock' \in Nat /\ clock <= clock'
         /\ \A b \in App : app'[b].at <= clock'
<1> DEFINE row == [app[a] EXCEPT !.at = clock']
<1>1. clock' \in Nat /\ clock <= clock' /\ clock \in Nat /\ app \in Tables
  BY ClockGoes DEF UpdateJobApplication, ListInv, Types
<1>2. row \in [stage : Filters, at : Nat] /\ row.stage = app[a].stage /\ row.at = clock'
  BY <1>1 DEF Tables
<1>3. app' = [app EXCEPT ![a] = row] /\ history' = history
  BY DEF UpdateJobApplication
<1> HIDE DEF row
<1>4. app' \in Tables /\ app'[a] = row /\ \A b \in App : b # a => app'[b] = app[b]
  BY <1>1, <1>2, <1>3 DEF Tables
<1>5. \A b \in App : app[b].at \in Nat /\ app[b].at <= clock
  BY <1>1, KeyFields DEF ListInv, Types
<1> QED BY <1>1, <1>2, <1>3, <1>4, <1>5

LEMMA StageCommandKeeps == ASSUME ListInv, StageCommand PROVE ListInv'
<1>1. PICK s \in Stage :
        \/ \E terminal, archived \in BOOLEAN : \/ CreateApplicationStage(s, terminal, archived)
                                               \/ UpdateApplicationStage(s, terminal, archived)
        \/ \E to \in Stage, allowed \in BOOLEAN : SetApplicationStageTransition(s, to, allowed)
  BY DEF StageCommand
<1>2. Edits /\ UNCHANGED <<app, history>>
  BY <1>1 DEF CreateApplicationStage, UpdateApplicationStage, SetApplicationStageTransition
<1>3. view' = [view EXCEPT !.due = TRUE] /\ UNCHANGED <<clock, channel>>
  BY <1>2 DEF Edits
<1>4. app \in Tables /\ history \in Histories /\ clock \in Nat /\ \A a \in App : app[a].at <= clock
  BY DEF ListInv, Types
<1> QED BY <1>2, <1>3, <1>4, CommandKeeps

LEMMA ApplicationCommandKeeps == ASSUME ListInv, ApplicationCommand PROVE ListInv'
<1>1. PICK a \in App :
        \/ UpdateJobApplication(a)
        \/ \E s \in Stage : CreateJobApplication(a, s) \/ TransitionJobApplication(a, s)
  BY DEF ApplicationCommand
<1>2. Changes
  BY <1>1 DEF UpdateJobApplication, CreateJobApplication, TransitionJobApplication
<1>3. view' = [view EXCEPT !.due = TRUE] /\ channel' = channel
  BY <1>2 DEF Changes
<1>4. clock' \in Nat /\ clock <= clock' /\ Types
  BY <1>2, ClockGoes DEF ListInv
<1>5. app' \in Tables /\ history' \in Histories /\ \A b \in App : app'[b].at <= clock'
  <2>1. CASE UpdateJobApplication(a)
    BY <1>4, <2>1, UpdateFacts DEF Types
  <2>2. ASSUME NEW s \in Stage, CreateJobApplication(a, s)
        PROVE  app' \in Tables /\ history' \in Histories /\ \A b \in App : app'[b].at <= clock'
    BY <1>4, <2>2, CreateFacts, RecordFacts
  <2>3. ASSUME NEW s \in Stage, TransitionJobApplication(a, s)
        PROVE  app' \in Tables /\ history' \in Histories /\ \A b \in App : app'[b].at <= clock'
    BY <1>4, <2>3, TransitionFacts, RecordFacts
  <2> QED BY <1>1, <2>1, <2>2, <2>3
<1> QED BY <1>3, <1>4, <1>5, CommandKeeps

LEMMA NextKeeps == ListInv /\ [Next]_vars => ListInv'
<1> SUFFICES ASSUME ListInv, [Next]_vars PROVE ListInv'
  OBVIOUS
<1>1. CASE StageCommand \/ ApplicationCommand
  BY <1>1, StageCommandKeeps, ApplicationCommandKeeps
<1>2. CASE Window
  BY <1>2, ChooseFilterKeeps, RefreshKeeps, LoadMoreKeeps, ShowAnswerKeeps, ShowFailureKeeps
     DEF Window, Filters
<1>3. CASE \E i \in 1..MaxRequests : ListJobApplications(i) \/ ListFails(i)
  BY <1>3, JobBounds, ListKeeps, FailKeeps
<1>4. CASE UNCHANGED vars
  <2>1. UNCHANGED <<app, history, clock, view, channel>>
    BY <1>4 DEF vars
  <2>2. Types'
    BY <2>1 DEF ListInv, Types
  <2>3. ChannelInv' /\ ViewInv'
    BY <2>1 DEF ListInv, ChannelInv, ViewInv, LastReset
  <2> QED BY <2>2, <2>3 DEF ListInv
<1> QED BY <1>1, <1>2, <1>3, <1>4 DEF Next

LEMMA InitHolds == Init => ListInv
<1> SUFFICES ASSUME Init PROVE ListInv
  OBVIOUS
<1>1. None \in Filters /\ None \in Cursors /\ <<>> \in Seq(App)
  BY DEF Filters, Cursors
<1>2. view \in Views /\ view.due = TRUE
  BY <1>1 DEF Init, Views
<1>3. app \in Tables /\ \A a \in App : app[a].at = 0
  BY <1>1 DEF Init, Tables
<1>4. history \in Histories
  BY DEF Init, Histories
<1>5. clock = 1 /\ channel = <<>>
  BY DEF Init
<1>6. Types
  BY <1>2, <1>3, <1>4, <1>5 DEF Types
<1>7. ChannelInv /\ ViewInv
  BY <1>2, <1>5 DEF ChannelInv, ViewInv
<1> QED BY <1>6, <1>7 DEF ListInv

\* The list of the window, the answers on their way to it and the table agree,
\* as long as no command has changed the table since the last reload
\* (listJobApplications, loadApplications).
THEOREM ListsAgree == Spec => []ListInv
<1> QED BY InitHolds, NextKeeps, PTL DEF Spec

\* Once nothing is loading, the list of the window is the head of the ordered
\* table, without gap or repetition, and all of it when no more are offered,
\* however many pages it was read in and whatever changed in between, unless
\* it got a page that continues another list or its reload failed
\* (listJobApplications, loadApplications).
THEOREM ListsArePrefixes == Spec => []ListIsPrefix
<1>1. ListInv => ListIsPrefix
  <2> SUFFICES ASSUME ListInv, channel = <<>>, ~ view.due, ~ view.stray
               PROVE  LET all == Ordered(Matching(view.filter))
                      IN  /\ view.list = SubSeq(all, 1, Len(view.list))
                          /\ view.cursor = None => Len(view.list) = Len(all)
    BY DEF ListIsPrefix
  <2> DEFINE S == Chosen(app, view.filter)
             all == Sorted(app, S)
  <2>1. LastReset(channel, 0)
    BY DEF LastReset
  <2>2. Current(app, view.list, view.cursor, view.filter)
    BY <2>1 DEF ListInv, ViewInv
  <2>3. all = Ordered(Matching(view.filter))
    BY QueryFacts
  <2>4. all \in Seq(App) /\ view.list \in Seq(App)
    BY ViewFields, ChosenRest, SortedFacts DEF ListInv, Types
  <2>5. /\ Len(view.list) <= Len(all)
        /\ \A i \in 1..Len(view.list) : view.list[i] = all[i]
        /\ view.cursor = None => Len(view.list) = Len(all)
    BY <2>2 DEF Current
  <2> HIDE DEF all
  <2>6. view.list = SubSeq(all, 1, Len(view.list))
    BY <2>4, <2>5
  <2> QED BY <2>3, <2>5, <2>6
<1> QED BY <1>1, ListsAgree, PTL

-----------------------------------------------------------------------------
(* The history *)

Path(a) ==
  LET h == history[a]
  IN  IF app[a].stage = None
      THEN h = <<>>
      ELSE /\ h # <<>> /\ h[1].from = None /\ h[Len(h)].to = app[a].stage
           /\ \A i \in 2..Len(h) : h[i].from = h[i - 1].to /\ h[i - 1].at <= h[i].at
           /\ h[Len(h)].at <= app[a].at

LEMMA PathMeans == HistoryIsPath <=> \A a \in App : Path(a)
BY DEF HistoryIsPath, Path, Last

\* A stage is entered: its row goes to the end of the history.
LEMMA PathGoesOn ==
  ASSUME Types, NEW a \in App, NEW from \in Filters, NEW to \in Stage, clock' \in Nat,
         clock <= clock', from = app[a].stage, Path(a),
         app'[a].stage = to, app'[a].at = clock',
         history'[a] = Append(history[a], [from |-> from, to |-> to, at |-> clock'])
  PROVE  Path(a)'
<1>1. PICK h : h = history[a]
  OBVIOUS
<1>2. PICK e : e = [from |-> from, to |-> to, at |-> clock']
  OBVIOUS
<1>3. PICK g : g = Append(h, e)
  OBVIOUS
<1>4. h \in Seq(Entries)
  BY <1>1 DEF Types, Histories
<1>5. e \in Entries /\ e.from = from /\ e.to = to /\ e.at = clock'
  BY <1>2 DEF Entries
<1>6. /\ g # <<>> /\ Len(g) = Len(h) + 1 /\ Len(h) \in Nat /\ g[Len(h) + 1] = e
      /\ \A i \in 1..Len(h) : g[i] = h[i]
  BY ONLY <1>3, <1>4, <1>5
<1>7. to # None
  BY NoneIsNoValue
<1>8. history'[a] = g /\ app'[a].stage = to /\ app'[a].at = clock'
  BY <1>1, <1>2, <1>3
<1>9. CASE from = None
  <2>1. h = <<>>
    BY <1>1, <1>9 DEF Path
  <2>2. Len(g) = 1 /\ g[1] = e
    BY <1>6, <2>1
  <2> QED BY <1>5, <1>6, <1>7, <1>8, <1>9, <2>2 DEF Path
<1>10. CASE from # None
  <2>1. /\ h # <<>> /\ h[1].from = None /\ h[Len(h)].to = from
        /\ \A i \in 2..Len(h) : h[i].from = h[i - 1].to /\ h[i - 1].at <= h[i].at
        /\ h[Len(h)].at <= app[a].at
    BY <1>1, <1>10 DEF Path
  <2>2. Len(h) >= 1 /\ h[Len(h)].at \in Nat
    <3>1. Len(h) >= 1 /\ Len(h) \in 1..Len(h)
      BY <1>4, <1>6, <2>1
    <3>2. h[Len(h)] \in Entries
      BY <1>4, <3>1
    <3> QED BY <3>1, <3>2 DEF Entries
  <2>3. h[Len(h)].at <= clock'
    <3>1. app[a].at \in Nat /\ app[a].at <= clock /\ clock \in Nat
      BY KeyFields DEF Types
    <3> QED BY <2>1, <2>2, <3>1
  <2>4. ASSUME NEW i \in 2..Len(g) PROVE g[i].from = g[i - 1].to /\ g[i - 1].at <= g[i].at
    <3>1. CASE i \in 2..Len(h)
      <4>1. g[i] = h[i] /\ g[i - 1] = h[i - 1]
        BY <1>6, <3>1
      <4> QED BY <2>1, <3>1, <4>1
    <3>2. CASE i \notin 2..Len(h)
      <4>1. i = Len(h) + 1 /\ i - 1 = Len(h)
        BY <1>6, <2>2, <3>2
      <4>2. g[i] = e /\ g[i - 1] = h[Len(h)]
        BY <1>6, <2>2, <4>1
      <4> QED BY <1>5, <2>1, <2>3, <4>2
    <3> QED BY <3>1, <3>2
  <2>5. g[1].from = None /\ g[Len(g)] = e
    BY <1>6, <2>1, <2>2
  <2>6. g[Len(g)].to = to /\ g[Len(g)].at = clock' /\ clock' <= clock'
    BY <1>5, <2>5
  <2> QED BY <1>6, <1>7, <1>8, <2>4, <2>5, <2>6 DEF Path
<1> QED BY <1>9, <1>10

LEMMA PathStays ==
  ASSUME NEW a \in App, Path(a), app \in Tables, history'[a] = history[a],
         app'[a].stage = app[a].stage, app[a].at <= app'[a].at, app'[a].at \in Nat,
         history \in Histories
  PROVE  Path(a)'
<1>1. PICK h : h = history[a] /\ h = history'[a]
  OBVIOUS
<1>2. h \in Seq(Entries) /\ app[a].at \in Nat
  BY <1>1, KeyFields DEF Histories
<1>3. CASE app[a].stage = None
  BY <1>1, <1>3 DEF Path
<1>4. CASE app[a].stage # None
  <2>1. /\ h # <<>> /\ h[1].from = None /\ h[Len(h)].to = app[a].stage
        /\ \A i \in 2..Len(h) : h[i].from = h[i - 1].to /\ h[i - 1].at <= h[i].at
        /\ h[Len(h)].at <= app[a].at
    BY <1>1, <1>4 DEF Path
  <2>2. Len(h) \in 1..Len(h)
    BY <1>2, <2>1
  <2>3. h[Len(h)].at \in Nat
    <3>1. h[Len(h)] \in Entries
      BY <1>2, <2>2
    <3> QED BY <3>1 DEF Entries
  <2>4. h[Len(h)].at <= app'[a].at
    BY <1>2, <2>1, <2>3
  <2> QED BY <1>1, <1>4, <2>1, <2>4 DEF Path
<1> QED BY <1>3, <1>4

LEMMA PathNext ==
  ASSUME ListInv, [Next]_vars, NEW a \in App, Path(a)
  PROVE  Path(a)'
<1>1. /\ Types /\ app \in Tables /\ history \in Histories
      /\ app[a].at \in Nat /\ app[a].at <= clock /\ clock \in Nat
  BY KeyFields DEF ListInv, Types
<1>2. CASE app'[a] = app[a] /\ history'[a] = history[a]
  BY <1>1, <1>2, PathStays
<1>3. CASE ApplicationCommand
  <2>1. PICK b \in App :
          \/ UpdateJobApplication(b)
          \/ \E s \in Stage : CreateJobApplication(b, s) \/ TransitionJobApplication(b, s)
    BY <1>3 DEF ApplicationCommand
  <2>2. clock' \in Nat /\ clock <= clock'
    BY <2>1, ClockGoes DEF UpdateJobApplication, CreateJobApplication, TransitionJobApplication
  <2>3. CASE UpdateJobApplication(b)
    <3>1. CASE a = b
      <4>1. app'[a].stage = app[a].stage /\ app'[a].at = clock' /\ history'[a] = history[a]
        BY <2>3, <3>1, UpdateFacts
      <4>2. app[a].at <= app'[a].at /\ app'[a].at \in Nat
        BY <1>1, <2>2, <4>1
      <4> QED BY <1>1, <4>1, <4>2, PathStays
    <3>2. CASE a # b
      BY <1>2, <2>3, <3>2, UpdateFacts
    <3> QED BY <3>1, <3>2
  <2>4. ASSUME NEW s \in Stage, NEW from \in Filters, from = app[b].stage,
               app' = [app EXCEPT ![b] = [stage |-> s, at |-> clock']],
               history' = Recorded(b, from, s)
        PROVE  Path(a)'
    <3>1. /\ app'[b].stage = s /\ app'[b].at = clock'
          /\ history'[b] = Append(history[b], [from |-> from, to |-> s, at |-> clock'])
          /\ \A c \in App : c # b => app'[c] = app[c] /\ history'[c] = history[c]
      BY <1>1, <2>2, <2>4, RecordFacts
    <3>2. CASE a = b
      BY <1>1, <2>2, <2>4, <3>1, <3>2, PathGoesOn
    <3>3. CASE a # b
      BY <1>2, <3>1, <3>3
    <3> QED BY <3>2, <3>3
  <2>5. ASSUME NEW s \in Stage, CreateJobApplication(b, s) PROVE Path(a)'
    BY <2>4, <2>5, CreateFacts
  <2>6. ASSUME NEW s \in Stage, TransitionJobApplication(b, s) PROVE Path(a)'
    BY <2>4, <2>6, TransitionFacts
  <2> QED BY <2>1, <2>3, <2>5, <2>6
<1>4. CASE StageCommand
  BY <1>2, <1>4 DEF StageCommand, CreateApplicationStage, UpdateApplicationStage,
                    SetApplicationStageTransition
<1>5. CASE Window \/ \E i \in 1..MaxRequests : ListJobApplications(i) \/ ListFails(i)
  BY <1>2, <1>5 DEF Window, ChooseFilter, Refresh, LoadMore, ShowAnswer, ShowFailure,
                    ListJobApplications, ListFails, database
<1>6. CASE UNCHANGED vars
  BY <1>2, <1>6 DEF vars
<1> QED BY <1>3, <1>4, <1>5, <1>6 DEF Next

\* The history that createJobApplication and transitionJobApplication write
\* leads from the creation of an application to its stage, each row from where
\* the last one went to and not before it, whatever was done to the stages and
\* transitions meanwhile.
THEOREM HistoriesArePaths == Spec => []HistoryIsPath
<1>1. Init => HistoryIsPath
  <2> SUFFICES ASSUME Init, NEW a \in App PROVE Path(a)
    BY PathMeans
  <2>1. app[a].stage = None /\ history[a] = <<>>
    BY DEF Init
  <2> QED BY <2>1 DEF Path
<1>2. ListInv /\ HistoryIsPath /\ [Next]_vars => HistoryIsPath'
  <2> SUFFICES ASSUME ListInv, \A a \in App : Path(a), [Next]_vars PROVE HistoryIsPath'
    BY PathMeans
  <2>1. \A a \in App : Path(a)'
    BY PathNext
  <2> QED BY <2>1 DEF HistoryIsPath, Path, Last
<1> QED BY <1>1, <1>2, ListsAgree, PTL DEF Spec
=============================================================================

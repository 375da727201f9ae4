----------------------------- MODULE TracingProofs ----------------------------
(***************************************************************************)
(* Proofs about modules BiMap and Tracing: every operation of a BiMap      *)
(* leaves a bijection of a bijection, for any keys and values, so the      *)
(* tables of C++ traces are bijections whatever the threads do; the stack  *)
(* that all threads share holds the open traces, each thread's in their    *)
(* order, except where Python's traces overlap, and is never empty while   *)
(* there is one; and a trace that no other one disturbs stands for its     *)
(* function.                                                               *)
(***************************************************************************)
EXTENDS Tracing, SequenceTheorems, FiniteSetTheorems, WellFoundedInduction,
        TLAPS

-------------------------------------------------------------------------------
(***************************************************************************)
(* The operations of BiMap.                                                *)
(***************************************************************************)
\* A pair of which neither part is there yet is added to both maps.
LEMMA LinkKeeps ==
  ASSUME NEW m, IsBijection(m), NEW k, NEW v, ~HasKey(m, k), ~HasValue(m, v)
  PROVE  IsBijection(Link(m, k, v))
<1> DEFINE l == Link(m, k, v)
<1>1. /\ DOMAIN l.key_to_value_ = {k} \cup DOMAIN m.key_to_value_
      /\ l.key_to_value_[k] = v
      /\ \A x \in DOMAIN m.key_to_value_ :
           l.key_to_value_[x] = m.key_to_value_[x]
  BY DEF Link, With, HasKey
<1>2. /\ DOMAIN l.value_to_key_ = {v} \cup DOMAIN m.value_to_key_
      /\ l.value_to_key_[v] = k
      /\ \A x \in DOMAIN m.value_to_key_ :
           l.value_to_key_[x] = m.value_to_key_[x]
  BY DEF Link, With, HasValue
<1> HIDE DEF l
<1> QED BY <1>1, <1>2 DEF l, IsBijection, HasKey, HasValue

\* A key leaves together with its value.
LEMMA WithoutKeeps ==
  ASSUME NEW m, IsBijection(m), NEW k, HasKey(m, k),
         NEW n, n = [key_to_value_ |-> Without(m.key_to_value_, k),
                     value_to_key_ |-> Without(m.value_to_key_,
                                               m.key_to_value_[k])]
  PROVE  IsBijection(n) /\ ~HasKey(n, k) /\ ~HasValue(n, m.key_to_value_[k])
<1>1. /\ DOMAIN n.key_to_value_ = DOMAIN m.key_to_value_ \ {k}
      /\ \A x \in DOMAIN n.key_to_value_ :
           n.key_to_value_[x] = m.key_to_value_[x]
  BY DEF Without
<1>2. /\ DOMAIN n.value_to_key_ = DOMAIN m.value_to_key_ \ {m.key_to_value_[k]}
      /\ \A x \in DOMAIN n.value_to_key_ :
           n.value_to_key_[x] = m.value_to_key_[x]
  BY DEF Without
<1> QED BY <1>1, <1>2 DEF IsBijection, HasKey, HasValue

\* Insert refuses what would not be a bijection.
LEMMA InsertKeeps ==
  ASSUME NEW m, IsBijection(m), NEW k, NEW v
  PROVE  LET changed == Insert(m, k, v)
         IN IsBijection(changed.map) /\ (changed.done \/ changed.map = m)
  BY LinkKeeps DEF Insert, Refused, Done

\* Upsert takes the stale entry out before it links the new pair: of a pair, at
\* most one part is there.
LEMMA UpsertKeeps ==
  ASSUME NEW m, IsBijection(m), NEW k, NEW v
  PROVE  LET changed == Upsert(m, k, v)
         IN IsBijection(changed.map) /\ (changed.done \/ changed.map = m)
<1>1. CASE HasKey(m, k) /\ HasValue(m, v)
  BY <1>1 DEF Upsert, Refused
<1> DEFINE n == Unlink(m, k, v)
           l == Link(n, k, v)
<1>2. CASE ~HasKey(m, k) /\ ~HasValue(m, v)
  <2>1. n = [key_to_value_ |-> m.key_to_value_, value_to_key_ |-> m.value_to_key_]
    BY <1>2 DEF Unlink
  <2>2. IsBijection(n) /\ ~HasKey(n, k) /\ ~HasValue(n, v)
    BY <1>2, <2>1 DEF IsBijection, HasKey, HasValue
  <2>3. IsBijection(l)
    BY <2>2, LinkKeeps
  <2> QED BY <1>2, <2>3 DEF Upsert, Done
<1>3. CASE HasKey(m, k) /\ ~HasValue(m, v)
  <2> DEFINE old == m.key_to_value_[k]
  <2>1. old # v /\ HasValue(m, old)
    BY <1>3 DEF IsBijection, HasKey
  <2>2. n = [key_to_value_ |-> m.key_to_value_,
             value_to_key_ |-> Without(m.value_to_key_, old)]
    BY <1>3, <2>1 DEF Unlink
  <2>3. /\ DOMAIN l.key_to_value_ = DOMAIN m.key_to_value_
        /\ l.key_to_value_[k] = v
        /\ \A x \in DOMAIN m.key_to_value_ \ {k} :
             l.key_to_value_[x] = m.key_to_value_[x]
    BY <1>3, <2>2 DEF Link, With, HasKey
  <2>4. /\ DOMAIN l.value_to_key_ = (DOMAIN m.value_to_key_ \ {old}) \cup {v}
        /\ l.value_to_key_[v] = k
        /\ \A y \in DOMAIN m.value_to_key_ \ {old} :
             l.value_to_key_[y] = m.value_to_key_[y]
    BY <1>3, <2>2 DEF Link, With, Without, HasValue
  <2> HIDE DEF l, n
  <2>5. IsBijection(l)
    BY <1>3, <2>1, <2>3, <2>4 DEF IsBijection, HasKey, HasValue
  <2> QED BY <1>3, <2>5 DEF Upsert, Done, l, n
<1>4. CASE ~HasKey(m, k) /\ HasValue(m, v)
  <2> DEFINE old == m.value_to_key_[v]
  <2>1. old # k /\ HasKey(m, old)
    BY <1>4 DEF IsBijection, HasValue
  <2>2. n = [key_to_value_ |-> Without(m.key_to_value_, old),
             value_to_key_ |-> m.value_to_key_]
    BY <1>4, <2>1 DEF Unlink
  <2>3. /\ DOMAIN l.key_to_value_ = (DOMAIN m.key_to_value_ \ {old}) \cup {k}
        /\ l.key_to_value_[k] = v
        /\ \A x \in DOMAIN m.key_to_value_ \ {old} :
             l.key_to_value_[x] = m.key_to_value_[x]
    BY <1>4, <2>2 DEF Link, With, Without, HasKey
  <2>4. /\ DOMAIN l.value_to_key_ = DOMAIN m.value_to_key_
        /\ l.value_to_key_[v] = k
        /\ \A y \in DOMAIN m.value_to_key_ \ {v} :
             l.value_to_key_[y] = m.value_to_key_[y]
    BY <1>4, <2>2 DEF Link, With, HasValue
  <2> HIDE DEF l, n
  <2>5. IsBijection(l)
    BY <1>4, <2>1, <2>3, <2>4 DEF IsBijection, HasKey, HasValue
  <2> QED BY <1>4, <2>5 DEF Upsert, Done, l, n
<1> QED BY <1>1, <1>2, <1>3, <1>4

\* RemoveByKey removes the pair of a key.
LEMMA RemoveByKeyKeeps ==
  ASSUME NEW m, IsBijection(m), NEW k
  PROVE  LET changed == RemoveByKey(m, k)
         IN IsBijection(changed.map) /\ (changed.done \/ changed.map = m)
  BY WithoutKeeps DEF RemoveByKey, Refused, Done

\* RemoveByValue removes the pair of a value, which is that of its key.
LEMMA RemoveByValueKeeps ==
  ASSUME NEW m, IsBijection(m), NEW v
  PROVE  LET changed == RemoveByValue(m, v)
         IN IsBijection(changed.map) /\ (changed.done \/ changed.map = m)
<1>1. CASE HasValue(m, v)
  <2>1. HasKey(m, m.value_to_key_[v]) /\ m.key_to_value_[m.value_to_key_[v]] = v
    BY <1>1 DEF IsBijection, HasValue
  <2> QED BY <1>1, <2>1, WithoutKeeps DEF RemoveByValue, Done
<1>2. CASE ~HasValue(m, v)
  BY <1>2 DEF RemoveByValue, Refused
<1> QED BY <1>1, <1>2
-------------------------------------------------------------------------------
(***************************************************************************)
(* The tables of the traces.                                               *)
(***************************************************************************)
TablesInv ==
  /\ table = [c \in Contexts |-> table[c]]
  /\ language = "cpp" => \A c \in Contexts : IsBijection(table[c])

\* The tables start empty.
LEMMA InitTables == Init => TablesInv
  BY DEF Init, TablesInv, IsBijection, Empty

\* Only Enter changes a table, and in C++ with Insert.
LEMMA NextTables == ASSUME TablesInv, [Next]_vars PROVE TablesInv'
<1>1. ASSUME NEW t \in Threads, Enter(t)
      PROVE  TablesInv'
  <2> DEFINE d == work[t].context
             n == work[t].name
             ir == NextValue(t).ir
  <2>1. /\ table' = [table EXCEPT ![d] = Entered(@, n, ir)]
        /\ language' = language
    BY <1>1 DEF Enter, stackVars
  <2> HIDE DEF d, n, ir
  <2>2. table' = [c \in Contexts |-> table'[c]]
    BY <2>1 DEF TablesInv
  <2>3. ASSUME language = "cpp", NEW c \in Contexts
        PROVE  IsBijection(table'[c])
    <3>1. IsBijection(table[c])
      BY <2>3 DEF TablesInv
    <3>2. CASE c = d
      <4>1. table'[c] = Insert(table[c], n, ir).map
        BY <2>1, <2>3, <3>2 DEF TablesInv, Entered
      <4> QED BY <3>1, <4>1, InsertKeeps
    <3>3. CASE c # d
      <4>1. table'[c] = table[c]
        BY <2>1, <3>3 DEF TablesInv
      <4> QED BY <3>1, <4>1
    <3> QED BY <3>2, <3>3
  <2> QED BY <2>1, <2>2, <2>3 DEF TablesInv
<1>2. ASSUME NEW t \in Threads, ThreadNext(t), ~Enter(t)
      PROVE  UNCHANGED <<table, language>>
  BY <1>2 DEF ThreadNext, append_nested_context, call, embed, StartWork,
              KeepReference, ReuseName, MakeName, ReturnCall, ReplaceCall,
              ReturnReference, RemoveNestedContext, remove_nested_context, pop,
              PopContext, RemoveFails, Closed, stackVars
<1>3. CASE UNCHANGED <<table, language>>
  BY <1>3 DEF TablesInv
<1> QED BY <1>1, <1>2, <1>3 DEF Next, vars, stackVars

\* The two maps of a C++ context are inverses of each other at every moment,
\* for any number of threads, contexts and computations, and any operation of
\* BiMap would leave them so (bi_map.h).
THEOREM TablesSound == Spec => []TablesAreInverse
<1>1. TablesInv => TablesAreInverse
  <2> SUFFICES ASSUME TablesInv, language = "cpp", NEW c \in Contexts
               PROVE  LET m == table[c] IN
                 /\ IsBijection(m)
                 /\ \A n, ir :
                      \A changed \in {Insert(m, n, ir), Upsert(m, n, ir),
                                      RemoveByKey(m, n), RemoveByValue(m, ir)} :
                        IsBijection(changed.map)
                          /\ (changed.done \/ changed.map = m)
    BY DEF TablesAreInverse
  <2>1. IsBijection(table[c])
    BY DEF TablesInv
  <2> QED BY <2>1, InsertKeeps, UpsertKeeps, RemoveByKeyKeeps,
             RemoveByValueKeeps
<1>2. TablesInv /\ [Next]_vars => TablesInv'
  BY NextTables
<1> QED BY InitTables, <1>1, <1>2, PTL DEF Spec
-------------------------------------------------------------------------------
(***************************************************************************)
(* The stack of contexts. Contexts are numbered as they are pushed, so the *)
(* stack ascends, and so do the traces of a thread, which are nobody       *)
(* else's, and are on it unless Python's traces overlap. Even then nobody  *)
(* removes more contexts than it pushed.                                   *)
(***************************************************************************)
Ascends(s) == \A m, n \in 1 .. Len(s) : m < n => s[m] < s[n]
Within(s, r) == \A n \in 1 .. Len(s) : \E j \in 1 .. Len(r) : r[j] = s[n]
Apart(s, r) == \A m \in 1 .. Len(s), n \in 1 .. Len(r) : s[m] # r[n]
Below(s, x) == \A n \in 1 .. Len(s) : s[n] < x

Undisturbed == language = "cpp" \/ ~overlapped

Opened == {c \in 0 .. pushed :
             \E t \in Threads : \E n \in 1 .. Len(open[t]) : open[t][n] = c}

StackInv ==
  /\ pushed \in Nat
  /\ stack \in Seq(Nat) /\ Ascends(stack) /\ Below(stack, pushed + 1)
  /\ open \in [Threads -> Seq(Nat)]
  /\ \A t \in Threads : Ascends(open[t]) /\ Below(open[t], pushed + 1)
  /\ Undisturbed => \A t \in Threads : Within(open[t], stack)
  /\ Cardinality(Opened) <= Len(stack)
  /\ \A t \in leaving : t \in Threads /\ language = "python" /\ Tracing(t)
  /\ \A t \in Threads : \A u \in Threads \ {t} : Apart(open[t], open[u])
  /\ ~overlapped =>
       \E t \in Threads : /\ stack = open[t]
                          /\ \A u \in Threads \ {t} : open[u] = <<>>

\* A context that was pushed comes last.
LEMMA Pushing ==
  ASSUME NEW s \in Seq(Nat), NEW x \in Nat, Ascends(s), Below(s, x)
  PROVE  /\ Append(s, x) \in Seq(Nat) /\ Ascends(Append(s, x))
         /\ Below(Append(s, x), x + 1)
         /\ Len(Append(s, x)) = Len(s) + 1 /\ Append(s, x)[Len(s) + 1] = x
         /\ \A n \in 1 .. Len(s) : Append(s, x)[n] = s[n]
<1>1. /\ Append(s, x) \in Seq(Nat) /\ Len(Append(s, x)) = Len(s) + 1
      /\ Append(s, x)[Len(s) + 1] = x
      /\ \A n \in 1 .. Len(s) : Append(s, x)[n] = s[n]
      /\ \A n \in 1 .. Len(s) : s[n] \in Nat
  BY AppendProperties, ElementOfSeq
<1>2. \A n \in 1 .. Len(Append(s, x)) : n = Len(s) + 1 \/ n \in 1 .. Len(s)
  BY <1>1
<1> DEFINE a == Append(s, x)
<1> HIDE DEF a
<1>3. Ascends(a)
  BY <1>1, <1>2 DEF Ascends, Below, a
<1>4. Below(a, x + 1)
  BY <1>1, <1>2 DEF Below, a
<1> QED BY <1>1, <1>3, <1>4 DEF a

\* A context that is removed was last.
LEMMA Popping ==
  ASSUME NEW s \in Seq(Nat), s # <<>>, Ascends(s)
  PROVE  /\ Front(s) \in Seq(Nat) /\ Ascends(Front(s))
         /\ Len(Front(s)) = Len(s) - 1 /\ Len(s) \in 1 .. Len(s)
         /\ \A n \in 1 .. Len(Front(s)) :
              Front(s)[n] = s[n] /\ n \in 1 .. Len(s) /\ s[n] # Last(s)
         /\ \A n \in 1 .. Len(s) :
              n \in 1 .. Len(Front(s)) \/ s[n] = Last(s)
<1>1. Len(s) \in Nat /\ Len(s) # 0 /\ \A n \in 1 .. Len(s) : s[n] \in Nat
  BY EmptySeq, ElementOfSeq
<1> DEFINE k == Len(s) - 1
<1>2. k \in Nat /\ k + 1 = Len(s) /\ \A n \in 1 .. k : n \in 1 .. Len(s) /\ n < Len(s)
  BY <1>1
<1>3. /\ SubSeq(s, 1, k) \in Seq(Nat) /\ Len(SubSeq(s, 1, k)) = k
      /\ \A n \in 1 .. k : SubSeq(s, 1, k)[n] = s[n]
  BY <1>1, <1>2, SubSeqProperties
<1>4. Front(s) = SubSeq(s, 1, k) /\ Last(s) = s[Len(s)]
  BY DEF Front, Last
<1> HIDE DEF k
<1> DEFINE f == Front(s)
<1>5. /\ f \in Seq(Nat) /\ Len(f) = k /\ \A n \in 1 .. k : f[n] = s[n]
  BY <1>3, <1>4
<1> HIDE DEF f
<1>6. Ascends(f)
  BY <1>2, <1>5 DEF Ascends
<1>7. \A n \in 1 .. k : s[n] # Last(s)
  BY <1>1, <1>2, <1>4 DEF Ascends
<1>8. \A n \in 1 .. Len(s) : n \in 1 .. k \/ n = Len(s)
  BY <1>1, <1>2
<1>9. Len(f) = Len(s) - 1 /\ Len(s) \in 1 .. Len(s)
  BY <1>1, <1>2, <1>5 DEF k
<1>10. \A n \in 1 .. Len(f) :
         f[n] = s[n] /\ n \in 1 .. Len(s) /\ s[n] # Last(s)
  BY <1>2, <1>5, <1>7
<1>11. \A n \in 1 .. Len(s) : n \in 1 .. Len(f) \/ s[n] = Last(s)
  BY <1>4, <1>5, <1>8
<1> QED BY <1>5, <1>6, <1>9, <1>10, <1>11 DEF f

\* Initially nobody traces.
LEMMA InitStack == Init => StackInv
<1> SUFFICES ASSUME Init PROVE StackInv
  OBVIOUS
<1>1. stack = <<>> /\ \A t \in Threads : open[t] = <<>>
  BY DEF Init
<1>2. Threads # {}
  BY TracingAssumption DEF TracingAssumption
<1>3. /\ stack \in Seq(Nat) /\ Len(stack) = 0 /\ open \in [Threads -> Seq(Nat)]
      /\ \A t \in Threads : Len(open[t]) = 0 /\ 1 .. Len(open[t]) = {}
  BY <1>1, EmptySeq DEF Init
<1>4. Cardinality(Opened) <= Len(stack)
  <2>1. Opened = {}
    BY <1>3 DEF Opened
  <2> QED BY <1>3, <2>1, FS_EmptySet
<1> QED BY <1>1, <1>2, <1>3, <1>4
        DEF Init, StackInv, Ascends, Below, Within, Apart

\* The contexts of open traces are finitely many.
LEMMA OpenedIsFinite ==
  ASSUME StackInv
  PROVE  IsFiniteSet(Opened) /\ Cardinality(Opened) \in Nat
<1>1. IsFiniteSet(0 .. pushed)
  BY FS_Interval DEF StackInv
<1>2. Opened \in SUBSET (0 .. pushed)
  BY DEF Opened
<1> QED BY <1>1, <1>2, FS_Subset, FS_CardinalityType

\* A trace begins.
LEMMA AppendStack ==
  ASSUME StackInv, NEW t \in Threads, append_nested_context(t)
  PROVE  StackInv'
<1> DEFINE c == pushed + 1
<1>1. /\ c \in Nat /\ pushed' = c /\ stack' = Append(stack, c)
      /\ open' = [open EXCEPT ![t] = Append(open[t], c)]
      /\ overlapped' = (overlapped \/ \E u \in Threads \ {t} : Tracing(u))
      /\ language' = language /\ leaving' = leaving /\ t \notin leaving
  BY DEF StackInv, append_nested_context, Runs
<1>2. /\ stack \in Seq(Nat) /\ Ascends(stack) /\ Below(stack, c)
      /\ open[t] \in Seq(Nat) /\ Ascends(open[t])
      /\ \A u \in Threads : Below(open[u], c)
      /\ \A n \in 1 .. Len(stack) : stack[n] \in Nat
  BY ElementOfSeq DEF StackInv
<1>3. c = pushed + 1 /\ pushed \in Nat
  BY DEF StackInv
<1> HIDE DEF c
<1>4. /\ stack' \in Seq(Nat) /\ Ascends(stack') /\ Below(stack', c + 1)
      /\ Len(stack') = Len(stack) + 1 /\ stack'[Len(stack) + 1] = c
      /\ \A n \in 1 .. Len(stack) : stack'[n] = stack[n]
  BY <1>1, <1>2, Pushing
<1>5. /\ open'[t] \in Seq(Nat) /\ Ascends(open'[t]) /\ Below(open'[t], c + 1)
      /\ Len(open'[t]) = Len(open[t]) + 1 /\ open'[t][Len(open[t]) + 1] = c
      /\ \A n \in 1 .. Len(open[t]) : open'[t][n] = open[t][n]
      /\ open'[t] = Append(open[t], c)
  <2>1. open'[t] = Append(open[t], c)
    BY <1>1 DEF StackInv
  <2> QED BY <1>1, <1>2, <2>1, Pushing
<1>6. \A u \in Threads \ {t} : open'[u] = open[u]
  BY <1>1 DEF StackInv
<1>7. Len(stack) \in Nat /\ Len(open[t]) \in Nat
  BY <1>2
<1>8. \A s : Within(s, stack) => Within(s, stack')
  BY <1>4, <1>7 DEF Within
<1>9. ASSUME Undisturbed' PROVE Within(open'[t], stack')
  <2> SUFFICES ASSUME NEW n \in 1 .. Len(open'[t])
               PROVE  \E j \in 1 .. Len(stack') : stack'[j] = open'[t][n]
    BY DEF Within
  <2>1. CASE n \in 1 .. Len(open[t])
    <3>1. Within(open[t], stack')
      BY <1>1, <1>8, <1>9 DEF StackInv, Undisturbed
    <3> QED BY <1>5, <2>1, <3>1 DEF Within
  <2>2. CASE n = Len(open[t]) + 1
    BY <1>4, <1>5, <1>7, <2>2
  <2> QED BY <1>5, <1>7, <2>1, <2>2
<1>10. /\ \A u \in Threads : Ascends(open'[u]) /\ Below(open'[u], c + 1)
       /\ Undisturbed' => \A u \in Threads : Within(open'[u], stack')
  <2>1. ASSUME NEW u \in Threads, u # t
        PROVE  /\ Ascends(open'[u]) /\ Below(open'[u], c + 1)
               /\ Undisturbed' => Within(open'[u], stack')
    <3>1. Ascends(open[u]) /\ Below(open[u], c) /\ open[u] \in Seq(Nat)
      BY <1>2 DEF StackInv
    <3>2. Below(open[u], c + 1)
      <4>1. \A n \in 1 .. Len(open[u]) : open[u][n] \in Nat
        BY <3>1, ElementOfSeq
      <4> QED BY <1>1, <3>1, <4>1 DEF Below
    <3>3. Undisturbed' => Within(open[u], stack')
      BY <1>1, <1>8 DEF StackInv, Undisturbed
    <3> QED BY <1>6, <2>1, <3>1, <3>2, <3>3
  <2> QED BY <1>5, <1>9, <2>1
<1>11. ASSUME NEW u \in Threads \ {t}
       PROVE  Apart(open'[t], open'[u]) /\ Apart(open'[u], open'[t])
  <2>1. Below(open[u], c)
    BY <1>2
  <2>2. open[u] \in Seq(Nat) /\ Apart(open[t], open[u]) /\ Apart(open[u], open[t])
    BY DEF StackInv
  <2>3. \A n \in 1 .. Len(open[u]) : open[u][n] # c
    <3>1. \A n \in 1 .. Len(open[u]) : open[u][n] \in Nat
      BY <2>2, ElementOfSeq
    <3> QED BY <1>1, <2>1, <3>1 DEF Below
  <2>4. \A n \in 1 .. Len(open'[t]) :
          n \in 1 .. Len(open[t]) \/ open'[t][n] = c
    BY <1>5, <1>7
  <2> QED BY <1>5, <1>6, <2>2, <2>3, <2>4, ZenonT(30) DEF Apart
<1>12. \A u \in Threads : \A v \in Threads \ {u} : Apart(open'[u], open'[v])
  <2> SUFFICES ASSUME NEW u \in Threads, NEW v \in Threads \ {u}, u # t, v # t
               PROVE  Apart(open'[u], open'[v])
    BY <1>11
  <2> QED BY <1>6 DEF StackInv
<1>13. ASSUME ~overlapped'
       PROVE  \E u \in Threads : /\ stack' = open'[u]
                                 /\ \A v \in Threads \ {u} : open'[v] = <<>>
  <2>1. \A u \in Threads \ {t} : open[u] = <<>>
    BY <1>1, <1>13 DEF Tracing
  <2>2. stack = open[t]
    BY <1>1, <1>13, <2>1 DEF StackInv
  <2> QED BY <1>1, <1>5, <1>6, <2>1, <2>2
<1>14. open' \in [Threads -> Seq(Nat)]
  BY <1>1, <1>5 DEF StackInv
<1>15. Cardinality(Opened') <= Len(stack')
  <2>1. ASSUME NEW x \in Opened' PROVE x \in Opened \cup {c}
    <3>1. PICK u \in Threads : \E n \in 1 .. Len(open'[u]) : open'[u][n] = x
      BY DEF Opened
    <3>2. PICK n \in 1 .. Len(open'[u]) : open'[u][n] = x
      BY <3>1
    <3>3. x \in 0 .. c
      BY <1>1 DEF Opened
    <3>4. CASE u = t /\ n \notin 1 .. Len(open[t])
      BY <1>5, <1>7, <3>2, <3>4
    <3>5. CASE u # t \/ n \in 1 .. Len(open[t])
      <4>1. n \in 1 .. Len(open[u]) /\ open[u][n] = x
        BY <1>5, <1>6, <3>2, <3>5
      <4>2. x = c \/ x \in 0 .. pushed
        BY <1>1, <1>3, <3>3
      <4> QED BY <4>1, <4>2 DEF Opened
    <3> QED BY <3>4, <3>5
  <2>2. IsFiniteSet(Opened) /\ Cardinality(Opened) \in Nat
    BY OpenedIsFinite
  <2>3. /\ IsFiniteSet(Opened \cup {c})
        /\ \/ Cardinality(Opened \cup {c}) = Cardinality(Opened)
           \/ Cardinality(Opened \cup {c}) = Cardinality(Opened) + 1
    BY <2>2, FS_AddElement
  <2>4. Cardinality(Opened \cup {c}) \in Nat
    BY <2>3, FS_CardinalityType
  <2>5. Opened' \in SUBSET (Opened \cup {c})
    BY <2>1
  <2>6. /\ Cardinality(Opened') <= Cardinality(Opened \cup {c})
        /\ Cardinality(Opened') \in Nat
    BY <2>3, <2>5, FS_Subset, FS_CardinalityType
  <2>7. Cardinality(Opened) <= Len(stack)
    BY DEF StackInv
  <2> QED BY <1>4, <1>7, <2>2, <2>3, <2>4, <2>6, <2>7
<1>16. \A u \in leaving' : u \in Threads /\ language' = "python" /\ Tracing(u)'
  BY <1>1, <1>6 DEF StackInv, Tracing
<1> QED BY <1>1, <1>4, <1>10, <1>12, <1>13, <1>14, <1>15, <1>16 DEF StackInv

\* While a trace is under way the stack has a context.
LEMMA StackHasTop ==
  ASSUME StackInv, NEW t \in Threads, Tracing(t)
  PROVE  stack # <<>> /\ Last(open[t]) \in Opened
<1>1. /\ Len(open[t]) \in 1 .. Len(open[t]) /\ open[t][Len(open[t])] \in Nat
      /\ open[t][Len(open[t])] < pushed + 1 /\ pushed \in Nat
  BY EmptySeq, ElementOfSeq DEF Tracing, StackInv, Below
<1>2. Last(open[t]) \in Opened
  BY <1>1 DEF Opened, Last
<1>3. Cardinality(Opened) # 0 /\ Cardinality(Opened) \in Nat
  BY <1>2, OpenedIsFinite, FS_EmptySet
<1> QED BY <1>2, <1>3, EmptySeq DEF StackInv

\* A trace ends, whether or not its context could be removed: one context at
\* most leaves the stack, and an undisturbed stack loses the right one.
LEMMA RemoveStack ==
  ASSUME StackInv, NEW t \in Threads,
         RemoveNestedContext(t) \/ pop(t) \/ RemoveFails(t)
  PROVE  StackInv'
<1> DEFINE c == Last(open[t])
<1>1. /\ open[t] # <<>> /\ pushed' = pushed /\ overlapped' = overlapped
      /\ open' = [open EXCEPT ![t] = Front(open[t])]
      /\ language' = language /\ leaving' = leaving \ {t}
      /\ stack' \in {stack, Front(stack)}
  <2>1. CASE RemoveNestedContext(t)
    BY <2>1 DEF RemoveNestedContext, PopContext, Closed, Tracing, Runs
  <2>2. CASE pop(t)
    BY <2>2 DEF pop, PopContext, Closed, Tracing, StackInv
  <2>3. CASE RemoveFails(t)
    BY <2>3 DEF RemoveFails, Closed, Tracing, Runs
  <2> QED BY <2>1, <2>2, <2>3
<1>2. /\ stack \in Seq(Nat) /\ Ascends(stack) /\ open[t] \in Seq(Nat)
      /\ Ascends(open[t]) /\ Below(open[t], pushed + 1) /\ pushed \in Nat
  BY DEF StackInv
<1>3. /\ open'[t] \in Seq(Nat) /\ Ascends(open'[t])
      /\ open'[t] = Front(open[t])
      /\ \A n \in 1 .. Len(open'[t]) :
           open'[t][n] = open[t][n] /\ n \in 1 .. Len(open[t]) /\ open[t][n] # c
      /\ Len(open[t]) \in 1 .. Len(open[t])
  <2>1. open'[t] = Front(open[t])
    BY <1>1 DEF StackInv
  <2> QED BY <1>1, <1>2, <2>1, Popping
<1>4. \A u \in Threads \ {t} : open'[u] = open[u]
  BY <1>1 DEF StackInv
<1>5. \A u \in Threads \ {t} : \A n \in 1 .. Len(open[u]) : open[u][n] # c
  BY <1>3 DEF StackInv, Apart, Last
<1>6. c \in Opened /\ stack # <<>>
  BY <1>1, StackHasTop DEF Tracing
<1>7. Cardinality(Opened') <= Cardinality(Opened) - 1
  <2>1. ASSUME NEW x \in Opened' PROVE x \in Opened \ {c}
    <3>1. PICK u \in Threads : \E n \in 1 .. Len(open'[u]) : open'[u][n] = x
      BY DEF Opened
    <3>2. PICK n \in 1 .. Len(open'[u]) : open'[u][n] = x
      BY <3>1
    <3>3. x \in 0 .. pushed
      BY <1>1 DEF Opened
    <3>4. n \in 1 .. Len(open[u]) /\ open[u][n] = x /\ x # c
      BY <1>3, <1>4, <1>5, <3>2
    <3> QED BY <3>3, <3>4 DEF Opened
  <2>2. Opened' \in SUBSET (Opened \ {c})
    BY <2>1
  <2>3. IsFiniteSet(Opened)
    BY OpenedIsFinite
  <2>4. /\ IsFiniteSet(Opened \ {c})
        /\ Cardinality(Opened \ {c}) = Cardinality(Opened) - 1
    BY <1>6, <2>3, FS_RemoveElement
  <2> QED BY <2>2, <2>4, FS_Subset
<1>8. Undisturbed => IF IsTop(c) THEN stack' = Front(stack) ELSE stack' = stack
  <2>1. CASE RemoveNestedContext(t)
    BY <2>1 DEF RemoveNestedContext, PopContext
  <2>2. CASE pop(t)
    <3>1. language = "python" /\ stack' = Front(stack)
      BY <2>2 DEF pop, PopContext, StackInv
    <3>2. Undisturbed => stack = open[t]
      BY <1>1, <3>1 DEF Undisturbed, StackInv
    <3> QED BY <1>1, <3>1, <3>2 DEF IsTop
  <2>3. CASE RemoveFails(t)
    BY <2>3 DEF RemoveFails
  <2> QED BY <2>1, <2>2, <2>3
<1> HIDE DEF c
<1>9. /\ stack' \in Seq(Nat) /\ Ascends(stack') /\ Below(stack', pushed' + 1)
       /\ Len(stack) - 1 <= Len(stack')
  <2>1. CASE stack' = Front(stack)
    <3>1. /\ stack' \in Seq(Nat) /\ Ascends(stack') /\ Len(stack') = Len(stack) - 1
          /\ \A n \in 1 .. Len(stack') :
               stack'[n] = stack[n] /\ n \in 1 .. Len(stack)
      BY <1>2, <1>6, <2>1, Popping
    <3>2. Below(stack', pushed' + 1)
      BY <1>1, <3>1 DEF Below, StackInv
    <3> QED BY <1>2, <3>1, <3>2
  <2>2. CASE stack' = stack
    BY <1>1, <1>2, <2>2 DEF StackInv
  <2> QED BY <1>1, <2>1, <2>2
<1>10. ASSUME Undisturbed, NEW s, Within(s, stack), \A n \in 1 .. Len(s) : s[n] # c
       PROVE  Within(s, stack')
  <2>1. CASE IsTop(c)
    <3>1. stack # <<>> /\ Last(stack) = c /\ stack' = Front(stack)
      BY <1>8, <1>10, <2>1 DEF IsTop
    <3>2. /\ \A n \in 1 .. Len(stack') :
               stack'[n] = stack[n] /\ n \in 1 .. Len(stack)
          /\ \A n \in 1 .. Len(stack) : n \in 1 .. Len(stack') \/ stack[n] = c
      BY <1>2, <3>1, Popping
    <3> QED BY <1>10, <3>2 DEF Within
  <2>2. CASE ~IsTop(c)
    BY <1>8, <1>10, <2>2
  <2> QED BY <2>1, <2>2
<1>11. Undisturbed' => \A u \in Threads : Within(open'[u], stack')
  <2> SUFFICES ASSUME Undisturbed, NEW u \in Threads
               PROVE  Within(open'[u], stack')
    BY <1>1 DEF Undisturbed
  <2>1. Within(open[u], stack)
    BY DEF StackInv
  <2>2. CASE u = t
    <3>1. Within(open'[t], stack) /\ \A n \in 1 .. Len(open'[t]) : open'[t][n] # c
      BY <1>3, <2>1, <2>2 DEF Within
    <3> QED BY <1>10, <2>2, <3>1
  <2>3. CASE u # t
    BY <1>4, <1>5, <1>10, <2>1, <2>3
  <2> QED BY <2>2, <2>3
<1>12. \A u \in Threads : Ascends(open'[u]) /\ Below(open'[u], pushed' + 1)
  <2>1. Below(open'[t], pushed' + 1)
    BY <1>1, <1>2, <1>3 DEF Below
  <2>2. ASSUME NEW u \in Threads \ {t}
        PROVE  Ascends(open'[u]) /\ Below(open'[u], pushed' + 1)
    BY <1>1, <1>4 DEF StackInv
  <2> QED BY <1>3, <2>1, <2>2
<1>13. \A u \in Threads : \A v \in Threads \ {u} : Apart(open'[u], open'[v])
  <2> SUFFICES ASSUME NEW u \in Threads, NEW v \in Threads \ {u}
               PROVE  Apart(open'[u], open'[v])
    OBVIOUS
  <2>1. Apart(open[u], open[v])
    BY DEF StackInv
  <2>2. CASE u = t
    BY <1>3, <1>4, <2>1, <2>2 DEF Apart
  <2>3. CASE v = t
    BY <1>3, <1>4, <2>1, <2>3, SMTT(20) DEF Apart
  <2>4. CASE u # t /\ v # t
    BY <1>4, <2>1, <2>4
  <2> QED BY <2>2, <2>3, <2>4
<1>14. ASSUME ~overlapped'
       PROVE  \E u \in Threads : /\ stack' = open'[u]
                                 /\ \A v \in Threads \ {u} : open'[v] = <<>>
  <2>1. stack = open[t] /\ \A v \in Threads \ {t} : open[v] = <<>>
    BY <1>1, <1>14 DEF StackInv
  <2>2. IsTop(c) /\ Undisturbed
    BY <1>1, <1>14, <2>1 DEF IsTop, c, Undisturbed
  <2> QED BY <1>3, <1>4, <1>8, <2>1, <2>2
<1>15. open' \in [Threads -> Seq(Nat)]
  BY <1>1, <1>3 DEF StackInv
<1>16. Cardinality(Opened') <= Len(stack')
  <2>1. Cardinality(Opened) <= Len(stack) /\ Cardinality(Opened) \in Nat
    BY OpenedIsFinite DEF StackInv
  <2>2. Opened' \in SUBSET (0 .. pushed)
    BY <1>1 DEF Opened
  <2>3. IsFiniteSet(0 .. pushed)
    BY <1>2, FS_Interval
  <2>4. Cardinality(Opened') \in Nat
    BY <2>2, <2>3, FS_Subset, FS_CardinalityType
  <2> QED BY <1>2, <1>7, <1>9, <2>1, <2>4
<1>17. \A u \in leaving' : u \in Threads /\ language' = "python" /\ Tracing(u)'
  BY <1>1, <1>4 DEF StackInv, Tracing
<1> QED BY <1>1, <1>9, <1>11, <1>12, <1>13, <1>14, <1>15, <1>16, <1>17
        DEF StackInv

\* Nothing else changes the stack.
LEMMA NextStack == ASSUME StackInv, [Next]_vars PROVE StackInv'
<1>1. ASSUME NEW t \in Threads, ThreadNext(t)
      PROVE  StackInv'
  <2>1. CASE append_nested_context(t)
    BY <2>1, AppendStack
  <2>2. CASE RemoveNestedContext(t) \/ pop(t) \/ RemoveFails(t)
    BY <2>2, RemoveStack
  <2>3. CASE remove_nested_context(t)
    <3>1. /\ UNCHANGED <<language, stack, pushed, open, overlapped>>
          /\ leaving' = leaving \cup {t} /\ Tracing(t) /\ language = "python"
      BY <2>3 DEF remove_nested_context
    <3> QED BY <3>1 DEF StackInv, Undisturbed, Opened, Tracing
  <2>4. CASE UNCHANGED stackVars
    BY <2>4 DEF stackVars, StackInv, Undisturbed, Opened, Tracing
  <2> QED BY <1>1, <2>1, <2>2, <2>3, <2>4
          DEF ThreadNext, call, embed, StartWork, KeepReference, ReuseName,
              MakeName, Enter, ReturnCall, ReplaceCall, ReturnReference
<1>2. CASE UNCHANGED vars
  BY <1>2 DEF vars, stackVars, StackInv, Undisturbed, Opened, Tracing
<1> QED BY <1>1, <1>2 DEF Next

\* A trace finds its own context on the stack until it removes it, in the order
\* of its thread's traces, in C++ whatever the other threads push and remove and
\* in Python as long as no other thread traces; traces that did not overlap
\* leave the stack as they found it, even when the function raises; and no
\* removal, not even one that Python's test did not cover, leaves a trace
\* without any context (tracing_decorator.py finally, context.py
\* remove_nested_context, genc/cc/base/context.cc).
THEOREM StackSound == Spec => []StackHoldsOpenTraces
<1>1. StackInv => StackHoldsOpenTraces
  <2> SUFFICES ASSUME StackInv PROVE StackHoldsOpenTraces
    OBVIOUS
  <2>0. /\ DOMAIN stack = 1 .. Len(stack)
        /\ \A n \in 1 .. Len(stack) : stack[n] \in Nat
    BY ElementOfSeq DEF StackInv
  <2>1. IsInjective(stack)
    <3> SUFFICES ASSUME NEW m \in 1 .. Len(stack), NEW n \in 1 .. Len(stack),
                        stack[m] = stack[n], m # n
                 PROVE  FALSE
      BY <2>0 DEF IsInjective
    <3>1. m < n \/ n < m
      OBVIOUS
    <3> QED BY <2>0, <3>1 DEF StackInv, Ascends
  <2>2. ASSUME Undisturbed, NEW t \in Threads
        PROVE  \A n \in DOMAIN open[t] :
                 /\ open[t][n] \in Range(stack)
                 /\ \A m \in 1 .. (n - 1) : Above(open[t][n], open[t][m])
    <3>1. /\ DOMAIN open[t] = 1 .. Len(open[t]) /\ Within(open[t], stack)
          /\ Ascends(open[t]) /\ Ascends(stack) /\ Len(open[t]) \in Nat
      BY <2>2 DEF StackInv
    <3>2. \A n \in 1 .. Len(open[t]) : open[t][n] \in Range(stack)
      BY <2>0, <3>1 DEF Within, Range
    <3>3. ASSUME NEW n \in 1 .. Len(open[t]), NEW m \in 1 .. (n - 1)
          PROVE  Above(open[t][n], open[t][m])
      <4>1. m \in 1 .. Len(open[t]) /\ m < n
        BY <3>1
      <4>2. open[t][m] < open[t][n]
        BY <3>1, <4>1 DEF Ascends
      <4>3. PICK j \in 1 .. Len(stack) : stack[j] = open[t][m]
        BY <3>1, <4>1 DEF Within
      <4>4. PICK k \in 1 .. Len(stack) : stack[k] = open[t][n]
        BY <3>1 DEF Within
      <4>5. j < k
        <5> SUFFICES ASSUME ~(j < k) PROVE FALSE
          OBVIOUS
        <5>1. stack[k] < stack[j] \/ k = j
          BY <3>1 DEF Ascends
        <5> QED BY <2>0, <4>2, <4>3, <4>4, <5>1
      <4> QED BY <2>0, <4>3, <4>4, <4>5 DEF Above
    <3> QED BY <3>1, <3>2, <3>3
  <2> QED BY <2>1, <2>2, StackHasTop
          DEF StackHoldsOpenTraces, StackInv, Undisturbed
<1> QED BY InitStack, NextStack, <1>1, PTL DEF Spec
-------------------------------------------------------------------------------
(***************************************************************************)
(* What the locals of a context stand for. A table that one trace alone    *)
(* fills names its IRs 0, 1, ..., each made of the ones before it, so the  *)
(* next one leaves what they stand for as it is.                           *)
(***************************************************************************)
\* A set of numbers that is not empty has a least one.
LEMMA LeastNumber ==
  ASSUME NEW T \in SUBSET Nat, T # {}
  PROVE  \E x \in T : \A y \in T : x <= y
<1>1. \E R : /\ \E x \in T : \A y \in T : ~ (<<y, x>> \in R)
             /\ \A x, y \in Nat : y < x => <<y, x>> \in R
  <2>1. \E x \in T : \A y \in T : ~ (<<y, x>> \in OpToRel(<, Nat))
    BY NatLessThanWellFounded, WFMin
  <2>2. \A x, y \in Nat : y < x => <<y, x>> \in OpToRel(<, Nat)
    BY DEF OpToRel
  <2> QED BY <2>1, <2>2, Zenon
<1>2. PICK x \in T : \A y \in T : ~(y < x)
  BY <1>1
<1> QED BY <1>2

\* Induction, for a set in place of a predicate.
LEMMA SetInduction ==
  ASSUME NEW S \in SUBSET Nat, 0 \in S, \A n \in S : n + 1 \in S
  PROVE  S = Nat
<1> SUFFICES ASSUME Nat \ S # {} PROVE FALSE
  OBVIOUS
<1>1. PICK x \in Nat \ S : \A y \in Nat \ S : x <= y
  BY LeastNumber
<1>2. x # 0 /\ x - 1 \in Nat /\ x - 1 \notin Nat \ S
  BY <1>1
<1>3. (x - 1) + 1 \in S
  BY <1>2
<1> QED BY <1>2, <1>3

Irs == {<<"fn", f>> : f \in Callables} \cup {<<"ref", n>> : n \in Int}
       \cup {<<"sel", i>> : i \in Nat}
       \cup {<<"call", n, s>> : n \in Int, s \in Seq(Int)}

\* The names of m are numbers without a gap, and each IR under one uses only
\* those before it; the name that is found for an IR is one it is under.
Forward(m) ==
  /\ Size(m) \in Nat
  /\ DOMAIN m.key_to_value_ = 0 .. (Size(m) - 1)
  /\ \A n \in DOMAIN m.key_to_value_ :
       /\ m.key_to_value_[n] \in Irs
       /\ Names(m.key_to_value_[n]) \subseteq ARG .. (n - 1)
  /\ \A ir \in DOMAIN m.value_to_key_ :
       /\ m.value_to_key_[ir] \in DOMAIN m.key_to_value_
       /\ m.key_to_value_[m.value_to_key_[ir]] = ir

\* In the context c with table m, ir stands for means.
Stands(c, m, ir, means) ==
  /\ ir \in Irs
  /\ Names(ir) \subseteq ARG .. (Size(m) - 1)
  /\ Meaning(c, ir, LocalMeanings(c, m)) = means

\* The meaning of an IR is that of the names in it.
LEMMA MeaningsAgree ==
  ASSUME NEW c, NEW ir \in Irs, NEW k \in Nat, Names(ir) \subseteq ARG .. (k - 1),
         NEW f, NEW g, \A n \in 0 .. (k - 1) : f[n] = g[n]
  PROVE  Meaning(c, ir, f) = Meaning(c, ir, g)
<1>0. \A n \in ARG .. (k - 1) : Named(c, n, f) = Named(c, n, g)
  <2> SUFFICES ASSUME NEW n \in ARG .. (k - 1) PROVE Named(c, n, f) = Named(c, n, g)
    OBVIOUS
  <2>1. n = ARG \/ n \in 0 .. (k - 1)
    BY DEF ARG
  <2> QED BY <2>1 DEF Named
<1>1. CASE \E x \in Callables : ir = <<"fn", x>>
  BY <1>1 DEF Meaning
<1>2. CASE \E n \in Int : ir = <<"ref", n>>
  <2>1. ir[1] = "ref" /\ ir[2] \in Names(ir)
    BY <1>2 DEF Names
  <2>2. Named(c, ir[2], f) = Named(c, ir[2], g)
    BY <1>0, <2>1
  <2> QED BY <2>1, <2>2 DEF Meaning
<1>3. CASE \E i \in Nat : ir = <<"sel", i>>
  BY <1>3 DEF Meaning
<1>4. CASE \E n \in Int, s \in Seq(Int) : ir = <<"call", n, s>>
  <2>1. PICK n \in Int, s \in Seq(Int) : ir = <<"call", n, s>>
    BY <1>4
  <2>2. ir[1] = "call" /\ ir[2] = n /\ ir[3] = s
    BY <2>1
  <2>3. DOMAIN s = 1 .. Len(s)
    OBVIOUS
  <2>4. n \in Names(ir) /\ \A j \in 1 .. Len(s) : s[j] \in Names(ir)
    BY <2>2, <2>3 DEF Names, Range
  <2>5. /\ Named(c, n, f) = Named(c, n, g)
        /\ \A j \in 1 .. Len(s) : Named(c, s[j], f) = Named(c, s[j], g)
    BY <1>0, <2>4
  <2>6. [j \in 1 .. Len(s) |-> Named(c, s[j], f)]
          = [j \in 1 .. Len(s) |-> Named(c, s[j], g)]
    BY <2>5
  <2> QED BY <2>2, <2>5, <2>6 DEF Meaning
<1> QED BY <1>1, <1>2, <1>3, <1>4 DEF Irs

\* LocalMeanings is the function its recursive definition speaks of.
LEMMA LocalsAreDefined ==
  ASSUME NEW c, NEW m, Forward(m)
  PROVE  \A n \in 0 .. (Size(m) - 1) :
           LocalMeanings(c, m)[n]
             = Meaning(c, m.key_to_value_[n], LocalMeanings(c, m))
<1> DEFINE K == m.key_to_value_
           Defined(f, k) == f = [n \in 0 .. (k - 1) |-> Meaning(c, K[n], f)]
           S == {k \in Nat : k <= Size(m) => \E f : Defined(f, k)}
<1>0. /\ Size(m) \in Nat
      /\ \A n \in 0 .. (Size(m) - 1) : K[n] \in Irs /\ Names(K[n]) \subseteq ARG .. (n - 1)
  BY DEF Forward
<1> HIDE DEF K
<1>1. 0 \in S
  <2>1. Defined([n \in 0 .. (0 - 1) |-> 0], 0)
    OBVIOUS
  <2> QED BY <2>1
<1>2. ASSUME NEW k \in S PROVE k + 1 \in S
  <2> SUFFICES ASSUME k + 1 <= Size(m) PROVE \E f : Defined(f, k + 1)
    OBVIOUS
  <2>1. k \in Nat /\ k <= Size(m) /\ k \in 0 .. (Size(m) - 1)
    BY <1>0
  <2>2. PICK f : Defined(f, k)
    BY <2>1
  <2> DEFINE g == [n \in 0 .. k |-> IF n = k THEN Meaning(c, K[k], f) ELSE f[n]]
  <2>3. \A n \in 0 .. (k - 1) : g[n] = f[n] /\ n \in 0 .. k /\ f[n] = Meaning(c, K[n], f)
    BY <2>1, <2>2, SMTT(20)
  <2>4. ASSUME NEW n \in 0 .. k PROVE g[n] = Meaning(c, K[n], g)
    <3>1. K[n] \in Irs /\ Names(K[n]) \subseteq ARG .. (n - 1) /\ n \in Nat
      BY <1>0, <2>1
    <3>2. \A j \in 0 .. (n - 1) : f[j] = g[j]
      BY <2>1, <2>3
    <3>3. Meaning(c, K[n], f) = Meaning(c, K[n], g)
      BY <3>1, <3>2, MeaningsAgree
    <3>4. g[n] = Meaning(c, K[n], f)
      <4>1. CASE n = k
        BY <4>1
      <4>2. CASE n # k
        <5>1. n \in 0 .. (k - 1)
          BY <2>1, <4>2
        <5> QED BY <2>3, <5>1
      <4> QED BY <4>1, <4>2
    <3> QED BY <3>3, <3>4
  <2>5. g = [n \in 0 .. k |-> g[n]]
    OBVIOUS
  <2> HIDE DEF g
  <2>6. g = [n \in 0 .. k |-> Meaning(c, K[n], g)]
    BY <2>4, <2>5
  <2>7. (k + 1) - 1 = k
    BY <2>1
  <2>8. Defined(g, k + 1)
    BY <2>6, <2>7
  <2> QED BY <2>8
<1>3. S = Nat
  <2> HIDE DEF S
  <2> QED BY <1>1, <1>2, SetInduction DEF S
<1>4. PICK f : Defined(f, Size(m))
  BY <1>0, <1>3
<1>5. f = [n \in 0 .. (Size(m) - 1) |-> Meaning(c, m.key_to_value_[n], f)]
  BY <1>4 DEF K
<1>6. LocalMeanings(c, m)
        = [n \in 0 .. (Size(m) - 1) |-> Meaning(c, m.key_to_value_[n], LocalMeanings(c, m))]
  BY <1>5 DEF LocalMeanings
<1> QED BY <1>6

\* A table with one more name stands for what it stood for, and the new name
\* for what its IR does.
LEMMA Growth ==
  ASSUME NEW c, NEW m, Forward(m), NEW ir \in Irs,
         Names(ir) \subseteq ARG .. (Size(m) - 1), NEW l, l = Link(m, Size(m), ir)
  PROVE  /\ Forward(l) /\ Size(l) = Size(m) + 1
         /\ \A n \in 0 .. (Size(m) - 1) :
              LocalMeanings(c, l)[n] = LocalMeanings(c, m)[n]
         /\ LocalMeanings(c, l)[Size(m)] = Meaning(c, ir, LocalMeanings(c, m))
<1> DEFINE k == Size(m)
           K == m.key_to_value_
           L == l.key_to_value_
<1>0. /\ k \in Nat /\ DOMAIN K = 0 .. (k - 1)
      /\ \A n \in 0 .. (k - 1) : K[n] \in Irs /\ Names(K[n]) \subseteq ARG .. (n - 1)
      /\ \A x \in DOMAIN m.value_to_key_ :
           m.value_to_key_[x] \in 0 .. (k - 1) /\ K[m.value_to_key_[x]] = x
  BY DEF Forward
<1>1. /\ L = With(K, k, ir) /\ l.value_to_key_ = With(m.value_to_key_, ir, k)
  BY DEF Link
<1> HIDE DEF K, L, k
<1>2. DOMAIN L = 0 .. k /\ L[k] = ir /\ \A n \in 0 .. (k - 1) : L[n] = K[n] /\ n \in 0 .. k
  BY <1>0, <1>1 DEF With
<1>3. /\ DOMAIN l.value_to_key_ = DOMAIN m.value_to_key_ \cup {ir}
      /\ l.value_to_key_[ir] = k
      /\ \A x \in DOMAIN m.value_to_key_ \ {ir} :
           l.value_to_key_[x] = m.value_to_key_[x]
  BY <1>1 DEF With
<1>4. Size(l) = k + 1
  <2>1. 0 \in Int /\ k \in Int /\ ~(0 > k) /\ k - 0 + 1 = k + 1
    BY <1>0
  <2>2. Cardinality(0 .. k) = IF 0 > k THEN 0 ELSE k - 0 + 1
    BY <2>1, FS_Interval
  <2> QED BY <1>2, <2>1, <2>2 DEF Size, L
<1>5. (k + 1) - 1 = k /\ \A n \in 0 .. k : n = k \/ n \in 0 .. (k - 1)
  BY <1>0
<1>6. ASSUME NEW n \in 0 .. k
      PROVE  L[n] \in Irs /\ Names(L[n]) \subseteq ARG .. (n - 1)
  <2>1. CASE n = k
    BY <1>2, <2>1 DEF k
  <2>2. CASE n \in 0 .. (k - 1)
    BY <1>0, <1>2, <2>2
  <2> QED BY <1>5, <2>1, <2>2
<1>7. \A x \in DOMAIN l.value_to_key_ :
        l.value_to_key_[x] \in 0 .. k /\ L[l.value_to_key_[x]] = x
  <2> SUFFICES ASSUME NEW x \in DOMAIN l.value_to_key_
               PROVE  l.value_to_key_[x] \in 0 .. k /\ L[l.value_to_key_[x]] = x
    OBVIOUS
  <2>1. CASE x = ir
    BY <1>0, <1>2, <1>3, <2>1
  <2>2. CASE x # ir
    BY <1>0, <1>2, <1>3, <2>2
  <2> QED BY <2>1, <2>2
<1>8. Forward(l)
  BY <1>0, <1>2, <1>4, <1>5, <1>6, <1>7 DEF Forward, L
<1> DEFINE F == LocalMeanings(c, m)
           G == LocalMeanings(c, l)
<1>9. \A n \in 0 .. (k - 1) : F[n] = Meaning(c, K[n], F)
  BY LocalsAreDefined DEF k, K
<1>10. \A n \in 0 .. k : G[n] = Meaning(c, L[n], G)
  BY <1>4, <1>5, <1>8, LocalsAreDefined DEF L
<1> HIDE DEF F, G
<1> DEFINE S == {n \in Nat : \A j \in 0 .. (n - 1) : j < k => G[j] = F[j]}
<1>11. S = Nat
  <2>1. 0 \in S
    OBVIOUS
  <2>2. ASSUME NEW n \in S PROVE n + 1 \in S
    <3>1. n \in Nat /\ \A j \in 0 .. (n - 1) : j < k => G[j] = F[j]
      OBVIOUS
    <3>2. ASSUME n < k PROVE G[n] = F[n]
      <4>1. n \in 0 .. (k - 1) /\ \A j \in 0 .. (n - 1) : j < k
        BY <1>0, <3>1, <3>2
      <4>2. K[n] \in Irs /\ Names(K[n]) \subseteq ARG .. (n - 1) /\ L[n] = K[n] /\ n \in 0 .. k
        BY <1>0, <1>2, <4>1
      <4>3. Meaning(c, K[n], G) = Meaning(c, K[n], F)
        BY <3>1, <4>1, <4>2, MeaningsAgree
      <4> QED BY <1>9, <1>10, <4>1, <4>2, <4>3
    <3>3. \A j \in 0 .. ((n + 1) - 1) : j \in 0 .. (n - 1) \/ j = n
      BY <3>1
    <3>4. \A j \in 0 .. ((n + 1) - 1) : j < k => G[j] = F[j]
      BY <3>1, <3>2, <3>3
    <3> QED BY <3>1, <3>4
  <2> HIDE DEF S
  <2> QED BY <2>1, <2>2, SetInduction DEF S
<1>12. \A n \in 0 .. (k - 1) : G[n] = F[n]
  <2>1. k \in S
    BY <1>0, <1>11
  <2>2. \A j \in 0 .. (k - 1) : j < k
    BY <1>0
  <2> QED BY <2>1, <2>2
<1>13. G[k] = Meaning(c, ir, F)
  <2>1. k \in 0 .. k /\ Names(ir) \subseteq ARG .. (k - 1)
    BY <1>0 DEF k
  <2>2. Meaning(c, ir, G) = Meaning(c, ir, F)
    BY <1>0, <1>12, <2>1, MeaningsAgree
  <2> QED BY <1>2, <1>10, <2>1, <2>2
<1> QED BY <1>4, <1>8, <1>12, <1>13 DEF F, G, k

\* Table l has the names of table m, for the same IRs, and maybe more.
Extends(c, m, l) ==
  /\ Size(m) \in Nat /\ Size(l) \in Nat /\ Size(m) <= Size(l)
  /\ \A n \in 0 .. (Size(m) - 1) : LocalMeanings(c, l)[n] = LocalMeanings(c, m)[n]

\* What stands for something keeps standing for it.
LEMMA StillStands ==
  ASSUME NEW c, NEW m, NEW l, Extends(c, m, l),
         NEW ir, NEW means, Stands(c, m, ir, means)
  PROVE  Stands(c, l, ir, means)
<1>1. /\ ir \in Irs /\ Size(m) \in Nat /\ Names(ir) \subseteq ARG .. (Size(m) - 1)
      /\ Meaning(c, ir, LocalMeanings(c, m)) = means
  BY DEF Extends, Stands
<1>2. Meaning(c, ir, LocalMeanings(c, l)) = Meaning(c, ir, LocalMeanings(c, m))
  BY <1>1, MeaningsAgree DEF Extends
<1>3. \A n \in ARG .. (Size(m) - 1) : n \in ARG .. (Size(l) - 1)
  BY DEF Extends, ARG
<1> QED BY <1>1, <1>2, <1>3 DEF Stands

\* The same of a name.
LEMMA StillNamed ==
  ASSUME NEW c, NEW m, NEW l, Extends(c, m, l), NEW n \in ARG .. (Size(m) - 1)
  PROVE  /\ n \in ARG .. (Size(l) - 1)
         /\ Named(c, n, LocalMeanings(c, l)) = Named(c, n, LocalMeanings(c, m))
<1>1. n = ARG \/ n \in 0 .. (Size(m) - 1)
  BY DEF Extends, ARG
<1>2. n \in ARG .. (Size(l) - 1)
  BY DEF Extends, ARG
<1> QED BY <1>1, <1>2 DEF Extends, Named
-------------------------------------------------------------------------------
(***************************************************************************)
(* A trace that no other one disturbs. The calls of a context not in mixed *)
(* are those of one trace, in one thread, whose table is Forward; whatever *)
(* it holds or is about to make stands, in that table, for what it means.  *)
(***************************************************************************)
\* What operand n of the call w is to stand for: a name that was found, or a
\* value that waits to be replaced by one.
Wanted(m, w, n) ==
  IF n <= Len(w.done)
  THEN Named(w.context, w.done[n], LocalMeanings(w.context, m))
  ELSE w.todo[n - Len(w.done)].means

Count(w) == Len(w.done) + Len(w.todo)

IsWork(w) ==
  /\ w = [kind |-> w.kind, context |-> w.context, todo |-> w.todo,
          done |-> w.done, name |-> w.name, means |-> w.means]
  /\ w.kind \in {"call", "embed"}
  /\ w.context \in Contexts
  /\ \E S : w.todo \in Seq(S)
  /\ w.name # ARG => w.todo # <<>>

GoesWell(m, w) ==
  /\ w.done \in Seq(Int)
  /\ \A n \in 1 .. Len(w.done) : w.done[n] \in ARG .. (Size(m) - 1)
  /\ \A n \in 1 .. Len(w.todo) :
       Stands(w.context, m, w.todo[n].ir, w.todo[n].means)
  /\ Count(w) >= 1
  /\ w.kind = "call" =>
       w.means = <<"call", Wanted(m, w, Count(w)),
                   [n \in 1 .. (Count(w) - 1) |-> Wanted(m, w, n)]>>
  /\ w.kind = "embed" => Count(w) = 1 /\ w.means = Wanted(m, w, 1)
  /\ w.name # ARG => w.name = Size(m) /\ ~HasValue(m, w.todo[1].ir)

ValueFine(v) ==
  /\ v.home \in Contexts
  /\ v.home \notin mixed => Stands(v.home, table[v.home], v.ir, v.means)

WorkFine(t) ==
  /\ IsWork(work[t])
  /\ work[t].context \notin mixed =>
       /\ Tracing(t)
       /\ work[t].context = Last(open[t])
       /\ GoesWell(table[work[t].context], work[t])

ResultFine(e) ==
  /\ e.context \in Contexts
  /\ e.context \notin mixed => Stands(e.context, table[e.context], e.ir, e.means)

TraceInv ==
  /\ table = [c \in Contexts |-> table[c]]
  /\ known = [t \in Threads |-> known[t]]
  /\ work = [t \in Threads |-> work[t]]
  /\ stack \in Seq(Contexts)
  /\ open \in [Threads -> Seq(Contexts)]
  /\ pushed \in 0 .. MaxContexts
  /\ \A c \in Contexts \ mixed : Forward(table[c])
  /\ \A t \in Threads : \A v \in known[t] : ValueFine(v)
  /\ \A t \in Threads : Idle(t) \/ WorkFine(t)
  /\ \A e \in ended : ResultFine(e)

\* Between the test of the top and the removal a thread makes no call.
LeaveInv == \A t \in leaving : t \in Threads /\ Idle(t)

\* The call that a replacement leaves.
LEMMA AfterReplacement ==
  ASSUME NEW w, NEW n, NEW x,
         w = [kind |-> w.kind, context |-> w.context, todo |-> w.todo,
              done |-> w.done, name |-> w.name, means |-> w.means],
         x = [w EXCEPT !.todo = Tail(@), !.done = Append(@, n), !.name = ARG]
  PROVE  x = [kind |-> w.kind, context |-> w.context, todo |-> Tail(w.todo),
              done |-> Append(w.done, n), name |-> ARG, means |-> w.means]
  OBVIOUS

\* The next value of a call is replaced by the name n, in the table l.
LEMMA ReplaceOne ==
  ASSUME NEW w, IsWork(w), w.todo # <<>>, NEW n, NEW x,
         x = [kind |-> w.kind, context |-> w.context, todo |-> Tail(w.todo),
              done |-> Append(w.done, n), name |-> ARG, means |-> w.means]
  PROVE  /\ IsWork(x) /\ x.context = w.context
         /\ \A m, l :
              /\ GoesWell(m, w)
              /\ Extends(w.context, m, l)
              /\ n \in ARG .. (Size(l) - 1)
              /\ Named(w.context, n, LocalMeanings(w.context, l)) = w.todo[1].means
              => GoesWell(l, x)
<1> DEFINE d == w.done
           q == w.todo
           c == w.context
<1>1. PICK S : q \in Seq(S)
  BY DEF IsWork
<1>2. /\ Tail(q) \in Seq(S) /\ Len(q) \in Nat /\ Len(q) # 0
      /\ Len(Tail(q)) = Len(q) - 1
      /\ \A j \in 1 .. (Len(q) - 1) : Tail(q)[j] = q[j + 1]
  BY <1>1, EmptySeq, HeadTailProperties
<1>3. x = [kind |-> w.kind, context |-> c, todo |-> Tail(q),
           done |-> Append(d, n), name |-> ARG, means |-> w.means]
  OBVIOUS
<1>4. /\ x.kind = w.kind /\ x.context = c /\ x.todo = Tail(q)
      /\ x.done = Append(d, n) /\ x.name = ARG /\ x.means = w.means
      /\ x = [kind |-> x.kind, context |-> x.context, todo |-> x.todo,
              done |-> x.done, name |-> x.name, means |-> x.means]
  BY <1>3
<1>5. IsWork(x)
  BY <1>2, <1>4 DEF IsWork
<1> HIDE DEF d, q, c
<1>6. ASSUME NEW m, NEW l, GoesWell(m, w), Extends(c, m, l),
             n \in ARG .. (Size(l) - 1),
             Named(c, n, LocalMeanings(c, l)) = q[1].means
      PROVE  GoesWell(l, x)
  <2>0. /\ d \in Seq(Int) /\ \A j \in 1 .. Len(d) : d[j] \in ARG .. (Size(m) - 1)
        /\ \A j \in 1 .. Len(q) : Stands(c, m, q[j].ir, q[j].means)
        /\ Count(w) = Len(d) + Len(q) /\ Count(w) >= 1
    BY <1>6 DEF GoesWell, Count, d, q, c
  <2>1. /\ Append(d, n) \in Seq(Int) /\ Len(d) \in Nat /\ n \in Int
        /\ Len(Append(d, n)) = Len(d) + 1 /\ Append(d, n)[Len(d) + 1] = n
        /\ \A j \in 1 .. Len(d) : Append(d, n)[j] = d[j]
    <3>1. n \in Int
      BY <1>6
    <3> QED BY <2>0, <3>1, AppendProperties
  <2>2. ASSUME NEW j \in 1 .. Len(x.done) PROVE x.done[j] \in ARG .. (Size(l) - 1)
    <3>1. CASE j = Len(d) + 1
      BY <1>4, <1>6, <2>1, <3>1
    <3>2. CASE j \in 1 .. Len(d)
      <4>1. x.done[j] = d[j] /\ d[j] \in ARG .. (Size(m) - 1)
        BY <1>4, <2>0, <2>1, <3>2
      <4> QED BY <1>6, <4>1, StillNamed
    <3>3. j = Len(d) + 1 \/ j \in 1 .. Len(d)
      BY <1>4, <2>1
    <3> QED BY <3>1, <3>2, <3>3
  <2>3. ASSUME NEW j \in 1 .. Len(x.todo)
        PROVE  Stands(c, l, x.todo[j].ir, x.todo[j].means)
    <3>1. j \in 1 .. (Len(q) - 1) /\ j + 1 \in 1 .. Len(q) /\ x.todo[j] = q[j + 1]
      <4>1. Len(x.todo) = Len(q) - 1 /\ x.todo = Tail(q)
        BY <1>2, <1>4
      <4>2. j \in 1 .. (Len(q) - 1)
        BY <4>1
      <4>3. j + 1 \in 1 .. Len(q)
        BY <1>2, <4>2
      <4>4. Tail(q)[j] = q[j + 1]
        BY <1>2, <4>2
      <4> QED BY <4>1, <4>2, <4>3, <4>4
    <3>2. Stands(c, m, q[j + 1].ir, q[j + 1].means)
      BY <2>0, <3>1
    <3> QED BY <1>6, <3>1, <3>2, StillStands
  <2>4. Count(x) = Count(w)
    <3>1. Count(x) = Len(Append(d, n)) + Len(Tail(q))
      BY <1>4 DEF Count
    <3> QED BY <1>2, <2>0, <2>1, <3>1
  <2>5. ASSUME NEW j \in 1 .. Count(w) PROVE Wanted(l, x, j) = Wanted(m, w, j)
    <3>1. CASE j \in 1 .. Len(d)
      <4>1. j <= Len(d) /\ j <= Len(d) + 1
        BY <2>1, <3>1
      <4>2. Wanted(m, w, j) = Named(c, d[j], LocalMeanings(c, m))
        BY <4>1 DEF Wanted, d, c
      <4>3. Wanted(l, x, j) = Named(c, d[j], LocalMeanings(c, l))
        BY <1>4, <2>1, <3>1, <4>1 DEF Wanted
      <4> QED BY <1>6, <2>0, <3>1, <4>2, <4>3, StillNamed
    <3>2. CASE j = Len(d) + 1
      <4>1. ~(j <= Len(d)) /\ j <= Len(d) + 1 /\ j - Len(d) = 1
        BY <2>1, <3>2
      <4>2. Wanted(m, w, j) = q[1].means
        BY <4>1 DEF Wanted, d, q
      <4>3. j <= Len(x.done) /\ x.done[j] = n
        BY <1>4, <2>1, <3>2, <4>1
      <4>4. Wanted(l, x, j) = Named(c, n, LocalMeanings(c, l))
        BY <1>4, <4>3 DEF Wanted
      <4> QED BY <1>6, <4>2, <4>4
    <3>3. CASE j > Len(d) + 1
      <4> DEFINE i == j - (Len(d) + 1)
      <4>1. /\ ~(j <= Len(d)) /\ ~(j <= Len(d) + 1) /\ j - Len(d) = i + 1
            /\ i \in 1 .. (Len(q) - 1)
        BY <1>2, <2>0, <2>1, <3>3
      <4>2. Wanted(m, w, j) = q[i + 1].means
        BY <4>1 DEF Wanted, d, q
      <4>3. Wanted(l, x, j) = Tail(q)[i].means
        BY <1>4, <2>1, <4>1 DEF Wanted
      <4> QED BY <1>2, <4>1, <4>2, <4>3
    <3>4. j \in 1 .. Len(d) \/ j = Len(d) + 1 \/ j > Len(d) + 1
      BY <2>1
    <3> QED BY <3>1, <3>2, <3>3, <3>4
  <2>6. Count(w) \in Nat /\ Count(w) >= 1
    BY <1>2, <2>0, <2>1
  <2>7. /\ Wanted(l, x, Count(w)) = Wanted(m, w, Count(w))
        /\ Wanted(l, x, 1) = Wanted(m, w, 1)
        /\ [j \in 1 .. (Count(w) - 1) |-> Wanted(l, x, j)]
             = [j \in 1 .. (Count(w) - 1) |-> Wanted(m, w, j)]
    <3>1. \A j \in 1 .. (Count(w) - 1) : j \in 1 .. Count(w)
      BY <2>6
    <3>2. Count(w) \in 1 .. Count(w) /\ 1 \in 1 .. Count(w)
      BY <2>6
    <3> QED BY <2>5, <3>1, <3>2
  <2>8. /\ w.kind = "call" =>
             w.means = <<"call", Wanted(m, w, Count(w)),
                         [j \in 1 .. (Count(w) - 1) |-> Wanted(m, w, j)]>>
        /\ w.kind = "embed" => Count(w) = 1 /\ w.means = Wanted(m, w, 1)
    BY <1>6 DEF GoesWell
  <2>9. /\ x.kind = "call" =>
             x.means = <<"call", Wanted(l, x, Count(x)),
                         [j \in 1 .. (Count(x) - 1) |-> Wanted(l, x, j)]>>
        /\ x.kind = "embed" => Count(x) = 1 /\ x.means = Wanted(l, x, 1)
    BY <1>4, <2>4, <2>7, <2>8
  <2> QED BY <1>4, <2>1, <2>2, <2>3, <2>4, <2>6, <2>9 DEF GoesWell
<1> QED BY <1>4, <1>5, <1>6 DEF c, q

\* What the contexts hold after a step of t that leaves stack and tables alone.
LEMMA OnlyThread ==
  ASSUME TraceInv, NEW t \in Threads,
         UNCHANGED <<table, stack, open, pushed, ended>>, mixed \subseteq mixed',
         known' = [u \in Threads |-> known'[u]],
         work' = [u \in Threads |-> work'[u]],
         \A u \in Threads \ {t} : known'[u] = known[u] /\ work'[u] = work[u],
         \A v \in known'[t] : v \in known[t] \/ ValueFine(v)',
         (Idle(t) \/ WorkFine(t))'
  PROVE  TraceInv'
<1>1. \A v : ValueFine(v) => ValueFine(v)'
  BY DEF ValueFine
<1>2. \A e : ResultFine(e) => ResultFine(e)'
  BY DEF ResultFine
<1>3. ASSUME NEW u \in Threads PROVE (Idle(u) \/ WorkFine(u))'
  <2>1. CASE u = t
    BY <2>1
  <2>2. CASE u # t
    <3>1. work'[u] = work[u] /\ (Idle(u) \/ WorkFine(u))
      BY <2>2 DEF TraceInv
    <3> QED BY <3>1 DEF Idle, WorkFine, Tracing
  <2> QED BY <2>1, <2>2
<1>4. ASSUME NEW u \in Threads, NEW v \in known'[u] PROVE ValueFine(v)'
  <2>1. CASE u = t
    BY <1>1, <1>4, <2>1 DEF TraceInv
  <2>2. CASE u # t
    BY <1>1, <1>4, <2>2 DEF TraceInv
  <2> QED BY <2>1, <2>2
<1>5. \A c \in Contexts \ mixed' : Forward(table'[c])
  BY DEF TraceInv
<1>6. /\ table' = [c \in Contexts |-> table'[c]] /\ stack' \in Seq(Contexts)
      /\ open' \in [Threads -> Seq(Contexts)] /\ pushed' \in 0 .. MaxContexts
      /\ \A e \in ended' : ResultFine(e)'
  BY <1>2 DEF TraceInv
<1> QED BY <1>3, <1>4, <1>5, <1>6 DEF TraceInv

\* A table extends itself.
LEMMA SameTable ==
  ASSUME NEW c, NEW m, Forward(m)
  PROVE  Extends(c, m, m)
  BY DEF Extends, Forward

\* A name that is found stands for what its IR does.
LEMMA FoundName ==
  ASSUME NEW c, NEW m, Forward(m), NEW ir, NEW means, Stands(c, m, ir, means),
         HasValue(m, ir)
  PROVE  /\ m.value_to_key_[ir] \in ARG .. (Size(m) - 1)
         /\ Named(c, m.value_to_key_[ir], LocalMeanings(c, m)) = means
<1> DEFINE n == m.value_to_key_[ir]
<1>1. n \in 0 .. (Size(m) - 1) /\ m.key_to_value_[n] = ir
  BY DEF Forward, HasValue
<1>2. LocalMeanings(c, m)[n] = Meaning(c, ir, LocalMeanings(c, m))
  BY <1>1, LocalsAreDefined
<1> HIDE DEF n
<1>3. n # ARG /\ n \in ARG .. (Size(m) - 1)
  BY <1>1 DEF ARG
<1> QED BY <1>2, <1>3 DEF Named, Stands, n

\* A reference stands for what it names.
LEMMA ReferenceStands ==
  ASSUME NEW c, NEW m, NEW ir, NEW means, Stands(c, m, ir, means), ir[1] = "ref"
  PROVE  /\ ir[2] \in ARG .. (Size(m) - 1)
         /\ Named(c, ir[2], LocalMeanings(c, m)) = means
<1>1. ir[2] \in Names(ir)
  BY DEF Names
<1>2. Meaning(c, ir, LocalMeanings(c, m)) = Named(c, ir[2], LocalMeanings(c, m))
  BY DEF Meaning
<1> QED BY <1>1, <1>2 DEF Stands

\* The next value of a call is replaced: what its name has to be.
LEMMA ReplaceNext ==
  ASSUME TraceInv, NEW t \in Threads, ~Idle(t), work[t].todo # <<>>,
         NEW n, Replaced(t, n)
  PROVE  LET w == work[t]
             m == table[w.context]
         IN /\ work' = [u \in Threads |-> work'[u]]
            /\ \A u \in Threads \ {t} : work'[u] = work[u]
            /\ IsWork(work'[t]) /\ work'[t].context = w.context
            /\ w.todo[1] = NextValue(t)
            /\ w.context \notin mixed =>
                 /\ Forward(m) /\ Tracing(t) /\ w.context = Last(open[t])
                 /\ Stands(w.context, m, w.todo[1].ir, w.todo[1].means)
                 /\ \A l :
                      /\ Extends(w.context, m, l)
                      /\ n \in ARG .. (Size(l) - 1)
                      /\ Named(w.context, n, LocalMeanings(w.context, l))
                           = w.todo[1].means
                      => GoesWell(l, work'[t])
<1> DEFINE w == work[t]
           m == table[w.context]
           x == work'[t]
<1>1. IsWork(w) /\ w.todo # <<>> /\ WorkFine(t)
  BY DEF TraceInv, WorkFine
<1>2. /\ x = [kind |-> w.kind, context |-> w.context, todo |-> Tail(w.todo),
              done |-> Append(w.done, n), name |-> ARG, means |-> w.means]
      /\ work' = [u \in Threads |-> work'[u]]
      /\ \A u \in Threads \ {t} : work'[u] = work[u]
  <2>1. work = [u \in Threads |-> work[u]]
    BY DEF TraceInv
  <2>2. w = [kind |-> w.kind, context |-> w.context, todo |-> w.todo,
             done |-> w.done, name |-> w.name, means |-> w.means]
    BY <1>1 DEF IsWork
  <2>3. work' = [work EXCEPT ![t] =
          [w EXCEPT !.todo = Tail(@), !.done = Append(@, n), !.name = ARG]]
    BY <2>1 DEF Replaced
  <2>4. x = [w EXCEPT !.todo = Tail(@), !.done = Append(@, n), !.name = ARG]
    BY <2>1, <2>3
  <2> HIDE DEF x, w
  <2>5. x = [kind |-> w.kind, context |-> w.context, todo |-> Tail(w.todo),
             done |-> Append(w.done, n), name |-> ARG, means |-> w.means]
    BY <2>2, <2>4, AfterReplacement
  <2>6. /\ work' = [u \in Threads |-> work'[u]]
        /\ \A u \in Threads \ {t} : work'[u] = work[u]
    BY <2>1, <2>3
  <2> QED BY <2>5, <2>6
<1>3. w.todo[1] = NextValue(t)
  <2>1. PICK S : w.todo \in Seq(S)
    BY <1>1 DEF IsWork
  <2> QED BY <1>1, <2>1, HeadTailProperties DEF NextValue
<1>4. ASSUME w.context \notin mixed
      PROVE  /\ Forward(m) /\ Tracing(t) /\ w.context = Last(open[t])
             /\ GoesWell(m, w) /\ w.context \in Contexts
             /\ Stands(w.context, m, w.todo[1].ir, w.todo[1].means)
  <2>1. w.context \in Contexts /\ Forward(m)
    BY <1>1, <1>4 DEF IsWork, TraceInv
  <2>2. Tracing(t) /\ w.context = Last(open[t]) /\ GoesWell(m, w)
    BY <1>1, <1>4 DEF WorkFine
  <2>3. 1 \in 1 .. Len(w.todo)
    <3>1. PICK S : w.todo \in Seq(S)
      BY <1>1 DEF IsWork
    <3> QED BY <1>1, <3>1, EmptySeq
  <2> QED BY <2>1, <2>2, <2>3 DEF GoesWell
<1> HIDE DEF w, m, x
<1>5. /\ IsWork(x) /\ x.context = w.context
      /\ \A l : /\ GoesWell(m, w)
                /\ Extends(w.context, m, l)
                /\ n \in ARG .. (Size(l) - 1)
                /\ Named(w.context, n, LocalMeanings(w.context, l)) = w.todo[1].means
                => GoesWell(l, x)
  <2>1. /\ IsWork(x) /\ x.context = w.context
        /\ \A k, l : /\ GoesWell(k, w)
                     /\ Extends(w.context, k, l)
                     /\ n \in ARG .. (Size(l) - 1)
                     /\ Named(w.context, n, LocalMeanings(w.context, l)) = w.todo[1].means
                     => GoesWell(l, x)
    BY <1>1, <1>2, ReplaceOne
  <2> QED BY <2>1
<1> QED BY <1>2, <1>3, <1>4, <1>5 DEF w, m, x

\* A reference is kept, or an IR that has a name is replaced by it.
LEMMA KeepOrReuse ==
  ASSUME TraceInv, NEW t \in Threads, KeepReference(t) \/ ReuseName(t)
  PROVE  TraceInv'
<1> DEFINE w == work[t]
           m == table[w.context]
           v == NextValue(t)
           n == IF v.ir[1] = "ref" THEN v.ir[2] ELSE m.value_to_key_[v.ir]
<1>1. /\ ~Idle(t) /\ w.todo # <<>> /\ Replaced(t, n)
      /\ v.ir[1] = "ref" \/ HasValue(m, v.ir)
      /\ UNCHANGED <<stackVars, table, known, ended, mixed>>
  BY DEF KeepReference, ReuseName, Replacing, Seen
<1>2. UNCHANGED <<table, stack, open, pushed, ended, known, mixed>>
  BY <1>1 DEF stackVars
<1> HIDE DEF n
<1>3. /\ work' = [u \in Threads |-> work'[u]]
      /\ \A u \in Threads \ {t} : work'[u] = work[u]
      /\ IsWork(work'[t]) /\ work'[t].context = w.context
      /\ w.todo[1] = v
      /\ w.context \notin mixed =>
           /\ Forward(m) /\ Tracing(t) /\ w.context = Last(open[t])
           /\ Stands(w.context, m, w.todo[1].ir, w.todo[1].means)
           /\ \A l :
                /\ Extends(w.context, m, l)
                /\ n \in ARG .. (Size(l) - 1)
                /\ Named(w.context, n, LocalMeanings(w.context, l))
                     = w.todo[1].means
                => GoesWell(l, work'[t])
  BY <1>1, ReplaceNext
<1> HIDE DEF w, m, v
<1>4. ASSUME w.context \notin mixed
      PROVE  GoesWell(m, work'[t])
  <2>1. Forward(m) /\ Stands(w.context, m, v.ir, v.means)
    BY <1>3, <1>4
  <2>2. /\ n \in ARG .. (Size(m) - 1)
        /\ Named(w.context, n, LocalMeanings(w.context, m)) = v.means
    <3>1. CASE v.ir[1] = "ref"
      BY <2>1, <3>1, ReferenceStands DEF n
    <3>2. CASE v.ir[1] # "ref"
      BY <1>1, <2>1, <3>2, FoundName DEF n
    <3> QED BY <3>1, <3>2
  <2> QED BY <1>3, <1>4, <2>1, <2>2, SameTable
<1>5. WorkFine(t)'
  BY <1>2, <1>3, <1>4 DEF WorkFine, Tracing, m
<1>6. known' = [u \in Threads |-> known'[u]]
  BY <1>2 DEF TraceInv
<1> QED BY <1>2, <1>3, <1>5, <1>6, OnlyThread

\* A new name is made; the table does not have it yet.
LEMMA MakeNameKeeps ==
  ASSUME TraceInv, NEW t \in Threads, MakeName(t)
  PROVE  TraceInv'
<1> DEFINE w == work[t]
           m == table[w.context]
           x == work'[t]
<1>1. /\ ~Idle(t) /\ w.todo # <<>> /\ ~HasValue(m, NextValue(t).ir)
      /\ work' = [work EXCEPT ![t] = [w EXCEPT !.name = Size(m)]]
      /\ UNCHANGED <<stackVars, table, known, ended, mixed>>
  <2>1. work' = [work EXCEPT ![t].name = Size(m)]
    BY DEF MakeName, NewName
  <2> QED BY <2>1 DEF MakeName, Replacing, Seen, TraceInv
<1>2. UNCHANGED <<table, stack, open, pushed, ended, known, mixed>>
  BY <1>1 DEF stackVars
<1>3. WorkFine(t) /\ IsWork(w)
  BY <1>1 DEF TraceInv, WorkFine
<1>4. /\ x = [w EXCEPT !.name = Size(m)]
      /\ work' = [u \in Threads |-> work'[u]]
      /\ \A u \in Threads \ {t} : work'[u] = work[u]
  BY <1>1 DEF TraceInv
<1>5. NextValue(t) = w.todo[1]
  <2>1. PICK S : w.todo \in Seq(S)
    BY <1>3 DEF IsWork
  <2> QED BY <1>1, <2>1, HeadTailProperties DEF NextValue
<1>6. ~HasValue(m, w.todo[1].ir) /\ w.todo # <<>>
  BY <1>1, <1>5
<1>7. w.context \notin mixed =>
        Tracing(t) /\ w.context = Last(open[t]) /\ GoesWell(m, w)
  BY <1>3 DEF WorkFine
<1>8. known' = [u \in Threads |-> known'[u]]
  BY <1>2 DEF TraceInv
<1> HIDE DEF w, x, m
<1>9. x = [kind |-> w.kind, context |-> w.context, todo |-> w.todo,
           done |-> w.done, name |-> Size(m), means |-> w.means]
  BY <1>3, <1>4 DEF IsWork
<1>10. /\ x.kind = w.kind /\ x.context = w.context /\ x.todo = w.todo
       /\ x.done = w.done /\ x.name = Size(m) /\ x.means = w.means
       /\ x = [kind |-> x.kind, context |-> x.context, todo |-> x.todo,
               done |-> x.done, name |-> x.name, means |-> x.means]
  BY <1>9
<1>11. IsWork(x)
  BY <1>3, <1>6, <1>10 DEF IsWork
<1>12. ASSUME GoesWell(m, w) PROVE GoesWell(m, x)
  <2>1. Count(x) = Count(w) /\ \A j : Wanted(m, x, j) = Wanted(m, w, j)
    BY <1>10 DEF Count, Wanted
  <2> QED BY <1>6, <1>10, <1>12, <2>1 DEF GoesWell
<1>13. WorkFine(t)'
  BY <1>2, <1>7, <1>10, <1>11, <1>12 DEF WorkFine, Tracing, m, x
<1> QED BY <1>2, <1>4, <1>8, <1>13, OnlyThread

\* A constant stands for itself in any context.
LEMMA ConstantStands ==
  ASSUME NEW c, NEW m, NEW g \in Callables
  PROVE  Stands(c, m, Constant(g).ir, Constant(g).means)
<1> DEFINE ir == <<"fn", g>>
<1>1. Constant(g).ir = ir /\ Constant(g).means = ir /\ ir[1] = "fn"
  BY DEF Constant
<1>2. ir \in Irs
  BY DEF Irs
<1> HIDE DEF ir
<1>3. Names(ir) = {} /\ Meaning(c, ir, LocalMeanings(c, m)) = ir
  BY <1>1 DEF Names, Meaning
<1> QED BY <1>1, <1>2, <1>3 DEF Stands

\* A call or embed begins in the context on top: if that is the trace's own and
\* the trace uses no value of another, all the values stand.
LEMMA StartWorkKeeps ==
  ASSUME StackInv, TraceInv, NEW t \in Threads,
         NEW kind \in {"call", "embed"}, NEW meaning,
         NEW values \in Seq(known[t] \cup {Constant(g) : g \in Callables}),
         StartWork(t, kind, values, meaning), Len(values) >= 1,
         kind = "call" =>
           meaning = <<"call", values[Len(values)].means,
                       [n \in 1 .. (Len(values) - 1) |-> values[n].means]>>,
         kind = "embed" => Len(values) = 1 /\ meaning = values[1].means
  PROVE  TraceInv'
<1> DEFINE c == current_context
           m == table[c]
           x == work'[t]
           top == Last(open[t])
<1>1. /\ Tracing(t)
      /\ work' = [work EXCEPT ![t] =
           [kind |-> kind, context |-> c, todo |-> values,
            done |-> <<>>, name |-> ARG, means |-> meaning]]
      /\ mixed' = mixed \cup
           (IF c # top \/ Foreign(t, values) THEN {c, top} ELSE {})
      /\ UNCHANGED <<table, stack, open, pushed, ended, known>>
  BY DEF StartWork, stackVars
<1>2. /\ x = [kind |-> kind, context |-> c, todo |-> values,
              done |-> <<>>, name |-> ARG, means |-> meaning]
      /\ work' = [u \in Threads |-> work'[u]]
      /\ \A u \in Threads \ {t} : work'[u] = work[u]
      /\ known' = [u \in Threads |-> known'[u]]
  BY <1>1 DEF TraceInv
<1>3. c \in Contexts
  <2>1. stack # <<>> /\ stack \in Seq(Contexts)
    BY <1>1, StackHasTop DEF TraceInv
  <2>2. Len(stack) \in 1 .. Len(stack)
    BY <2>1, EmptySeq
  <2> QED BY <2>1, <2>2, ElementOfSeq DEF current_context, Last
<1>4. ASSUME c \notin mixed'
      PROVE  c = top /\ ~Foreign(t, values) /\ c \notin mixed
  BY <1>1, <1>4
<1>5. ASSUME c \notin mixed', NEW j \in 1 .. Len(values)
      PROVE  Stands(c, m, values[j].ir, values[j].means)
  <2>1. values[j].home \in {0, c}
    BY <1>4, <1>5 DEF Foreign
  <2>2. values[j] \in known[t] \cup {Constant(g) : g \in Callables}
    BY ElementOfSeq
  <2>3. CASE values[j] \in known[t]
    <3>1. ValueFine(values[j])
      BY <2>3 DEF TraceInv
    <3>2. values[j].home \in Contexts /\ 0 \notin Contexts
      BY <3>1 DEF ValueFine, Contexts
    <3>3. values[j].home = c
      BY <2>1, <3>2
    <3> QED BY <1>4, <1>5, <3>1, <3>3 DEF ValueFine
  <2>4. CASE \E g \in Callables : values[j] = Constant(g)
    BY <2>4, ConstantStands
  <2> QED BY <2>2, <2>3, <2>4
<1> HIDE DEF c, m, x, top
<1>6. /\ x.kind = kind /\ x.context = c /\ x.todo = values /\ x.done = <<>>
      /\ x.name = ARG /\ x.means = meaning
      /\ x = [kind |-> x.kind, context |-> x.context, todo |-> x.todo,
              done |-> x.done, name |-> x.name, means |-> x.means]
  BY <1>2
<1>7. IsWork(x)
  BY <1>3, <1>6 DEF IsWork
<1>8. ASSUME c \notin mixed'
      PROVE  GoesWell(m, x)
  <2>1. x.done \in Seq(Int) /\ Len(x.done) = 0 /\ Len(values) \in Nat
    BY <1>6
  <2>2. Count(x) = Len(values)
    BY <1>6, <2>1 DEF Count
  <2>3. ASSUME NEW j \in 1 .. Len(values) PROVE Wanted(m, x, j) = values[j].means
    <3>1. ~(j <= Len(x.done)) /\ j - Len(x.done) = j
      BY <2>1
    <3> QED BY <1>6, <3>1 DEF Wanted
  <2>4. /\ Wanted(m, x, Len(values)) = values[Len(values)].means
        /\ Wanted(m, x, 1) = values[1].means
        /\ [j \in 1 .. (Len(values) - 1) |-> Wanted(m, x, j)]
             = [j \in 1 .. (Len(values) - 1) |-> values[j].means]
    <3>1. \A j \in 1 .. (Len(values) - 1) : j \in 1 .. Len(values)
      BY <2>1
    <3>2. Len(values) \in 1 .. Len(values) /\ 1 \in 1 .. Len(values)
      BY <2>1
    <3> QED BY <2>3, <3>1, <3>2
  <2>5. /\ x.kind = "call" =>
             x.means = <<"call", Wanted(m, x, Count(x)),
                         [j \in 1 .. (Count(x) - 1) |-> Wanted(m, x, j)]>>
        /\ x.kind = "embed" => Count(x) = 1 /\ x.means = Wanted(m, x, 1)
    BY <1>6, <2>2, <2>4
  <2>6. \A j \in 1 .. Len(x.todo) : Stands(x.context, m, x.todo[j].ir, x.todo[j].means)
    BY <1>5, <1>6, <1>8
  <2>7. \A j \in 1 .. Len(x.done) : x.done[j] \in ARG .. (Size(m) - 1)
    BY <2>1
  <2> QED BY <1>6, <2>1, <2>2, <2>5, <2>6, <2>7 DEF GoesWell
<1>9. WorkFine(t)'
  BY <1>1, <1>4, <1>6, <1>7, <1>8 DEF WorkFine, Tracing, m, x, top
<1>10. mixed \subseteq mixed'
  BY <1>1
<1> QED BY <1>1, <1>2, <1>9, <1>10, OnlyThread

\* What a call passes, and its function, after them.
LEMMA CallKeeps ==
  ASSUME StackInv, TraceInv, NEW t \in Threads, call(t)
  PROVE  TraceInv'
<1> DEFINE V == known[t] \cup {Constant(g) : g \in Callables}
<1>1. PICK f \in Callables :
        \E args \in TupleOf(V, 1) \cup TupleOf(known[t], 2) :
          StartWork(t, "call", Append(args, Constant(f)),
                    <<"call", <<"fn", f>>, [n \in 1 .. Len(args) |-> args[n].means]>>)
  BY DEF call
<1>2. PICK args \in TupleOf(V, 1) \cup TupleOf(known[t], 2) :
        StartWork(t, "call", Append(args, Constant(f)),
                  <<"call", <<"fn", f>>, [n \in 1 .. Len(args) |-> args[n].means]>>)
  BY <1>1
<1>3. args \in Seq(V) /\ Constant(f) \in V
  <2> DEFINE B == known[t]
  <2>1. args \in [1 .. 1 -> V] \/ args \in [1 .. 2 -> B]
    BY <1>2 DEF TupleOf
  <2>2. B \subseteq V /\ Constant(f) \in V
    OBVIOUS
  <2> HIDE DEF B, V
  <2>3. args \in [1 .. 1 -> V] \/ args \in [1 .. 2 -> V]
    BY <2>1, <2>2
  <2>4. \A n \in Nat : [1 .. n -> V] \subseteq Seq(V)
    BY SeqDef
  <2>5. args \in Seq(V)
    BY <2>3, <2>4
  <2> QED BY <2>2, <2>5
<1> DEFINE values == Append(args, Constant(f))
           meaning == <<"call", <<"fn", f>>, [n \in 1 .. Len(args) |-> args[n].means]>>
<1>4. /\ values \in Seq(V) /\ Len(values) = Len(args) + 1 /\ Len(args) \in Nat
      /\ values[Len(args) + 1] = Constant(f)
      /\ \A n \in 1 .. Len(args) : values[n] = args[n]
  BY <1>3, AppendProperties
<1>5. StartWork(t, "call", values, meaning)
  BY <1>2
<1> HIDE DEF values, V
<1>6. values[Len(values)].means = <<"fn", f>>
  BY <1>4 DEF Constant
<1>7. /\ Len(values) - 1 = Len(args) /\ Len(values) >= 1
      /\ [n \in 1 .. (Len(values) - 1) |-> values[n].means]
           = [n \in 1 .. Len(args) |-> args[n].means]
  BY <1>4
<1>8. meaning = <<"call", values[Len(values)].means,
                  [n \in 1 .. (Len(values) - 1) |-> values[n].means]>>
  BY <1>6, <1>7
<1> HIDE DEF meaning
<1> QED BY <1>4, <1>5, <1>7, <1>8, StartWorkKeeps DEF V

\* What embed is given is a constant.
LEMMA EmbedKeeps ==
  ASSUME StackInv, TraceInv, NEW t \in Threads, embed(t)
  PROVE  TraceInv'
<1> DEFINE V == known[t] \cup {Constant(g) : g \in Callables}
<1>1. PICK f \in Callables : StartWork(t, "embed", <<Constant(f)>>, <<"fn", f>>)
  BY DEF embed
<1>2. Constant(f) \in V /\ Constant(f).means = <<"fn", f>>
  BY DEF Constant
<1> DEFINE values == <<Constant(f)>>
           meaning == <<"fn", f>>
<1> HIDE DEF V
<1>3. values \in Seq(V) /\ Len(values) = 1 /\ values[1].means = meaning
  BY <1>2
<1>4. StartWork(t, "embed", values, meaning)
  BY <1>1
<1> HIDE DEF values, meaning
<1>5. Len(values) >= 1 /\ "embed" # "call" /\ "embed" \in {"call", "embed"}
  BY <1>3
<1> QED BY <1>3, <1>4, <1>5, StartWorkKeeps DEF V

\* All operands of a call have names: the call stands for what it means.
LEMMA CallStands ==
  ASSUME NEW m, Forward(m), NEW w, GoesWell(m, w), w.todo = <<>>, w.kind = "call"
  PROVE  Stands(w.context, m, CallOf(w.done), w.means)
<1> DEFINE d == w.done
           c == w.context
           local == LocalMeanings(w.context, m)
           k == Len(w.done) - 1
<1>1. /\ d \in Seq(Int) /\ Count(w) = Len(d) /\ Len(d) \in Nat /\ Len(d) >= 1
      /\ \A j \in 1 .. Len(d) : d[j] \in ARG .. (Size(m) - 1)
  BY DEF GoesWell, Count
<1>2. w.means = <<"call", Wanted(m, w, Len(d)),
                  [j \in 1 .. (Len(d) - 1) |-> Wanted(m, w, j)]>>
  <2>1. w.means = <<"call", Wanted(m, w, Count(w)),
                    [j \in 1 .. (Count(w) - 1) |-> Wanted(m, w, j)]>>
    BY DEF GoesWell
  <2> QED BY <1>1, <2>1
<1>3. \A j \in 1 .. Len(d) : Wanted(m, w, j) = Named(c, d[j], local)
  BY <1>1 DEF Wanted
<1> HIDE DEF d, c, local
<1>4. /\ k \in Nat /\ k + 1 = Len(d) /\ Len(d) \in 1 .. Len(d)
      /\ \A j \in 1 .. k : j \in 1 .. Len(d)
  BY <1>1 DEF d
<1>5. /\ Last(d) = d[Len(d)] /\ Front(d) = SubSeq(d, 1, k)
  BY DEF Last, Front, d
<1> HIDE DEF k
<1>6. /\ Front(d) \in Seq(Int) /\ Len(Front(d)) = k
      /\ \A j \in 1 .. k : Front(d)[j] = d[j]
  <2>1. \A j \in 1 .. k : d[j] \in Int
    BY <1>1, <1>4, ElementOfSeq
  <2> QED BY <1>1, <1>4, <1>5, <2>1, SubSeqProperties
<1> DEFINE l == Last(d)
           s == Front(d)
           ir == <<"call", l, s>>
<1>7. l \in ARG .. (Size(m) - 1) /\ l \in Int
  BY <1>1, <1>4, <1>5, ElementOfSeq
<1>8. ir = CallOf(d)
  BY DEF CallOf
<1> HIDE DEF l, s
<1>9. ir \in Irs
  BY <1>6, <1>7 DEF Irs, s
<1>10. Names(ir) \subseteq ARG .. (Size(m) - 1)
  <2>1. Names(ir) = {l} \cup Range(s)
    BY DEF Names
  <2>2. DOMAIN s = 1 .. k
    BY <1>6 DEF s
  <2>3. \A j \in 1 .. k : s[j] \in ARG .. (Size(m) - 1)
    BY <1>1, <1>4, <1>6 DEF s
  <2> QED BY <1>7, <2>1, <2>2, <2>3 DEF Range
<1>11. Meaning(c, ir, local)
         = <<"call", Named(c, l, local), [j \in 1 .. k |-> Named(c, s[j], local)]>>
  <2>1. Len(s) = k
    BY <1>6 DEF s
  <2>2. ir[1] = "call" /\ ir[2] = l /\ ir[3] = s
    OBVIOUS
  <2> HIDE DEF ir
  <2> QED BY <2>1, <2>2 DEF Meaning
<1>12. Named(c, l, local) = Wanted(m, w, Len(d))
  BY <1>3, <1>4, <1>5 DEF l
<1>13. [j \in 1 .. k |-> Named(c, s[j], local)]
         = [j \in 1 .. (Len(d) - 1) |-> Wanted(m, w, j)]
  BY <1>3, <1>4, <1>6 DEF s, k, d
<1>14. Meaning(c, ir, local) = w.means
  BY <1>2, <1>11, <1>12, <1>13
<1> HIDE DEF ir
<1> QED BY <1>8, <1>9, <1>10, <1>14 DEF Stands, c, d, local

\* A call or embed is over, and the trace holds what it returned.
LEMMA LearnKeeps ==
  ASSUME TraceInv, NEW t \in Threads, ~Idle(t), NEW ir, Learn(t, ir),
         UNCHANGED <<stackVars, table, ended, mixed>>,
         work[t].context \notin mixed =>
           Stands(work[t].context, table[work[t].context], ir, work[t].means)
  PROVE  TraceInv'
<1> PICK v : v = [ir |-> ir, means |-> work[t].means, home |-> work[t].context]
  OBVIOUS
<1>1. UNCHANGED <<table, stack, open, pushed, ended, mixed>>
  BY DEF stackVars
<1>2. /\ known' = [known EXCEPT ![t] = known[t] \cup {v}]
      /\ work' = [work EXCEPT ![t] = NoWork]
  BY DEF Learn, TraceInv
<1>3. /\ v.ir = ir /\ v.means = work[t].means /\ v.home = work[t].context
      /\ work[t].context \in Contexts
  BY DEF TraceInv, WorkFine, IsWork
<1>4. ValueFine(v)'
  BY <1>1, <1>3 DEF ValueFine
<1>5. /\ known' = [u \in Threads |-> known'[u]]
      /\ work' = [u \in Threads |-> work'[u]]
      /\ \A u \in Threads \ {t} : known'[u] = known[u] /\ work'[u] = work[u]
      /\ known'[t] = known[t] \cup {v} /\ work'[t] = NoWork
  BY <1>2 DEF TraceInv
<1>6. \A x \in known'[t] : x \in known[t] \/ ValueFine(x)'
  BY <1>4, <1>5
<1>7. Idle(t)'
  BY <1>5 DEF Idle
<1> QED BY <1>1, <1>5, <1>6, <1>7, OnlyThread

\* A C++ trace holds the call, a Python trace its name.
LEMMA ReturnKeeps ==
  ASSUME TraceInv, NEW t \in Threads, ReturnCall(t) \/ ReturnReference(t)
  PROVE  TraceInv'
<1> DEFINE w == work[t]
           c == w.context
           m == table[c]
<1>1. ~Idle(t) /\ w.todo = <<>> /\ UNCHANGED <<stackVars, table, ended, mixed>>
  BY DEF ReturnCall, ReturnReference, AllReplaced
<1>2. WorkFine(t)
  BY <1>1 DEF TraceInv
<1>3. ASSUME c \notin mixed PROVE Forward(m) /\ GoesWell(m, w)
  BY <1>2, <1>3 DEF TraceInv, WorkFine, IsWork
<1>4. CASE ReturnCall(t)
  <2>1. w.kind = "call" /\ Learn(t, CallOf(w.done))
    BY <1>4 DEF ReturnCall
  <2>2. c \notin mixed => Stands(c, m, CallOf(w.done), w.means)
    BY <1>1, <1>3, <2>1, CallStands
  <2> QED BY <1>1, <2>1, <2>2, LearnKeeps
<1>5. CASE ReturnReference(t)
  <2>1. w.kind = "embed" /\ Learn(t, <<"ref", Last(w.done)>>)
    BY <1>5 DEF ReturnReference
  <2>2. ASSUME c \notin mixed
        PROVE  Stands(c, m, <<"ref", Last(w.done)>>, w.means)
    <3>1. /\ w.done \in Seq(Int) /\ Count(w) = 1 /\ w.means = Wanted(m, w, 1)
          /\ \A j \in 1 .. Len(w.done) : w.done[j] \in ARG .. (Size(m) - 1)
      BY <1>3, <2>1, <2>2 DEF GoesWell
    <3>2. Len(w.done) = 1
      <4>1. Len(w.todo) = 0 /\ Len(w.done) \in Nat
        BY <1>1, <3>1
      <4> QED BY <3>1, <4>1 DEF Count
    <3>3. Last(w.done) = w.done[1] /\ w.done[1] \in ARG .. (Size(m) - 1)
      BY <3>1, <3>2 DEF Last
    <3>4. w.means = Named(c, w.done[1], LocalMeanings(c, m))
      BY <3>1, <3>2 DEF Wanted
    <3> DEFINE n == w.done[1]
               ir == <<"ref", n>>
    <3>5. ir \in Irs /\ ir[1] = "ref" /\ ir[2] = n
      BY <3>3 DEF Irs
    <3> HIDE DEF n, ir, c, m
    <3>6. Names(ir) = {n} /\ Meaning(c, ir, LocalMeanings(c, m)) = Named(c, n, LocalMeanings(c, m))
      BY <3>5 DEF Names, Meaning
    <3>7. Stands(c, m, ir, w.means)
      BY <3>3, <3>4, <3>5, <3>6 DEF Stands, n
    <3> QED BY <3>3, <3>7 DEF ir, n
  <2> QED BY <1>1, <2>1, <2>2, LearnKeeps
<1> QED BY <1>4, <1>5

\* A Python call is replaced by a name, like a value that is embedded.
LEMMA ReplaceCallKeeps ==
  ASSUME TraceInv, NEW t \in Threads, ReplaceCall(t)
  PROVE  TraceInv'
<1> DEFINE w == work[t]
           c == w.context
           m == table[c]
           x == work'[t]
<1> PICK v : v = [ir |-> CallOf(w.done), means |-> w.means, home |-> c]
  OBVIOUS
<1>1. /\ ~Idle(t) /\ w.todo = <<>> /\ w.kind = "call"
      /\ UNCHANGED <<stackVars, table, known, ended, mixed>>
  BY DEF ReplaceCall, AllReplaced
<1>2. UNCHANGED <<table, stack, open, pushed, ended, known, mixed>>
  BY <1>1 DEF stackVars
<1>3. WorkFine(t) /\ IsWork(w) /\ w.name = ARG
  BY <1>1 DEF TraceInv, WorkFine, IsWork
<1>4. /\ x = [w EXCEPT !.kind = "embed", !.done = <<>>, !.todo = <<v>>]
      /\ work' = [u \in Threads |-> work'[u]]
      /\ \A u \in Threads \ {t} : work'[u] = work[u]
  <2>1. work' = [work EXCEPT ![t] =
          [w EXCEPT !.kind = "embed", !.done = <<>>, !.todo = <<v>>]]
    BY DEF ReplaceCall, TraceInv
  <2> QED BY <2>1 DEF TraceInv
<1>5. c \notin mixed =>
        /\ Forward(m) /\ Tracing(t) /\ c = Last(open[t]) /\ GoesWell(m, w)
  BY <1>3 DEF WorkFine, IsWork, TraceInv
<1>6. c \notin mixed => Stands(c, m, v.ir, v.means)
  BY <1>1, <1>5, CallStands
<1>7. known' = [u \in Threads |-> known'[u]]
  BY <1>2 DEF TraceInv
<1>8. v.means = w.means
  OBVIOUS
<1> HIDE DEF w, x, m, c
<1>9. x = [kind |-> "embed", context |-> w.context, todo |-> <<v>>,
           done |-> <<>>, name |-> ARG, means |-> w.means]
  BY <1>3, <1>4 DEF IsWork
<1>10. /\ x.kind = "embed" /\ x.context = w.context /\ x.todo = <<v>>
       /\ x.done = <<>> /\ x.name = ARG /\ x.means = w.means
       /\ x = [kind |-> x.kind, context |-> x.context, todo |-> x.todo,
               done |-> x.done, name |-> x.name, means |-> x.means]
  BY <1>9
<1>11. <<v>> \in Seq({v}) /\ Len(<<v>>) = 1 /\ <<v>>[1] = v
  OBVIOUS
<1>12. IsWork(x)
  BY <1>3, <1>10, <1>11 DEF IsWork
<1>13. ASSUME c \notin mixed PROVE GoesWell(m, x)
  <2>1. x.done \in Seq(Int) /\ Len(x.done) = 0 /\ Count(x) = 1
    BY <1>10, <1>11 DEF Count
  <2>2. Wanted(m, x, 1) = v.means
    <3>1. ~(1 <= Len(x.done)) /\ 1 - Len(x.done) = 1
      BY <2>1
    <3> QED BY <1>10, <1>11, <3>1 DEF Wanted
  <2>3. \A j \in 1 .. Len(x.todo) : Stands(x.context, m, x.todo[j].ir, x.todo[j].means)
    <3>1. \A j \in 1 .. Len(x.todo) : x.todo[j] = v
      BY <1>10, <1>11
    <3> QED BY <1>6, <1>10, <1>13, <3>1 DEF c
  <2> QED BY <1>8, <1>10, <2>1, <2>2, <2>3 DEF GoesWell
<1>14. WorkFine(t)'
  BY <1>2, <1>5, <1>10, <1>12, <1>13 DEF WorkFine, Tracing, m, x, c
<1> QED BY <1>2, <1>4, <1>7, <1>14, OnlyThread

\* The IR is entered under the name that was made for it: in a context that one
\* trace alone uses, neither is there yet, so C++ does what Python does, and
\* all that stands in the context keeps standing.
LEMMA EnterKeeps ==
  ASSUME StackInv, TraceInv, NEW t \in Threads, Enter(t)
  PROVE  TraceInv'
<1> DEFINE w == work[t]
           c == w.context
           m == table[c]
           l == table'[c]
           ir == NextValue(t).ir
           n == w.name
<1>1. /\ ~Idle(t) /\ n # ARG /\ Replaced(t, n)
      /\ table' = [table EXCEPT ![c] = Entered(table[c], n, ir)]
      /\ UNCHANGED <<stackVars, known, ended, mixed>>
  BY DEF Enter, TraceInv
<1>2. UNCHANGED <<stack, open, pushed, ended, known, mixed>>
  BY <1>1 DEF stackVars
<1>3. WorkFine(t) /\ c \in Contexts /\ w.todo # <<>>
  BY <1>1 DEF TraceInv, WorkFine, IsWork
<1>4. /\ l = Entered(m, n, ir) /\ table' = [d \in Contexts |-> table'[d]]
      /\ \A d \in Contexts \ {c} : table'[d] = table[d]
  BY <1>1, <1>3 DEF TraceInv
<1>5. /\ work' = [u \in Threads |-> work'[u]]
      /\ \A u \in Threads \ {t} : work'[u] = work[u]
      /\ IsWork(work'[t]) /\ work'[t].context = c
      /\ w.todo[1] = NextValue(t)
      /\ c \notin mixed =>
           /\ Forward(m) /\ Tracing(t) /\ c = Last(open[t])
           /\ Stands(c, m, w.todo[1].ir, w.todo[1].means)
           /\ \A k :
                /\ Extends(c, m, k)
                /\ n \in ARG .. (Size(k) - 1)
                /\ Named(c, n, LocalMeanings(c, k)) = w.todo[1].means
                => GoesWell(k, work'[t])
  BY <1>1, <1>3, ReplaceNext
<1>6. c \notin mixed => n = Size(m) /\ ~HasValue(m, ir)
  BY <1>1, <1>3, <1>5 DEF WorkFine, GoesWell
<1>7. known' = [u \in Threads |-> known'[u]]
  BY <1>2 DEF TraceInv
<1>8. w.todo[1].ir = ir
  BY <1>5
<1> HIDE DEF n, m, l, ir
<1>9. ASSUME c \notin mixed
      PROVE  /\ Forward(l) /\ Extends(c, m, l) /\ n \in ARG .. (Size(l) - 1)
             /\ Named(c, n, LocalMeanings(c, l)) = w.todo[1].means
  <2>1. /\ Forward(m) /\ n = Size(m) /\ ~HasValue(m, ir)
        /\ ir \in Irs /\ Names(ir) \subseteq ARG .. (Size(m) - 1)
        /\ Meaning(c, ir, LocalMeanings(c, m)) = w.todo[1].means
    BY <1>5, <1>6, <1>8, <1>9 DEF Stands
  <2>2. Size(m) \in Nat /\ ~HasKey(m, n)
    BY <2>1 DEF Forward, HasKey
  <2>3. l = Link(m, Size(m), ir)
    BY <1>4, <2>1, <2>2 DEF Entered, Insert, Done
  <2>4. /\ Forward(l) /\ Size(l) = Size(m) + 1
        /\ \A j \in 0 .. (Size(m) - 1) :
             LocalMeanings(c, l)[j] = LocalMeanings(c, m)[j]
        /\ LocalMeanings(c, l)[Size(m)] = Meaning(c, ir, LocalMeanings(c, m))
    BY <2>1, <2>3, Growth
  <2>5. n # ARG /\ n \in ARG .. (Size(l) - 1)
    BY <2>1, <2>2, <2>4 DEF ARG
  <2>6. Extends(c, m, l)
    BY <2>2, <2>4 DEF Extends
  <2> QED BY <2>1, <2>4, <2>5, <2>6 DEF Named
<1>10. \A a, b : c \notin mixed /\ Stands(c, m, a, b) => Stands(c, l, a, b)
  BY <1>9, StillStands
<1>11. \A d \in Contexts : \A a, b :
         d \notin mixed /\ Stands(d, table[d], a, b) => Stands(d, table'[d], a, b)
  BY <1>4, <1>10 DEF m, l
<1>12. \A v : ValueFine(v) => ValueFine(v)'
  BY <1>2, <1>11 DEF ValueFine
<1>13. \A e : ResultFine(e) => ResultFine(e)'
  BY <1>2, <1>11 DEF ResultFine
<1>14. \A d \in Contexts \ mixed' : Forward(table'[d])
  BY <1>2, <1>4, <1>9 DEF TraceInv, l
<1>15. ASSUME NEW u \in Threads PROVE (Idle(u) \/ WorkFine(u))'
  <2>1. CASE u = t
    <3>1. c \notin mixed =>
            Tracing(t) /\ c = Last(open[t]) /\ GoesWell(l, work'[t])
      BY <1>5, <1>9
    <3>2. WorkFine(t)'
      BY <1>2, <1>5, <3>1 DEF WorkFine, Tracing, l
    <3> QED BY <2>1, <3>2
  <2>2. CASE u # t /\ ~Idle(u)
    <3> DEFINE d == work[u].context
    <3>1. WorkFine(u) /\ work'[u] = work[u] /\ d \in Contexts
      BY <1>5, <2>2 DEF TraceInv, WorkFine, IsWork
    <3>2. ASSUME d \notin mixed PROVE d # c
      <4>1. /\ Tracing(u) /\ d = Last(open[u])
            /\ d = c => Tracing(t) /\ d = Last(open[t])
        BY <1>5, <3>1, <3>2 DEF WorkFine
      <4>2. /\ open[t] \in Seq(Nat) /\ open[u] \in Seq(Nat)
            /\ Apart(open[t], open[u])
        BY <2>2 DEF StackInv
      <4> HIDE DEF d, c
      <4> SUFFICES ASSUME d = c PROVE FALSE
        OBVIOUS
      <4>3. open[t] # <<>> /\ open[u] # <<>>
        BY <4>1 DEF Tracing
      <4>4. Len(open[t]) \in 1 .. Len(open[t]) /\ Len(open[u]) \in 1 .. Len(open[u])
        BY <4>2, <4>3, EmptySeq
      <4> QED BY <4>1, <4>2, <4>4 DEF Apart, Last
    <3>3. d \notin mixed => table'[d] = table[d]
      BY <1>4, <3>1, <3>2
    <3>4. WorkFine(u)'
      BY <1>2, <3>1, <3>3 DEF WorkFine, Tracing
    <3> QED BY <3>4
  <2>3. CASE u # t /\ Idle(u)
    <3>1. work'[u] = work[u]
      BY <1>5, <2>3
    <3> QED BY <2>3, <3>1 DEF Idle
  <2> QED BY <2>1, <2>2, <2>3
<1>16. \A u \in Threads : \A v \in known'[u] : ValueFine(v)'
  BY <1>2, <1>12 DEF TraceInv
<1>17. /\ stack' \in Seq(Contexts) /\ open' \in [Threads -> Seq(Contexts)]
       /\ pushed' \in 0 .. MaxContexts /\ \A e \in ended' : ResultFine(e)'
  BY <1>2, <1>13 DEF TraceInv
<1> QED BY <1>4, <1>5, <1>7, <1>14, <1>15, <1>16, <1>17 DEF TraceInv

\* Whatever its table, a context's parameters stand for the arguments.
LEMMA ParametersFine ==
  ASSUME TraceInv, NEW c \in Contexts, NEW k \in Nat \ {0}, NEW v \in Parameters(c, k)
  PROVE  ValueFine(v)
<1> DEFINE m == table[c]
<1>1. v.home = c
  BY DEF Parameters
<1>2. c \notin mixed => Forward(m)
  BY DEF TraceInv
<1> HIDE DEF m
<1>3. ASSUME c \notin mixed PROVE Stands(c, m, v.ir, v.means)
  <2>1. ARG \in ARG .. (Size(m) - 1)
    BY <1>2, <1>3 DEF Forward, ARG
  <2>2. CASE k = 1
    <3> DEFINE ir == <<"ref", ARG>>
    <3>1. v.ir = ir /\ v.means = <<"arg", c>>
      BY <2>2 DEF Parameters
    <3>2. ir[1] = "ref" /\ ir[2] = ARG /\ ir \in Irs
      BY DEF Irs, ARG
    <3> HIDE DEF ir
    <3>3. Names(ir) = {ARG} /\ Meaning(c, ir, LocalMeanings(c, m)) = <<"arg", c>>
      BY <3>2 DEF Names, Meaning, Named
    <3> QED BY <2>1, <3>1, <3>2, <3>3 DEF Stands
  <2>3. CASE k # 1
    <3>1. PICK i \in 0 .. (k - 1) :
            v = [ir |-> <<"sel", i>>, means |-> <<"sel", c, i>>, home |-> c]
      BY <2>3 DEF Parameters
    <3> DEFINE ir == <<"sel", i>>
    <3>2. v.ir = ir /\ v.means = <<"sel", c, i>> /\ i \in Nat
      BY <3>1
    <3>3. ir[1] = "sel" /\ ir[2] = i /\ ir \in Irs
      BY <3>2 DEF Irs
    <3> HIDE DEF ir
    <3>4. Names(ir) = {ARG} /\ Meaning(c, ir, LocalMeanings(c, m)) = <<"sel", c, i>>
      BY <3>3 DEF Names, Meaning
    <3> QED BY <2>1, <3>2, <3>3, <3>4 DEF Stands
  <2> QED BY <2>2, <2>3
<1> QED BY <1>1, <1>3 DEF ValueFine, m

\* A trace begins: it holds its parameters.
LEMMA AppendKeeps ==
  ASSUME TraceInv, NEW t \in Threads, append_nested_context(t)
  PROVE  TraceInv'
<1> DEFINE c == pushed + 1
<1>1. /\ Idle(t) /\ c \in Contexts /\ c \in 0 .. MaxContexts
      /\ pushed' = c /\ stack' = Append(stack, c)
      /\ open' = [open EXCEPT ![t] = Append(open[t], c)]
      /\ known' = [known EXCEPT ![t] = known[t] \cup Parameters(c, Arity[c])]
      /\ UNCHANGED <<table, work, ended, mixed>>
  BY TracingAssumption
     DEF append_nested_context, Runs, TraceInv, Contexts, TracingAssumption
<1> HIDE DEF c
<1>2. \A v : ValueFine(v) => ValueFine(v)'
  BY <1>1 DEF ValueFine
<1>3. \A e : ResultFine(e) => ResultFine(e)'
  BY <1>1 DEF ResultFine
<1>4. /\ known' = [u \in Threads |-> known'[u]]
      /\ known'[t] = known[t] \cup Parameters(c, Arity[c])
      /\ \A u \in Threads \ {t} : known'[u] = known[u] /\ open'[u] = open[u]
      /\ open' \in [Threads -> Seq(Contexts)] /\ stack' \in Seq(Contexts)
  <2>1. open[t] \in Seq(Contexts) /\ stack \in Seq(Contexts)
    BY DEF TraceInv
  <2>2. Append(open[t], c) \in Seq(Contexts) /\ Append(stack, c) \in Seq(Contexts)
    BY <1>1, <2>1, AppendProperties
  <2> QED BY <1>1, <2>2 DEF TraceInv
<1>5. ASSUME NEW u \in Threads, NEW v \in known'[u] PROVE ValueFine(v)'
  <2>1. CASE v \in known[u]
    BY <1>2, <2>1 DEF TraceInv
  <2>2. CASE u = t /\ v \in Parameters(c, Arity[c])
    <3>1. Arity[c] \in Nat \ {0}
      BY <1>1, TracingAssumption DEF TracingAssumption, Contexts
    <3> QED BY <1>1, <1>2, <2>2, <3>1, ParametersFine
  <2> QED BY <1>4, <1>5, <2>1, <2>2
<1>6. ASSUME NEW u \in Threads PROVE (Idle(u) \/ WorkFine(u))'
  <2>1. CASE u = t
    BY <1>1, <2>1 DEF Idle
  <2>2. CASE u # t
    <3>1. open'[u] = open[u] /\ (Idle(u) \/ WorkFine(u))
      BY <1>4, <2>2 DEF TraceInv
    <3> QED BY <1>1, <3>1 DEF Idle, WorkFine, Tracing
  <2> QED BY <2>1, <2>2
<1>7. /\ table' = [d \in Contexts |-> table'[d]]
      /\ work' = [u \in Threads |-> work'[u]]
      /\ \A d \in Contexts \ mixed' : Forward(table'[d])
      /\ \A e \in ended' : ResultFine(e)'
  BY <1>1, <1>3 DEF TraceInv
<1>8. pushed' \in 0 .. MaxContexts
  BY <1>1
<1> QED BY <1>4, <1>5, <1>6, <1>7, <1>8 DEF TraceInv

\* A trace ends: what it returns is a value it holds.
LEMMA RemoveKeeps ==
  ASSUME StackInv, TraceInv, LeaveInv, NEW t \in Threads,
         RemoveNestedContext(t) \/ pop(t) \/ RemoveFails(t)
  PROVE  TraceInv'
<1> DEFINE top == Last(open[t])
<1>1. /\ Idle(t) /\ open[t] # <<>>
      /\ open' = [open EXCEPT ![t] = Front(open[t])]
      /\ known' = [known EXCEPT ![t] = {v \in known[t] : v.home # top}]
      /\ UNCHANGED <<table, work, pushed>>
      /\ \/ stack' = stack
         \/ stack # <<>> /\ stack' = Front(stack)
  <2>1. Idle(t) /\ Tracing(t) /\ Closed(t)
    BY DEF RemoveNestedContext, pop, PopContext, RemoveFails, Runs, StackInv,
           LeaveInv
  <2>2. \/ stack' = stack
        \/ stack # <<>> /\ stack' = Front(stack)
    BY <2>1, StackHasTop DEF RemoveNestedContext, pop, PopContext, RemoveFails
  <2>3. /\ open' = [open EXCEPT ![t] = Front(open[t])]
        /\ known' = [known EXCEPT ![t] = {v \in known[t] : v.home # top}]
    BY <2>1 DEF Closed, TraceInv
  <2> QED BY <2>1, <2>2, <2>3 DEF Closed, Tracing
<1>2. \/ ended' = ended /\ mixed' = mixed
      \/ \E v \in known[t] :
           /\ ended' = ended \cup {[context |-> top, ir |-> v.ir, means |-> v.means]}
           /\ mixed' = mixed \cup (IF Foreign(t, <<v>>) THEN {top} ELSE {})
  BY DEF RemoveNestedContext, pop, PopContext, RemoveFails
<1>3. mixed \subseteq mixed'
  BY <1>2
<1>4. \A s \in Seq(Contexts) : s # <<>> => Front(s) \in Seq(Contexts)
  <2> SUFFICES ASSUME NEW s \in Seq(Contexts), s # <<>>
               PROVE  Front(s) \in Seq(Contexts)
    OBVIOUS
  <2>1. Len(s) \in Nat /\ Len(s) # 0 /\ \A j \in 1 .. Len(s) : s[j] \in Contexts
    BY EmptySeq, ElementOfSeq
  <2>2. SubSeq(s, 1, Len(s) - 1) \in Seq(Contexts)
    BY <2>1, SubSeqProperties
  <2> QED BY <2>2 DEF Front
<1>5. top \in Contexts
  <2>1. open[t] \in Seq(Contexts)
    BY DEF TraceInv
  <2>2. Len(open[t]) \in 1 .. Len(open[t])
    BY <1>1, <2>1, EmptySeq
  <2> QED BY <2>1, <2>2, ElementOfSeq DEF Last
<1> HIDE DEF top
<1>6. /\ open' \in [Threads -> Seq(Contexts)] /\ stack' \in Seq(Contexts)
      /\ \A u \in Threads \ {t} : open'[u] = open[u] /\ known'[u] = known[u]
      /\ known'[t] \subseteq known[t]
      /\ known' = [u \in Threads |-> known'[u]]
  <2>1. open[t] \in Seq(Contexts) /\ stack \in Seq(Contexts)
    BY DEF TraceInv
  <2>2. Front(open[t]) \in Seq(Contexts) /\ stack' \in Seq(Contexts)
    BY <1>1, <1>4, <2>1
  <2> QED BY <1>1, <2>2 DEF TraceInv
<1>7. \A v : ValueFine(v) => ValueFine(v)'
  BY <1>1, <1>3 DEF ValueFine
<1>8. \A e : ResultFine(e) => ResultFine(e)'
  BY <1>1, <1>3 DEF ResultFine
<1>9. ASSUME NEW e \in ended' PROVE ResultFine(e)'
  <2>1. CASE e \in ended
    BY <1>8, <2>1 DEF TraceInv
  <2>2. CASE e \notin ended
    <3>1. PICK v \in known[t] :
            /\ e = [context |-> top, ir |-> v.ir, means |-> v.means]
            /\ mixed' = mixed \cup (IF Foreign(t, <<v>>) THEN {top} ELSE {})
      BY <1>2, <1>9, <2>2
    <3>2. e.context = top /\ e.ir = v.ir /\ e.means = v.means
      BY <3>1
    <3>3. ASSUME top \notin mixed' PROVE Stands(top, table[top], v.ir, v.means)
      <4>1. ValueFine(v)
        BY DEF TraceInv
      <4>2. ~Foreign(t, <<v>>)
        BY <3>1, <3>3
      <4>3. v.home \in {0, top}
        <5>1. 1 \in 1 .. Len(<<v>>) /\ <<v>>[1] = v
          OBVIOUS
        <5> QED BY <4>2, <5>1 DEF Foreign, top
      <4>4. v.home = top
        BY <4>1, <4>3 DEF ValueFine, Contexts
      <4> QED BY <1>3, <3>3, <4>1, <4>4 DEF ValueFine
    <3> QED BY <1>1, <1>5, <3>2, <3>3 DEF ResultFine
  <2> QED BY <2>1, <2>2
<1>10. ASSUME NEW u \in Threads PROVE (Idle(u) \/ WorkFine(u))'
  <2>1. CASE u = t
    BY <1>1, <2>1 DEF Idle
  <2>2. CASE u # t
    <3>1. open'[u] = open[u] /\ (Idle(u) \/ WorkFine(u))
      BY <1>6, <2>2 DEF TraceInv
    <3> QED BY <1>1, <1>3, <3>1 DEF Idle, WorkFine, Tracing
  <2> QED BY <2>1, <2>2
<1>11. ASSUME NEW u \in Threads, NEW v \in known'[u] PROVE ValueFine(v)'
  <2>1. v \in known[u]
    BY <1>6, <1>11
  <2> QED BY <1>7, <2>1 DEF TraceInv
<1>12. /\ table' = [d \in Contexts |-> table'[d]]
       /\ work' = [u \in Threads |-> work'[u]]
       /\ \A d \in Contexts \ mixed' : Forward(table'[d])
       /\ pushed' \in 0 .. MaxContexts
  BY <1>1, <1>3 DEF TraceInv
<1> QED BY <1>6, <1>9, <1>10, <1>11, <1>12 DEF TraceInv

\* Initially nothing is held and the tables are empty.
LEMMA InitTraces == Init => TraceInv
<1> SUFFICES ASSUME Init PROVE TraceInv
  OBVIOUS
<1>1. DOMAIN Empty.key_to_value_ = {} /\ DOMAIN Empty.value_to_key_ = {}
  BY DEF Empty
<1>2. Size(Empty) = 0
  BY <1>1, FS_EmptySet DEF Size
<1>3. 0 .. (0 - 1) = {}
  OBVIOUS
<1>4. Forward(Empty)
  BY <1>1, <1>2, <1>3 DEF Forward
<1>5. /\ table = [c \in Contexts |-> Empty] /\ stack = <<>> /\ pushed = 0
      /\ open = [t \in Threads |-> <<>>] /\ known = [t \in Threads |-> {}]
      /\ work = [t \in Threads |-> NoWork] /\ ended = {} /\ mixed = {}
  BY DEF Init
<1>6. stack \in Seq(Contexts) /\ open \in [Threads -> Seq(Contexts)]
      /\ pushed \in 0 .. MaxContexts
  BY <1>5, TracingAssumption DEF TracingAssumption
<1>7. \A t \in Threads : Idle(t)
  BY <1>5 DEF Idle
<1> QED BY <1>4, <1>5, <1>6, <1>7 DEF TraceInv

\* Who is about to remove a context starts no call before that.
LEMMA NextLeaving ==
  ASSUME TraceInv, LeaveInv, [Next]_vars
  PROVE  LeaveInv'
<1>1. ASSUME NEW t \in Threads, ThreadNext(t) PROVE LeaveInv'
  <2>1. CASE t \in leaving'
    <3>1. /\ Idle(t) /\ work' = work
          /\ leaving' \subseteq leaving \cup {t}
      <4>1. t \in leaving => Idle(t) /\ ~Runs(t)
        BY DEF LeaveInv, Runs
      <4> QED BY <1>1, <2>1, <4>1
              DEF ThreadNext, append_nested_context, call, embed, StartWork,
                  KeepReference, ReuseName, MakeName, Enter, ReturnCall,
                  ReplaceCall, ReturnReference, RemoveNestedContext,
                  remove_nested_context, pop, RemoveFails, Closed, Runs,
                  Replacing, AllReplaced, stackVars
    <3> QED BY <3>1 DEF LeaveInv, Idle
  <2>2. CASE t \notin leaving'
    <3>1. leaving' \subseteq leaving
      BY <1>1, <2>2
         DEF ThreadNext, append_nested_context, call, embed, StartWork,
             KeepReference, ReuseName, MakeName, Enter, ReturnCall,
             ReplaceCall, ReturnReference, RemoveNestedContext,
             remove_nested_context, pop, RemoveFails, stackVars
    <3>2. \A u \in Threads \ {t} : work'[u] = work[u]
      <4>1. work = [u \in Threads |-> work[u]]
        BY DEF TraceInv
      <4>2. CASE call(t) \/ embed(t) \/ ReturnCall(t) \/ ReplaceCall(t)
                   \/ ReturnReference(t) \/ MakeName(t)
        BY <4>1, <4>2 DEF call, embed, StartWork, ReturnCall, ReplaceCall,
                          ReturnReference, Learn, MakeName
      <4>3. CASE KeepReference(t) \/ ReuseName(t) \/ Enter(t)
        BY <4>1, <4>3 DEF KeepReference, ReuseName, Enter, Replaced
      <4>4. CASE UNCHANGED work
        BY <4>4
      <4> QED BY <1>1, <4>2, <4>3, <4>4
              DEF ThreadNext, append_nested_context, RemoveNestedContext,
                  remove_nested_context, pop, PopContext, RemoveFails, Closed
    <3> QED BY <2>2, <3>1, <3>2 DEF LeaveInv, Idle
  <2> QED BY <2>1, <2>2
<1>2. CASE UNCHANGED vars
  BY <1>2 DEF vars, stackVars, LeaveInv, Idle
<1> QED BY <1>1, <1>2 DEF Next

\* Every step keeps it so.
LEMMA NextTraces ==
  ASSUME StackInv, TraceInv, LeaveInv, [Next]_vars
  PROVE  TraceInv'
<1>1. ASSUME NEW t \in Threads, ThreadNext(t) PROVE TraceInv'
  <2>1. CASE append_nested_context(t)
    BY <2>1, AppendKeeps
  <2>2. CASE call(t)
    BY <2>2, CallKeeps
  <2>3. CASE embed(t)
    BY <2>3, EmbedKeeps
  <2>4. CASE KeepReference(t) \/ ReuseName(t)
    BY <2>4, KeepOrReuse
  <2>5. CASE MakeName(t)
    BY <2>5, MakeNameKeeps
  <2>6. CASE Enter(t)
    BY <2>6, EnterKeeps
  <2>7. CASE ReturnCall(t) \/ ReturnReference(t)
    BY <2>7, ReturnKeeps
  <2>8. CASE ReplaceCall(t)
    BY <2>8, ReplaceCallKeeps
  <2>9. CASE RemoveNestedContext(t) \/ pop(t) \/ RemoveFails(t)
    BY <2>9, RemoveKeeps
  <2>10. CASE remove_nested_context(t)
    <3>1. UNCHANGED <<table, stack, open, pushed, ended, known, work, mixed>>
      BY <2>10 DEF remove_nested_context
    <3> QED BY <3>1 DEF TraceInv, ValueFine, ResultFine, WorkFine, Idle, Tracing
  <2> QED BY <1>1, <2>1, <2>2, <2>3, <2>4, <2>5, <2>6, <2>7, <2>8, <2>9, <2>10
          DEF ThreadNext
<1>2. CASE UNCHANGED vars
  <2>1. UNCHANGED <<table, stack, open, pushed, ended, known, work, mixed>>
    BY <1>2 DEF vars, stackVars
  <2> QED BY <2>1 DEF TraceInv, ValueFine, ResultFine, WorkFine, Idle, Tracing
<1> QED BY <1>1, <1>2 DEF Next

\* Merging the calls with equal IR and naming the locals loses nothing: a trace
\* that no other one disturbed returns a closed lambda that stands for what its
\* function does, for any number of threads, contexts, parameters and calls
\* (tracing_context.py and tracing_context.cc, _replace_with_reference).
THEOREM TraceSound == Spec => []TraceMeansTheFunction
<1>1. TraceInv => TraceMeansTheFunction
  <2> SUFFICES ASSUME TraceInv, NEW e \in ended, e.context \notin mixed
               PROVE  LET m == table[e.context]
                      IN  /\ IsClosed(m, e.ir)
                          /\ Meaning(e.context, e.ir, LocalMeanings(e.context, m))
                               = e.means
    BY DEF TraceMeansTheFunction
  <2> DEFINE m == table[e.context]
  <2>1. Forward(m) /\ Stands(e.context, m, e.ir, e.means)
    BY DEF TraceInv, ResultFine
  <2> HIDE DEF m
  <2>2. IsClosed(m, e.ir)
    BY <2>1 DEF IsClosed, Forward, Stands
  <2> QED BY <2>1, <2>2 DEF Stands, m
<1>2. /\ StackInv /\ TraceInv /\ LeaveInv /\ [Next]_vars
        => (StackInv /\ TraceInv /\ LeaveInv)'
  BY NextStack, NextTraces, NextLeaving
<1>3. Init => LeaveInv
  BY DEF Init, LeaveInv
<1> QED BY InitStack, InitTraces, <1>1, <1>2, <1>3, PTL DEF Spec
===============================================================================

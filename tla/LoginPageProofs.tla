--------------------------- MODULE LoginPageProofs --------------------------
(***************************************************************************)
(* What login_to_gmail does with any page: the forms that are read off its *)
(* tree, the one that is found, what filling it in changes and what is     *)
(* posted.  The walks over the tree and the loops over the inputs are      *)
(* functions whose values are known by induction over the nodes.           *)
(***************************************************************************)
EXTENDS LoginPage, SequenceTheorems, WellFoundedInduction, FiniteSetTheorems, TLAPS

-----------------------------------------------------------------------------
(* Loops. *)

\* A set of numbers that is not empty has a smallest one.
LEMMA SmallestIsMember ==
  ASSUME NEW S, S \subseteq Nat, S # {}
  PROVE  Min(S) \in S /\ \A i \in S : Min(S) <= i
<1> DEFINE R == OpToRel(<, Nat)
<1>1. IsWellFoundedOn(R, Nat)
  BY NatLessThanWellFounded
<1>2. PICK x \in S : \A y \in S : ~ (<<y, x>> \in R)
  <2> HIDE DEF R
  <2> QED BY <1>1, WFMin
<1>3. ASSUME NEW p \in Nat \X Nat, p[1] < p[2]
      PROVE  p \in R
  BY <1>3, Zenon DEF OpToRel
<1> HIDE DEF R
<1>4. \A y \in S : x <= y
  <2> SUFFICES ASSUME NEW y \in S, ~ (x <= y) PROVE FALSE
    OBVIOUS
  <2>1. <<y, x>> \in Nat \X Nat /\ <<y, x>>[1] < <<y, x>>[2]
    OBVIOUS
  <2>2. <<y, x>> \in R
    BY <2>1, <1>3
  <2> QED BY <2>2, <1>2
<1> QED BY <1>4 DEF Min

\* Induction over the numbers up to n, with a set for the property.
LEMMA UpTo ==
  ASSUME NEW n \in Nat, NEW S, 0 \in S, \A i \in 1 .. n : i - 1 \in S => i \in S
  PROVE  \A i \in 0 .. n : i \in S
<1> DEFINE Rest == {i \in 0 .. n : i \notin S}
<1> SUFFICES ASSUME Rest # {} PROVE FALSE
  OBVIOUS
<1> PICK m : m = Min(Rest)
  OBVIOUS
<1>1. m \in Rest /\ \A i \in Rest : m <= i
  <2>1. Rest \subseteq Nat
    OBVIOUS
  <2> HIDE DEF Rest
  <2> QED BY <2>1, SmallestIsMember
<1>2. m \in 1 .. n /\ m - 1 \in 0 .. n /\ ~ (m <= m - 1)
  BY <1>1
<1> QED BY <1>1, <1>2

\* The states of a loop with a counter up to n.
IsStep(step, A, n) == step \in [A \X (1 .. n) -> A]
IsRun(f, A, n, base, step) ==
  /\ f \in [0 .. n -> A]
  /\ f[0] = base
  /\ \A i \in 1 .. n : f[i] = step[<<f[i - 1], i>>]

\* A loop over the numbers up to n computes a function.
LEMMA Loop ==
  ASSUME NEW A, NEW base \in A, NEW n \in Nat, NEW step, IsStep(step, A, n)
  PROVE  \E f : IsRun(f, A, n, base, step)
<1> USE DEF IsStep
<1> DEFINE Run(f, k) == f \in [0 .. k -> A] /\ f[0] = base
                        /\ \A i \in 1 .. k : f[i] = step[<<f[i - 1], i>>]
           S == {k \in 0 .. n : \E f : Run(f, k)}
<1>1. 0 \in S
  <2> DEFINE f == [i \in 0 .. 0 |-> base]
  <2>1. Run(f, 0)
    OBVIOUS
  <2> HIDE DEF Run, f
  <2> QED BY <2>1
<1>2. ASSUME NEW k \in 1 .. n, k - 1 \in S
      PROVE  k \in S
  <2> PICK f : Run(f, k - 1)
    BY <1>2
  <2> DEFINE g == [i \in 0 .. k |-> IF i < k THEN f[i] ELSE step[<<f[k - 1], k>>]]
  <2>1. g \in [0 .. k -> A]
    <3>1. \A i \in 0 .. k : i < k => i \in 0 .. k - 1
      OBVIOUS
    <3>2. step[<<f[k - 1], k>>] \in A
      OBVIOUS
    <3> QED BY <3>1, <3>2
  <2>2. ASSUME NEW i \in 1 .. k
        PROVE  g[i] = step[<<g[i - 1], i>>]
    <3>1. CASE i < k
      <4>1. i \in 1 .. k - 1 /\ i - 1 \in 0 .. k /\ i - 1 < k
        BY <3>1
      <4> QED BY <3>1, <4>1
    <3>2. CASE i = k
      <4>1. k - 1 \in 0 .. k /\ k - 1 < k
        OBVIOUS
      <4> QED BY <3>2, <4>1
    <3> QED BY <3>1, <3>2
  <2>3. g[0] = base
    OBVIOUS
  <2> HIDE DEF g
  <2> QED BY <2>1, <2>2, <2>3
<1> HIDE DEF Run
<1>3. \A i \in 0 .. n : i \in S
  <2> HIDE DEF S
  <2> QED BY <1>1, <1>2, UpTo
<1>4. PICK f : Run(f, n)
  BY <1>3
<1> QED BY <1>4 DEF Run, IsRun

-----------------------------------------------------------------------------
(* Searching. *)

\* What is found is the first element that passes the test.
LEMMA FirstForm ==
  ASSUME NEW F, NEW page \in Seq(F), NEW form_action, NEW names,
         NEW form, form = find_form(page, form_action, names)
  PROVE  \/ /\ form = NULL
            /\ \A i \in 1 .. Len(page) :
                 ~ search_form_by_action_and_inputs(page[i], form_action, names)
         \/ \E i \in 1 .. Len(page) :
              /\ form = page[i]
              /\ search_form_by_action_and_inputs(form, form_action, names)
              /\ \A j \in 1 .. i - 1 :
                   ~ search_form_by_action_and_inputs(page[j], form_action, names)
<1> DEFINE Found(f) == search_form_by_action_and_inputs(f, form_action, names)
           I == {i \in 1 .. Len(page) : Found(page[i])}
<1>1. form = IF I # {} /\ Min(I) # 0 THEN page[Min(I)] ELSE NULL
  BY DEF find_form, FirstIn, SelectInSeq
<1>2. Len(page) \in Nat
  BY LenProperties
<1>3. CASE I = {}
  BY <1>1, <1>3
<1>4. CASE I # {}
  <2> PICK m : m = Min(I)
    OBVIOUS
  <2>1. m \in I /\ \A i \in I : m <= i
    <3>1. I \subseteq Nat
      BY <1>2
    <3> HIDE DEF I
    <3> QED BY <1>4, <3>1, SmallestIsMember
  <2>2. m \in 1 .. Len(page) /\ Found(page[m])
    BY <2>1
  <2>3. form = page[m]
    BY <1>1, <1>4, <2>2
  <2>4. \A j \in 1 .. m - 1 : ~ Found(page[j])
    BY <1>2, <2>1, <2>2
  <2> HIDE DEF Found
  <2>5. \E i \in 1 .. Len(page) :
          form = page[i] /\ Found(form) /\ \A j \in 1 .. i - 1 : ~ Found(page[j])
    BY <2>2, <2>3, <2>4
  <2> USE DEF Found
  <2> QED BY <2>5
<1> QED BY <1>3, <1>4

-----------------------------------------------------------------------------
(* Posting. *)

\* What form_post holds after each of the inputs.
LEMMA Posted ==
  ASSUME NEW F, NEW fs \in Seq(F)
  PROVE  \E upto \in [0 .. Len(fs) -> Seq(F)] :
           /\ upto[0] = <<>>
           /\ \A i \in 1 .. Len(fs) : upto[i] = fill_form_with_input(upto[i - 1], fs[i])
           /\ posted_fields(fs) = upto[Len(fs)]
<1> DEFINE n == Len(fs)
           A == Seq(F)
           step == [p \in A \X (1 .. n) |-> fill_form_with_input(p[1], fs[p[2]])]
           u == CHOOSE f : f = [i \in 0 .. n |-> IF i = 0 THEN <<>>
                                                ELSE fill_form_with_input(f[i - 1], fs[i])]
<1>1. n \in Nat /\ <<>> \in A
  BY LenProperties
<1>2. step \in [A \X (1 .. n) -> A]
  <2>1. \A s \in A, i \in 1 .. n : fill_form_with_input(s, fs[i]) \in A
    BY ElementOfSeq, AppendProperties DEF fill_form_with_input
  <2> QED BY <2>1
<1>3. PICK f \in [0 .. n -> A] :
         f[0] = <<>> /\ \A i \in 1 .. n : f[i] = step[<<f[i - 1], i>>]
  <2>1. IsStep(step, A, n)
    BY <1>2 DEF IsStep
  <2>2. \E f : IsRun(f, A, n, <<>>, step)
    <3> HIDE DEF n, A, step
    <3> QED BY <1>1, <2>1, Loop
  <2> HIDE DEF step
  <2> QED BY <2>2 DEF IsRun
<1>4. \A i \in 1 .. n : i - 1 \in 0 .. n /\ step[<<f[i - 1], i>>] = fill_form_with_input(f[i - 1], fs[i])
  <2>1. \A i \in 1 .. n : i - 1 \in 0 .. n
    BY <1>1
  <2>2. \A a \in A, i \in 1 .. n : step[<<a, i>>] = fill_form_with_input(a, fs[i])
    OBVIOUS
  <2>3. \A i \in 0 .. n : f[i] \in A
    OBVIOUS
  <2> HIDE DEF step, A, n
  <2> QED BY <2>1, <2>2, <2>3
<1>5. f = [i \in 0 .. n |-> IF i = 0 THEN <<>> ELSE fill_form_with_input(f[i - 1], fs[i])]
  <2>2. \A i \in 0 .. n : i # 0 => i \in 1 .. n
    BY <1>1
  <2> HIDE DEF step
  <2> QED BY <1>3, <1>4, <2>2
<1>6. u = [i \in 0 .. n |-> IF i = 0 THEN <<>> ELSE fill_form_with_input(u[i - 1], fs[i])]
  BY <1>5
<1>7. posted_fields(fs) = u[n]
  BY DEF posted_fields
<1> HIDE DEF u, step
<1>8. \A i \in 0 .. n : u[i] = f[i]
  <2> DEFINE S == {i \in 0 .. n : u[i] = f[i]}
  <2>1. 0 \in S
    BY <1>1, <1>5, <1>6
  <2>2. \A i \in 1 .. n : i - 1 \in S => i \in S
    <3>1. \A i \in 1 .. n : i # 0 /\ i \in 0 .. n
      BY <1>1
    <3> QED BY <1>5, <1>6, <3>1
  <2>3. \A i \in 0 .. n : i \in S
    <3> HIDE DEF S, n
    <3> QED BY <1>1, <2>1, <2>2, UpTo
  <2> QED BY <2>3
<1>9. posted_fields(fs) = f[n]
  BY <1>1, <1>7, <1>8
<1> QED BY <1>3, <1>4, <1>9

\* The inputs curl_formadd accepts, by their places, and the place of one of
\* them among those.
Kept(fs, n) == {i \in 1 .. n : formadd_accepts(fs[i])}

\* s has the inputs at these places.
Selected(s, fs, K) ==
  /\ Len(s) = Cardinality(K)
  /\ \A i \in K : s[Rank(K, i)] = fs[i]
  /\ \A k \in 1 .. Len(s) : \E i \in K : s[k] = fs[i]

LEMMA RankOf ==
  ASSUME NEW n \in Nat, NEW K, K \subseteq 1 .. n, NEW i \in K
  PROVE  Rank(K, i) \in 1 .. Cardinality(K)
<1> DEFINE L == {j \in K : j <= i}
<1>1. IsFiniteSet(1 .. n)
  BY FS_Interval
<1>2. IsFiniteSet(K)
  BY <1>1, FS_Subset
<1>3. L \subseteq K /\ i \in L
  OBVIOUS
<1> HIDE DEF L
<1>4. IsFiniteSet(L) /\ Cardinality(L) <= Cardinality(K)
  BY <1>2, <1>3, FS_Subset
<1>5. Cardinality(K) \in Nat /\ Cardinality(L) \in Nat /\ Cardinality(L) # 0
  BY <1>2, <1>3, <1>4, FS_CardinalityType, FS_EmptySet
<1>6. Cardinality(L) \in 1 .. Cardinality(K)
  BY <1>4, <1>5
<1> QED BY <1>6 DEF Rank, L

\* posted_fields selects the inputs curl_formadd accepts.
LEMMA PostedSelected ==
  ASSUME NEW F, NEW fs \in Seq(F), NEW posted, posted = posted_fields(fs)
  PROVE  posted \in Seq(F) /\ Selected(posted, fs, Kept(fs, Len(fs)))
<1> PICK upto \in [0 .. Len(fs) -> Seq(F)] :
       /\ upto[0] = <<>>
       /\ \A i \in 1 .. Len(fs) : upto[i] = fill_form_with_input(upto[i - 1], fs[i])
       /\ posted = upto[Len(fs)]
  BY Posted
<1> DEFINE S == {n \in 0 .. Len(fs) : Selected(upto[n], fs, Kept(fs, n))}
<1>1. Len(fs) \in Nat
  BY LenProperties
<1>2. 0 \in S
  <2>1. Kept(fs, 0) = {} /\ Cardinality({}) = 0 /\ Len(<<>>) = 0
    BY FS_EmptySet DEF Kept
  <2>2. Selected(<<>>, fs, {})
    BY <2>1 DEF Selected
  <2>3. upto[0] = <<>>
    OBVIOUS
  <2>4. Selected(upto[0], fs, Kept(fs, 0))
    BY ONLY <2>1, <2>2, <2>3
  <2> QED BY ONLY <1>1, <2>4
<1>3. ASSUME NEW n \in 1 .. Len(fs), n - 1 \in S
      PROVE  n \in S
  <2> PICK s \in Seq(F) : s = upto[n - 1]
    BY <1>3
  <2> DEFINE K == Kept(fs, n - 1)
  <2>1. Selected(s, fs, K) /\ upto[n] = fill_form_with_input(s, fs[n])
    BY <1>3
  <2>2. K \subseteq 1 .. n - 1 /\ n - 1 \in Nat
    BY <1>1 DEF Kept
  <2>3. CASE ~ formadd_accepts(fs[n])
    <3>1. Kept(fs, n) = K
      BY <1>1, <2>3 DEF Kept
    <3>2. upto[n] = s
      BY <2>1, <2>3 DEF fill_form_with_input
    <3> QED BY <2>1, <3>1, <3>2
  <2>4. CASE formadd_accepts(fs[n])
    <3> PICK x \in F : x = fs[n]
      BY ElementOfSeq
    <3> PICK t \in Seq(F) : t = Append(s, x)
      BY AppendProperties
    <3> PICK l \in Nat : l = Len(s)
      BY LenProperties
    <3>1. Len(t) = l + 1 /\ t[l + 1] = x /\ \A k \in 1 .. l : t[k] = s[k]
      BY AppendProperties
    <3>2. upto[n] = t
      BY <2>1, <2>4 DEF fill_form_with_input
    <3>3. Kept(fs, n) = K \cup {n} /\ n \notin K
      BY <1>1, <2>4 DEF Kept
    <3>4. l = Cardinality(K)
      BY <2>1 DEF Selected
    <3>5. Cardinality(K \cup {n}) = l + 1
      <4>1. IsFiniteSet(1 .. n - 1)
        BY <2>2, FS_Interval
      <4>2. IsFiniteSet(K)
        BY <4>1, <2>2, FS_Subset
      <4> HIDE DEF K
      <4> QED BY <3>3, <3>4, <4>2, FS_AddElement
    <3>6. Rank(K \cup {n}, n) = l + 1
      <4>1. {j \in K \cup {n} : j <= n} = K \cup {n}
        BY <2>2
      <4> QED BY <3>5, <4>1 DEF Rank
    <3>7. ASSUME NEW i \in K
          PROVE  Rank(K \cup {n}, i) = Rank(K, i) /\ Rank(K, i) \in 1 .. l
      <4>1. {j \in K \cup {n} : j <= i} = {j \in K : j <= i}
        BY <2>2
      <4>2. Rank(K, i) \in 1 .. l
        BY <2>2, <3>4, RankOf
      <4> QED BY <4>1, <4>2 DEF Rank
    <3>8. \A i \in K : s[Rank(K, i)] = fs[i]
      BY <2>1 DEF Selected
    <3>9. \A k \in 1 .. l : \E i \in K : s[k] = fs[i]
      BY <2>1 DEF Selected
    <3> HIDE DEF K
    <3>10. \A i \in K \cup {n} : t[Rank(K \cup {n}, i)] = fs[i]
      BY <3>1, <3>6, <3>7, <3>8
    <3>11. \A k \in 1 .. l + 1 : \E i \in K \cup {n} : t[k] = fs[i]
      <4>1. \A k \in 1 .. l + 1 : k = l + 1 \/ k \in 1 .. l
        OBVIOUS
      <4> QED BY <3>1, <3>9, <4>1
    <3>12. Selected(t, fs, K \cup {n})
      BY <3>1, <3>5, <3>10, <3>11 DEF Selected
    <3>13. Selected(upto[n], fs, Kept(fs, n))
      BY ONLY <3>2, <3>3, <3>12
    <3> QED BY ONLY <1>1, <3>13, n \in 1 .. Len(fs)
  <2> QED BY <2>3, <2>4
<1>4. Selected(posted, fs, Kept(fs, Len(fs)))
  <2>1. \A n \in 0 .. Len(fs) : n \in S
    <3> HIDE DEF S
    <3> QED BY <1>1, <1>2, <1>3, UpTo
  <2>2. Len(fs) \in 0 .. Len(fs)
    BY <1>1
  <2> QED BY <1>1, <2>1, <2>2
<1> QED BY <1>1, <1>4

\* The field of the form element itself.
OwnCount(form) == IF form.name # NULL /\ form.value # NULL THEN 1 ELSE 0
OwnRecord(form) == [name |-> form.name, value |-> form.value]

\* The form's own field stands before what the loop over the inputs posts.
LEMMA OwnFirst ==
  ASSUME NEW form, NEW F, form.input_fields \in Seq(F),
         NEW loop, loop = posted_fields(form.input_fields),
         NEW posted, posted = post_form(form)
  PROVE  /\ Len(loop) \in Nat /\ OwnCount(form) \in {0, 1}
         /\ Len(posted) = OwnCount(form) + Len(loop)
         /\ OwnCount(form) = 1 => posted[1] = OwnRecord(form)
         /\ \A k \in 1 .. Len(loop) : posted[OwnCount(form) + k] = loop[k]
         /\ DOMAIN posted = 1 .. Len(posted)
<1> PICK own : own = IF OwnCount(form) = 1 THEN <<OwnRecord(form)>> ELSE <<>>
  OBVIOUS
<1>1. own_field(form) = own
  <2>1. own_field(form) = IF form.name = NULL THEN <<>>
                          ELSE IF form.name # NULL /\ form.value # NULL
                               THEN Append(<<>>, OwnRecord(form)) ELSE <<>>
    BY DEF own_field, fill_form_with_input, formadd_accepts, OwnRecord
  <2>2. Append(<<>>, OwnRecord(form)) = <<OwnRecord(form)>>
    OBVIOUS
  <2> QED BY <2>1, <2>2 DEF OwnCount
<1>2. posted = own \o loop
  BY <1>1 DEF post_form
<1>3. loop \in Seq(F)
  BY PostedSelected
<1> PICK B : B = F \cup {OwnRecord(form)}
  OBVIOUS
<1>4. loop \in Seq(B) /\ own \in Seq(B) /\ Len(loop) \in Nat
  <2>1. F \subseteq B /\ OwnRecord(form) \in B
    OBVIOUS
  <2>2. loop \in Seq(B) /\ Len(loop) \in Nat
    BY ONLY <1>3, <2>1, SeqMonotonic, LenProperties
  <2>3. <<>> \in Seq(B) /\ <<OwnRecord(form)>> \in Seq(B)
    BY ONLY <2>1
  <2> QED BY <2>2, <2>3
<1>5. Len(own) = OwnCount(form) /\ (OwnCount(form) = 1 => own[1] = OwnRecord(form))
      /\ OwnCount(form) \in {0, 1}
  BY DEF OwnCount
<1>6. /\ posted \in Seq(B) /\ Len(posted) = Len(own) + Len(loop)
      /\ \A i \in 1 .. Len(posted) : posted[i] = IF i <= Len(own) THEN own[i]
                                                 ELSE loop[i - Len(own)]
  BY ONLY <1>2, <1>4, ConcatProperties
<1> PICK o \in {0, 1} : o = OwnCount(form)
  BY <1>5
<1> PICK l \in Nat : l = Len(loop)
  BY <1>4
<1>7. Len(own) = o /\ Len(posted) = o + l
  BY <1>5, <1>6
<1>8. ASSUME NEW k \in 1 .. l PROVE posted[o + k] = loop[k]
  <2>1. o + k \in 1 .. o + l /\ ~ (o + k <= o) /\ (o + k) - o = k
    OBVIOUS
  <2>2. o + k \in 1 .. Len(posted) /\ ~ (o + k <= Len(own)) /\ (o + k) - Len(own) = k
    BY ONLY <1>7, <2>1
  <2> QED BY ONLY <1>6, <2>2
<1>9. o = 1 => posted[1] = OwnRecord(form)
  <2>1. o = 1 => 1 \in 1 .. o + l /\ 1 <= o
    OBVIOUS
  <2> QED BY <1>5, <1>6, <1>7, <2>1
<1>10. DOMAIN posted = 1 .. Len(posted)
  BY <1>6, LenProperties
<1> QED BY <1>5, <1>7, <1>8, <1>9, <1>10

\* own fields stand before the selected inputs.
Preceded(posted, own, record, fs, kept) ==
  /\ Len(posted) = own + Cardinality(kept)
  /\ own = 1 => posted[1] = record
  /\ \A i \in kept : posted[own + Rank(kept, i)] = fs[i]

\* The whole form is posted like that.
LEMMA OwnThenKept ==
  ASSUME NEW form, NEW F, form.input_fields \in Seq(F), NEW fs, fs = form.input_fields
  PROVE  Preceded(post_form(form), OwnCount(form), OwnRecord(form), fs, Kept(fs, Len(fs)))
<1> PICK posted : posted = post_form(form)
  OBVIOUS
<1> PICK kept : kept = Kept(fs, Len(fs))
  OBVIOUS
<1> PICK loop : loop = posted_fields(fs)
  OBVIOUS
<1>1. Len(fs) \in Nat /\ kept \subseteq 1 .. Len(fs)
  BY LenProperties DEF Kept
<1>2. Selected(loop, fs, kept)
  BY PostedSelected
<1>3. /\ Len(posted) = OwnCount(form) + Len(loop)
      /\ OwnCount(form) = 1 => posted[1] = OwnRecord(form)
      /\ \A k \in 1 .. Len(loop) : posted[OwnCount(form) + k] = loop[k]
  BY OwnFirst
<1>4. Len(loop) = Cardinality(kept) /\ \A i \in kept : loop[Rank(kept, i)] = fs[i]
  BY <1>2 DEF Selected
<1>5. \A i \in kept : Rank(kept, i) \in 1 .. Cardinality(kept)
  BY ONLY <1>1, RankOf
<1>6. Preceded(posted, OwnCount(form), OwnRecord(form), fs, kept)
  BY ONLY <1>3, <1>4, <1>5 DEF Preceded
<1> QED BY <1>6

\* What is posted: the name and value of the form element, if it has both, and
\* behind them the inputs with a name and a value, each of them once, in the
\* order of the form.
THEOREM PostsInOrder ==
  ASSUME NEW form, NEW F, form.input_fields \in Seq(F),
         NEW fs, fs = form.input_fields,
         NEW kept, kept = {i \in DOMAIN fs : fs[i].name # NULL /\ fs[i].value # NULL},
         NEW own, own = IF form.name # NULL /\ form.value # NULL THEN 1 ELSE 0,
         NEW posted, posted = post_form(form)
  PROVE  /\ Len(posted) = own + Cardinality(kept)
         /\ own = 1 => posted[1] = [name |-> form.name, value |-> form.value]
         /\ \A i \in kept : posted[own + Cardinality({j \in kept : j <= i})] = fs[i]
<1>1. DOMAIN fs = 1 .. Len(fs)
  BY LenProperties
<1>2. kept = Kept(fs, Len(fs))
  BY <1>1 DEF Kept, formadd_accepts
<1>3. own = OwnCount(form)
  BY DEF OwnCount
<1>4. Preceded(posted, own, OwnRecord(form), fs, kept)
  BY <1>2, <1>3, OwnThenKept
<1> QED BY <1>4 DEF Preceded, Rank, OwnRecord

\* Each input that is posted is one of the form and has a value.
LEMMA PostedOnes ==
  ASSUME NEW F, NEW fs \in Seq(F), NEW posted, posted = posted_fields(fs)
  PROVE  /\ posted \in Seq(F)
         /\ \A k \in 1 .. Len(posted) : \E i \in 1 .. Len(fs) :
              posted[k] = fs[i] /\ fs[i].value # NULL
<1>1. posted \in Seq(F) /\ Selected(posted, fs, Kept(fs, Len(fs)))
  BY PostedSelected
<1> QED BY <1>1 DEF Selected, Kept, formadd_accepts

\* A field that is posted is the form's own or one of its inputs, and has a
\* value; an input with a name and a value is posted.
LEMMA PostedFields ==
  ASSUME NEW form, NEW F, form.input_fields \in Seq(F),
         NEW fs, fs = form.input_fields, NEW posted, posted = post_form(form)
  PROVE  /\ DOMAIN posted = 1 .. Len(posted)
         /\ \A k \in 1 .. Len(posted) :
              /\ posted[k].value # NULL
              /\ \/ posted[k] = OwnRecord(form) /\ form.name # NULL
                 \/ \E i \in 1 .. Len(fs) : posted[k] = fs[i]
         /\ \A i \in 1 .. Len(fs) : fs[i].name # NULL /\ fs[i].value # NULL =>
              \E k \in 1 .. Len(posted) : posted[k] = fs[i]
<1> PICK loop : loop = posted_fields(fs)
  OBVIOUS
<1> PICK n \in Nat : n = Len(fs)
  BY LenProperties
<1>1. /\ Len(loop) \in Nat /\ OwnCount(form) \in {0, 1}
      /\ Len(posted) = OwnCount(form) + Len(loop)
      /\ OwnCount(form) = 1 => posted[1] = OwnRecord(form)
      /\ \A k \in 1 .. Len(loop) : posted[OwnCount(form) + k] = loop[k]
      /\ DOMAIN posted = 1 .. Len(posted)
  BY OwnFirst
<1> PICK o \in {0, 1} : o = OwnCount(form)
  BY <1>1
<1> PICK l \in Nat : l = Len(loop)
  BY <1>1
<1>2. ASSUME NEW k \in 1 .. Len(posted)
      PROVE  /\ posted[k].value # NULL
             /\ \/ posted[k] = OwnRecord(form) /\ form.name # NULL
                \/ \E i \in 1 .. Len(fs) : posted[k] = fs[i]
  <2>1. k \in 1 .. o + l
    BY <1>1
  <2>2. CASE k <= o
    <3>1. o = 1 /\ k = 1
      BY <2>1, <2>2
    <3>2. form.name # NULL /\ form.value # NULL
      BY <3>1 DEF OwnCount
    <3> QED BY <1>1, <3>1, <3>2 DEF OwnRecord
  <2>3. CASE ~ (k <= o)
    <3> PICK m \in 1 .. l : k = o + m
      <4>1. k - o \in 1 .. l /\ k = o + (k - o)
        BY <2>1, <2>3
      <4> QED BY <4>1
    <3>1. posted[k] = loop[m]
      BY <1>1
    <3>2. \E i \in 1 .. Len(fs) : loop[m] = fs[i] /\ fs[i].value # NULL
      BY ONLY fs \in Seq(F), loop = posted_fields(fs), m \in 1 .. l, l = Len(loop), PostedOnes
    <3> QED BY <3>1, <3>2
  <2> QED BY <2>2, <2>3
<1>3. ASSUME NEW i \in 1 .. Len(fs), fs[i].name # NULL, fs[i].value # NULL
      PROVE  \E k \in 1 .. Len(posted) : posted[k] = fs[i]
  <2> PICK kept : kept = Kept(fs, Len(fs))
    OBVIOUS
  <2>1. i \in kept /\ kept \subseteq 1 .. n
    BY <1>3 DEF Kept, formadd_accepts
  <2>2. Selected(loop, fs, kept)
    BY PostedSelected
  <2>3. Rank(kept, i) \in 1 .. Cardinality(kept)
    BY ONLY <2>1, n \in Nat, RankOf
  <2>4. loop[Rank(kept, i)] = fs[i] /\ Rank(kept, i) \in 1 .. l
    BY <2>1, <2>2, <2>3 DEF Selected
  <2>5. posted[o + Rank(kept, i)] = fs[i]
    BY <1>1, <2>4
  <2>6. o + Rank(kept, i) \in 1 .. o + l
    BY <2>4
  <2> QED BY <1>1, <2>5, <2>6
<1> QED BY <1>1, <1>2, <1>3

-----------------------------------------------------------------------------
(* Filling in. *)

\* Inputs and forms over any names, values and actions.
InputsOf(N, V)   == [name : N, value : V]
FormsOf(U, N, V) ==
  [action : U, name : N, value : V, input_fields : Seq(InputsOf(N, V))]

\* The inputs of old with a new value for the first one of that name, which is
\* added at the end if there is none.
Updated(old, new, name, value) ==
  \/ \E i \in 1 .. Len(old) :
       /\ old[i].name = name
       /\ \A j \in 1 .. i - 1 : old[j].name # name
       /\ Len(new) = Len(old)
       /\ new[i] = [name |-> name, value |-> value]
       /\ \A j \in 1 .. Len(old) : j # i => new[j] = old[j]
  \/ /\ \A j \in 1 .. Len(old) : old[j].name # name
     /\ Len(new) = Len(old) + 1
     /\ new[Len(old) + 1] = [name |-> name, value |-> value]
     /\ \A j \in 1 .. Len(old) : new[j] = old[j]

\* The attributes of the form element have stayed.
SameElement(old, new) ==
  new.action = old.action /\ new.name = old.name /\ new.value = old.value

\* One input is modified or added.
LEMMA InputModified ==
  ASSUME NEW U, NEW N, NEW V, NEW form \in FormsOf(U, N, V), NEW field \in InputsOf(N, V),
         field.name # NULL, NEW new, new = modify_form_inputs(form, field)
  PROVE  /\ new \in FormsOf(U, N, V) /\ SameElement(form, new)
         /\ Updated(form.input_fields, new.input_fields, field.name, field.value)
<1> PICK fs \in Seq(InputsOf(N, V)) : fs = form.input_fields
  BY DEF FormsOf
<1> PICK n \in Nat : n = Len(fs)
  BY LenProperties
<1> DEFINE Test(f) == search_input_by_name(f, {field.name})
           I == {i \in 1 .. Len(fs) : Test(fs[i])}
<1>1. \A f : Test(f) <=> f.name = field.name
  BY DEF search_input_by_name
<1>2. new = IF (IF I # {} THEN Min(I) ELSE 0) # 0
            THEN [form EXCEPT !.input_fields[IF I # {} THEN Min(I) ELSE 0].value = field.value]
            ELSE add_input_to_form(form, field.name, field.value)
  BY DEF modify_form_inputs, SelectInSeq
<1>3. field = [name |-> field.name, value |-> field.value]
  BY DEF InputsOf
<1>4. form = [action |-> form.action, name |-> form.name, value |-> form.value,
              input_fields |-> fs]
  BY DEF FormsOf
<1>5. \A i \in 1 .. n : fs[i] \in InputsOf(N, V)
  BY ElementOfSeq
<1>6. CASE I = {}
  <2>1. new = [form EXCEPT !.input_fields = Append(fs, field)]
    BY <1>2, <1>3, <1>6 DEF add_input_to_form
  <2> PICK t \in Seq(InputsOf(N, V)) : t = Append(fs, field)
    BY AppendProperties
  <2>2. new = [action |-> form.action, name |-> form.name, value |-> form.value,
               input_fields |-> t]
    BY <1>4, <2>1
  <2>3. Len(t) = n + 1 /\ t[n + 1] = field /\ \A j \in 1 .. n : t[j] = fs[j]
    BY AppendProperties
  <2>4. \A j \in 1 .. n : fs[j].name # field.name
    BY <1>1, <1>6
  <2>5. Updated(fs, t, field.name, field.value)
    BY <1>3, <2>3, <2>4 DEF Updated
  <2>6. form.action \in U /\ form.name \in N /\ form.value \in V
    BY DEF FormsOf
  <2> QED BY <2>2, <2>5, <2>6 DEF FormsOf, SameElement
<1>7. CASE I # {}
  <2> PICK m : m = Min(I)
    OBVIOUS
  <2>1. m \in I /\ \A i \in I : m <= i
    <3>1. I \subseteq Nat
      OBVIOUS
    <3> HIDE DEF I
    <3> QED BY <1>7, <3>1, SmallestIsMember
  <2>2. m \in 1 .. n /\ fs[m].name = field.name
    BY <1>1, <2>1
  <2>3. \A j \in 1 .. m - 1 : fs[j].name # field.name
    <3>1. \A j \in 1 .. m - 1 : j \in 1 .. n /\ ~ (m <= j)
      BY <2>2
    <3> QED BY <1>1, <2>1, <3>1
  <2>4. new = [form EXCEPT !.input_fields[m].value = field.value]
    BY <1>2, <1>7, <2>2
  <2> PICK t : t = [fs EXCEPT ![m].value = field.value]
    OBVIOUS
  <2>5. new = [action |-> form.action, name |-> form.name, value |-> form.value,
               input_fields |-> t]
    BY <1>4, <2>4
  <2>6. [fs[m] EXCEPT !.value = field.value] = field
    BY <1>3, <1>5, <2>2 DEF InputsOf
  <2>7. t = [fs EXCEPT ![m] = field]
    BY <2>6
  <2>8. t \in Seq(InputsOf(N, V)) /\ Len(t) = n /\ t[m] = field
        /\ \A j \in 1 .. n : j # m => t[j] = fs[j]
    <3> PICK S : S = InputsOf(N, V)
      OBVIOUS
    <3>1. fs \in Seq(S) /\ m \in 1 .. Len(fs) /\ field \in S
      BY <2>2
    <3>2. /\ t \in Seq(S) /\ Len(t) = Len(fs)
          /\ \A j \in 1 .. Len(fs) : t[j] = IF j = m THEN field ELSE fs[j]
      BY ONLY <2>7, <3>1, ExceptSeq
    <3> QED BY <2>2, <3>2
  <2>9. Updated(fs, t, field.name, field.value)
    <3>1. Len(t) = Len(fs) /\ t[m] = [name |-> field.name, value |-> field.value]
      BY <1>3, <2>8
    <3>2. m \in 1 .. Len(fs) /\ \A j \in 1 .. Len(fs) : j # m => t[j] = fs[j]
      BY <2>2, <2>8
    <3> QED BY ONLY <2>2, <2>3, <3>1, <3>2 DEF Updated
  <2>10. form.action \in U /\ form.name \in N /\ form.value \in V
    BY DEF FormsOf
  <2> QED BY <2>5, <2>8, <2>9, <2>10 DEF FormsOf, SameElement
<1> QED BY <1>6, <1>7

\* A form is filled in with two inputs one after the other.
LEMMA TwoInputs ==
  ASSUME NEW form, NEW a, NEW b
  PROVE  modify_form(form, <<a, b>>) = modify_form_inputs(modify_form_inputs(form, a), b)
<1> DEFINE u == CHOOSE f : f = [i \in 0 .. Len(<<a, b>>) |->
                                  IF i = 0 THEN form
                                  ELSE modify_form_inputs(f[i - 1], <<a, b>>[i])]
           one == modify_form_inputs(form, a)
           two == modify_form_inputs(one, b)
           g == [i \in 0 .. 2 |-> IF i = 0 THEN form ELSE IF i = 1 THEN one ELSE two]
<1>1. modify_form(form, <<a, b>>) = u[Len(<<a, b>>)]
  BY DEF modify_form
<1>2. Len(<<a, b>>) = 2 /\ <<a, b>>[1] = a /\ <<a, b>>[2] = b
  OBVIOUS
<1>3. g = [i \in 0 .. 2 |-> IF i = 0 THEN form ELSE modify_form_inputs(g[i - 1], <<a, b>>[i])]
  <2>1. \A i \in 0 .. 2 : i = 0 \/ i = 1 \/ i = 2
    OBVIOUS
  <2>2. /\ g[0] = form /\ g[1] = one /\ g[2] = two /\ 1 - 1 = 0 /\ 2 - 1 = 1
    OBVIOUS
  <2> QED BY <1>2, <2>1, <2>2
<1>4. u = [i \in 0 .. 2 |-> IF i = 0 THEN form ELSE modify_form_inputs(u[i - 1], <<a, b>>[i])]
  BY <1>2, <1>3
<1> HIDE DEF u
<1>5. 0 \in 0 .. 2 /\ 1 \in 0 .. 2 /\ 2 \in 0 .. 2 /\ 1 - 1 = 0 /\ 2 - 1 = 1
  OBVIOUS
<1>6. u[0] = form
  BY <1>4, <1>5
<1>7. u[1] = one
  BY <1>2, <1>4, <1>5, <1>6
<1>8. u[2] = two
  BY <1>2, <1>4, <1>5, <1>7
<1> QED BY <1>1, <1>2, <1>8

\* Filling in keeps the attributes of the form and updates its inputs.
THEOREM FillsIn ==
  ASSUME NEW U, NEW N, NEW V, NEW form \in FormsOf(U, N, V),
         NEW a \in InputsOf(N, V), NEW b \in InputsOf(N, V), a.name # NULL, b.name # NULL,
         NEW new, new = modify_form(form, <<a, b>>)
  PROVE  /\ new \in FormsOf(U, N, V) /\ SameElement(form, new)
         /\ \E mid \in Seq(InputsOf(N, V)) :
              /\ Updated(form.input_fields, mid, a.name, a.value)
              /\ Updated(mid, new.input_fields, b.name, b.value)
<1> PICK one : one = modify_form_inputs(form, a)
  OBVIOUS
<1>1. new = modify_form_inputs(one, b)
  BY TwoInputs
<1>2. one \in FormsOf(U, N, V) /\ SameElement(form, one)
      /\ Updated(form.input_fields, one.input_fields, a.name, a.value)
  BY InputModified
<1>3. new \in FormsOf(U, N, V) /\ SameElement(one, new)
      /\ Updated(one.input_fields, new.input_fields, b.name, b.value)
  BY <1>1, <1>2, InputModified
<1>4. one.input_fields \in Seq(InputsOf(N, V))
  BY <1>2 DEF FormsOf
<1> QED BY <1>2, <1>3, <1>4 DEF SameElement

-----------------------------------------------------------------------------
(* Trees.  d gives the depths of the nodes 1 .. n. *)

\* The nodes below i, and i with what follows it below its parent.
Below(n, d, i) == {k \in i + 1 .. n : \A l \in i + 1 .. k : d[l] > d[i]}
Rest(n, d, i)  == IF i = 0 THEN {}
                  ELSE {k \in i .. n : \A l \in i .. k : d[l] >= d[i]}

\* c is the first child of i and x its next sibling, or 0.
IsChild(n, d, i, c) ==
  \/ c = i + 1 /\ c <= n /\ d[c] = d[i] + 1
  \/ c = 0 /\ (i + 1 <= n => d[i + 1] <= d[i])
IsNext(n, d, i, x) ==
  \/ /\ x \in i + 1 .. n /\ d[x] = d[i]
     /\ \A k \in i + 1 .. x - 1 : d[k] > d[i]
  \/ /\ x = 0
     /\ \/ \A k \in i + 1 .. n : d[k] > d[i]
        \/ \E m \in i + 1 .. n : d[m] < d[i] /\ \A k \in i + 1 .. m - 1 : d[k] > d[i]

LEMMA BelowAreChildren ==
  ASSUME NEW n \in Nat, NEW d \in [1 .. n -> Nat], NEW i \in 1 .. n, NEW c, IsChild(n, d, i, c)
  PROVE  Below(n, d, i) = Rest(n, d, c)
<1>1. CASE c = 0
  <2>1. i + 1 <= n => d[i + 1] <= d[i] /\ d[i + 1] \in Nat /\ d[i] \in Nat
    BY <1>1 DEF IsChild
  <2>2. ASSUME NEW k \in Below(n, d, i)
        PROVE  FALSE
    <3>1. i + 1 \in i + 1 .. k /\ i + 1 <= n /\ d[i + 1] > d[i]
      BY DEF Below
    <3> QED BY <2>1, <3>1
  <2> QED BY <1>1, <2>2 DEF Rest
<1>2. CASE c = i + 1 /\ c <= n /\ d[c] = d[i] + 1
  <2>1. \A l \in 1 .. n : d[l] \in Nat
    OBVIOUS
  <2>2. \A l \in 1 .. n : d[l] > d[i] <=> d[l] >= d[c]
    BY <1>2, <2>1
  <2> QED BY <1>2, <2>2 DEF Below, Rest
<1> QED BY <1>1, <1>2 DEF IsChild

LEMMA RestParts ==
  ASSUME NEW n \in Nat, NEW d \in [1 .. n -> Nat], NEW i \in 1 .. n, NEW x, IsNext(n, d, i, x)
  PROVE  /\ Rest(n, d, i) = {i} \cup Below(n, d, i) \cup Rest(n, d, x)
         /\ \A j \in Below(n, d, i) : i < j /\ \A k \in Rest(n, d, x) : j < k
         /\ \A k \in Rest(n, d, x) : i < k
<1>0. \A l \in 1 .. n : d[l] \in Nat
  OBVIOUS
<1>1. ASSUME NEW k \in {i} \cup Below(n, d, i)
      PROVE  k \in Rest(n, d, i)
  <2>1. k \in i .. n /\ \A l \in i + 1 .. k : d[l] > d[i]
    BY <1>1 DEF Below
  <2>2. \A l \in i .. k : d[l] >= d[i]
    BY <1>0, <2>1
  <2> QED BY <2>1, <2>2 DEF Rest
<1>2. \A j \in Below(n, d, i) : j \in i + 1 .. n
  BY DEF Below
<1>3. CASE x # 0
  <2>1. /\ x \in i + 1 .. n /\ d[x] = d[i]
        /\ \A k \in i + 1 .. x - 1 : d[k] > d[i]
    BY <1>3 DEF IsNext
  <2>2. \A j \in Below(n, d, i) : j < x
    <3> SUFFICES ASSUME NEW j \in Below(n, d, i), ~ (j < x) PROVE FALSE
      OBVIOUS
    <3>1. x \in i + 1 .. j
      BY <1>2, <2>1
    <3>2. d[x] > d[i]
      BY <3>1 DEF Below
    <3> QED BY <1>0, <2>1, <3>2
  <2>3. ASSUME NEW k \in Rest(n, d, x)
        PROVE  k \in Rest(n, d, i) /\ x <= k /\ k \in Nat
    <3>1. k \in x .. n /\ \A l \in x .. k : d[l] >= d[i]
      BY <1>3, <2>1 DEF Rest
    <3>2. \A l \in i .. k : l = i \/ l \in i + 1 .. x - 1 \/ l \in x .. k
      BY <2>1, <3>1
    <3>3. \A l \in i .. k : d[l] >= d[i]
      BY <1>0, <2>1, <3>1, <3>2
    <3> QED BY <2>1, <3>1, <3>3 DEF Rest
  <2>4. ASSUME NEW k \in Rest(n, d, i)
        PROVE  k \in {i} \cup Below(n, d, i) \cup Rest(n, d, x)
    <3>1. k \in i .. n /\ \A l \in i .. k : d[l] >= d[i]
      BY DEF Rest
    <3>2. CASE k >= x
      <4>1. k \in x .. n /\ \A l \in x .. k : l \in i .. k
        BY <2>1, <3>1, <3>2
      <4> QED BY <1>3, <2>1, <3>1, <4>1 DEF Rest
    <3>3. CASE k < x /\ k # i
      <4>1. k \in i + 1 .. n /\ \A l \in i + 1 .. k : l \in i + 1 .. x - 1
        BY <2>1, <3>1, <3>3
      <4> QED BY <2>1, <4>1 DEF Below
    <3> QED BY <2>1, <3>1, <3>2, <3>3
  <2> QED BY <1>1, <1>2, <2>1, <2>2, <2>3, <2>4
<1>4. CASE x = 0
  <2>1. Rest(n, d, x) = {}
    BY <1>4 DEF Rest
  <2>2. ASSUME NEW k \in Rest(n, d, i), k # i
        PROVE  k \in Below(n, d, i)
    <3>1. k \in i + 1 .. n /\ \A l \in i .. k : d[l] >= d[i]
      BY <2>2 DEF Rest
    <3>2. CASE \A l \in i + 1 .. n : d[l] > d[i]
      BY <3>1, <3>2 DEF Below
    <3>3. CASE \E m \in i + 1 .. n : d[m] < d[i] /\ \A l \in i + 1 .. m - 1 : d[l] > d[i]
      <4> PICK m \in i + 1 .. n : d[m] < d[i] /\ \A l \in i + 1 .. m - 1 : d[l] > d[i]
        BY <3>3
      <4>1. k < m
        <5> SUFFICES ASSUME ~ (k < m) PROVE FALSE
          OBVIOUS
        <5>1. m \in i .. k
          BY <3>1
        <5>2. d[m] >= d[i]
          BY <3>1, <5>1
        <5> QED BY <1>0, <5>2
      <4>2. \A l \in i + 1 .. k : l \in i + 1 .. m - 1
        BY <3>1, <4>1
      <4> QED BY <3>1, <4>2 DEF Below
    <3> QED BY <1>4, <3>2, <3>3 DEF IsNext
  <2> QED BY <1>1, <1>2, <2>1, <2>2
<1> QED BY <1>3, <1>4

\* What is below a node below i is below i.
LEMMA BelowNested ==
  ASSUME NEW n \in Nat, NEW d \in [1 .. n -> Nat], NEW i \in 1 .. n,
         NEW f \in Below(n, d, i), NEW j \in Below(n, d, f)
  PROVE  j \in Below(n, d, i) /\ f < j
<1>0. \A l \in 1 .. n : d[l] \in Nat
  OBVIOUS
<1>1. f \in i + 1 .. n /\ (\A l \in i + 1 .. f : d[l] > d[i]) /\ d[f] > d[i]
  <2>1. f \in i + 1 .. n /\ \A l \in i + 1 .. f : d[l] > d[i]
    BY DEF Below
  <2> QED BY <2>1
<1>2. j \in f + 1 .. n /\ \A l \in f + 1 .. j : d[l] > d[f]
  BY DEF Below
<1>3. \A l \in i + 1 .. j : l \in i + 1 .. f \/ l \in f + 1 .. j
  BY <1>1, <1>2
<1>4. \A l \in i + 1 .. j : d[l] > d[i]
  <2> SUFFICES ASSUME NEW l \in f + 1 .. j PROVE d[l] > d[i]
    BY <1>1, <1>3
  <2>1. d[l] > d[f] /\ d[l] \in Nat /\ d[f] \in Nat /\ d[i] \in Nat
    BY <1>0, <1>1, <1>2
  <2> QED BY <1>1, <2>1
<1> QED BY <1>1, <1>2, <1>4 DEF Below

-----------------------------------------------------------------------------
(* Walks. *)

\* The sequence s has v[j] for each j of K, in the order of K.
Lists(s, K, v) ==
  /\ Len(s) = Cardinality(K)
  /\ \A j \in K : s[Rank(K, j)] = v[j]

LEMMA ListsNone ==
  ASSUME NEW v
  PROVE  Lists(<<>>, {}, v)
<1>1. Len(<<>>) = 0
  OBVIOUS
<1> QED BY <1>1, FS_EmptySet DEF Lists

LEMMA ListsOne ==
  ASSUME NEW A, NEW a \in A, NEW i \in Nat, NEW v, v[i] = a
  PROVE  <<a>> \in Seq(A) /\ Lists(<<a>>, {i}, v)
<1>1. Cardinality({i}) = 1
  BY FS_Singleton
<1>2. {j \in {i} : j <= i} = {i}
  OBVIOUS
<1>3. Rank({i}, i) = 1
  BY <1>1, <1>2 DEF Rank
<1>4. <<a>> \in Seq(A) /\ Len(<<a>>) = 1 /\ <<a>>[1] = a
  OBVIOUS
<1> QED BY <1>1, <1>3, <1>4 DEF Lists

LEMMA RankType ==
  ASSUME NEW n \in Nat, NEW K, K \subseteq 1 .. n
  PROVE  /\ IsFiniteSet(K) /\ Cardinality(K) \in Nat
         /\ \A i \in K : Rank(K, i) \in 1 .. Cardinality(K)
<1>1. IsFiniteSet(1 .. n)
  BY FS_Interval
<1>2. IsFiniteSet(K)
  BY <1>1, FS_Subset
<1> QED BY <1>2, FS_CardinalityType, RankOf

\* The lists of two sets, the second behind the first.
LEMMA ListsBoth ==
  ASSUME NEW A, NEW s \in Seq(A), NEW t \in Seq(A), NEW n \in Nat, NEW v,
         NEW K, K \subseteq 1 .. n, NEW L, L \subseteq 1 .. n,
         \A j \in K, k \in L : j < k,
         Lists(s, K, v), Lists(t, L, v)
  PROVE  s \o t \in Seq(A) /\ Lists(s \o t, K \cup L, v)
<1> PICK a \in Nat : a = Cardinality(K)
  BY RankType
<1> PICK b \in Nat : b = Cardinality(L)
  BY RankType
<1>1. /\ IsFiniteSet(K) /\ IsFiniteSet(L)
      /\ \A i \in K : Rank(K, i) \in 1 .. a
      /\ \A i \in L : Rank(L, i) \in 1 .. b
  BY RankType
<1>2. K \cap L = {}
  OBVIOUS
<1>3. Cardinality(K \cup L) = a + b
  <2>1. Cardinality(K \cup L) = Cardinality(K) + Cardinality(L) - Cardinality(K \cap L)
    BY ONLY <1>1, FS_Union
  <2>2. Cardinality(K \cap L) = 0
    BY <1>2, FS_EmptySet
  <2> QED BY <2>1, <2>2
<1>4. ASSUME NEW i \in K
      PROVE  Rank(K \cup L, i) = Rank(K, i)
  <2>1. \A j \in L : j \in Nat /\ i \in Nat /\ i < j
    OBVIOUS
  <2>2. \A j \in L : ~ (j <= i)
    BY <2>1
  <2>3. {j \in K \cup L : j <= i} = {j \in K : j <= i}
    BY ONLY <2>2
  <2> QED BY <2>3 DEF Rank
<1>5. ASSUME NEW i \in L
      PROVE  Rank(K \cup L, i) = a + Rank(L, i)
  <2> PICK M : M = {j \in L : j <= i}
    OBVIOUS
  <2>0. \A j \in K : j \in Nat /\ i \in Nat /\ j < i
    OBVIOUS
  <2>5. \A j \in K : j <= i
    BY <2>0
  <2>1. {j \in K \cup L : j <= i} = K \cup M
    BY ONLY <2>5, M = {j \in L : j <= i}
  <2>2. IsFiniteSet(M) /\ K \cap M = {}
    BY <1>1, <1>2, FS_Subset
  <2>3. Cardinality(M) \in Nat
    BY <2>2, FS_CardinalityType
  <2>4. Cardinality(K \cup M) = a + Cardinality(M)
    <3>1. Cardinality(K \cup M) = Cardinality(K) + Cardinality(M) - Cardinality(K \cap M)
      BY ONLY <1>1, <2>2, FS_Union
    <3>2. Cardinality(K \cap M) = 0
      BY <2>2, FS_EmptySet
    <3> QED BY <2>3, <3>1, <3>2
  <2> QED BY <2>1, <2>4 DEF Rank
<1> PICK u : u = s \o t
  OBVIOUS
<1>6. Len(s) = a /\ Len(t) = b
  BY DEF Lists
<1>7. /\ u \in Seq(A) /\ Len(u) = a + b
      /\ \A k \in 1 .. a + b : u[k] = IF k <= a THEN s[k] ELSE t[k - a]
  <2>1. /\ s \o t \in Seq(A) /\ Len(s \o t) = Len(s) + Len(t)
        /\ \A k \in 1 .. Len(s) + Len(t) :
             (s \o t)[k] = IF k <= Len(s) THEN s[k] ELSE t[k - Len(s)]
    BY ONLY s \in Seq(A), t \in Seq(A), ConcatProperties
  <2> QED BY ONLY <1>6, <2>1, u = s \o t
<1>8. ASSUME NEW i \in K
      PROVE  u[Rank(K \cup L, i)] = v[i]
  <2> PICK r \in 1 .. a : r = Rank(K, i)
    BY <1>1
  <2>1. s[r] = v[i]
    BY DEF Lists
  <2>2. u[r] = s[r]
    BY <1>7
  <2> QED BY <1>4, <2>1, <2>2
<1>9. ASSUME NEW i \in L
      PROVE  u[Rank(K \cup L, i)] = v[i]
  <2> PICK r \in 1 .. b : r = Rank(L, i)
    BY <1>1
  <2>1. t[r] = v[i]
    BY DEF Lists
  <2>2. u[a + r] = t[r]
    <3>1. a + r \in 1 .. a + b /\ ~ (a + r <= a) /\ (a + r) - a = r
      OBVIOUS
    <3> QED BY <1>7, <3>1
  <2> QED BY <1>5, <2>1, <2>2
<1> QED BY <1>3, <1>7, <1>8, <1>9 DEF Lists

\* A walk over the nodes 1 .. n: it descends from the nodes D to their first
\* children c, has own[i] for any other node i, and goes on with the sibling x.
Step(f, D, own, c, x, i) == (IF i \in D THEN f[c[i]] ELSE own[i]) \o f[x[i]]
Walk(f, n, D, own, c, x) ==
  [i \in 0 .. n |-> IF i = 0 THEN <<>> ELSE Step(f, D, own, c, x, i)]

\* The functions c and x lead to nodes further on.
Onward(n, D, c, x) ==
  /\ D \subseteq 1 .. n
  /\ \A i \in 1 .. n : c[i] \in {0} \cup (i + 1 .. n) /\ x[i] \in {0} \cup (i + 1 .. n)

\* A walk ends.
Walks(A, n, D, own, c, x) == Onward(n, D, c, x) /\ \A i \in 1 .. n : own[i] \in Seq(A)

LEMMA WalkEnds ==
  ASSUME NEW A, NEW n \in Nat, NEW D, NEW own, NEW c, NEW x, Walks(A, n, D, own, c, x)
  PROVE  \E f : f = Walk(f, n, D, own, c, x)
<1> USE DEF Walks
<1> DEFINE Good(f, k) ==
             /\ f \in [0 .. n -> Seq(A)] /\ f[0] = <<>>
             /\ \A i \in (n + 1) - k .. n : f[i] = Step(f, D, own, c, x, i)
           S == {k \in 0 .. n : \E f : Good(f, k)}
<1>1. 0 \in S
  <2> DEFINE f == [i \in 0 .. n |-> <<>>]
  <2>1. f \in [0 .. n -> Seq(A)] /\ f[0] = <<>>
    OBVIOUS
  <2>2. Good(f, 0)
    BY <2>1
  <2> HIDE DEF Good, f
  <2> QED BY <2>2
<1>2. ASSUME NEW k \in 1 .. n, k - 1 \in S
      PROVE  k \in S
  <2> PICK f : Good(f, k - 1)
    BY <1>2
  <2> PICK m \in 1 .. n : m = (n + 1) - k
    OBVIOUS
  <2>1. /\ f \in [0 .. n -> Seq(A)] /\ f[0] = <<>>
        /\ \A i \in m + 1 .. n : f[i] = Step(f, D, own, c, x, i)
    OBVIOUS
  <2> HIDE DEF Good
  <2> PICK e : e = Step(f, D, own, c, x, m)
    OBVIOUS
  <2>2. e \in Seq(A)
    <3>1. c[m] \in 0 .. n /\ x[m] \in 0 .. n
      BY DEF Onward
    <3>2. f[c[m]] \in Seq(A) /\ f[x[m]] \in Seq(A) /\ own[m] \in Seq(A)
      BY <2>1, <3>1
    <3> QED BY <3>2, ConcatProperties DEF Step
  <2> PICK g : g = [f EXCEPT ![m] = e]
    OBVIOUS
  <2>3. g \in [0 .. n -> Seq(A)] /\ g[0] = <<>> /\ g[m] = e
        /\ \A i \in 0 .. n : i # m => g[i] = f[i]
    BY <2>1, <2>2
  <2>4. ASSUME NEW i \in m .. n
        PROVE  Step(g, D, own, c, x, i) = Step(f, D, own, c, x, i)
    <3>1. c[i] \in 0 .. n /\ c[i] # m /\ x[i] \in 0 .. n /\ x[i] # m
      <4>1. i \in 1 .. n /\ \A j \in {0} \cup (i + 1 .. n) : j \in 0 .. n /\ j # m
        OBVIOUS
      <4>2. c[i] \in {0} \cup (i + 1 .. n) /\ x[i] \in {0} \cup (i + 1 .. n)
        BY ONLY <4>1, Onward(n, D, c, x), Zenon DEF Onward
      <4> QED BY ONLY <4>1, <4>2
    <3>2. g[c[i]] = f[c[i]] /\ g[x[i]] = f[x[i]]
      BY <2>3, <3>1
    <3> QED BY <3>2 DEF Step
  <2>5. \A i \in m .. n : g[i] = Step(g, D, own, c, x, i)
    <3>1. \A i \in m .. n : i \in 0 .. n /\ (i = m \/ i \in m + 1 .. n)
      OBVIOUS
    <3>2. \A i \in m + 1 .. n : i # m
      OBVIOUS
    <3>3. g[m] = Step(f, D, own, c, x, m) /\ \A i \in m + 1 .. n : g[i] = Step(f, D, own, c, x, i)
      BY ONLY <2>1, <2>3, <3>1, <3>2, e = Step(f, D, own, c, x, m), m \in 1 .. n, n \in Nat
    <3> QED BY ONLY <2>4, <3>1, <3>3
  <2>6. Good(g, k)
    BY <2>3, <2>5 DEF Good
  <2> QED BY <2>6
<1> HIDE DEF Good
<1>3. n \in S
  <2>1. \A i \in 0 .. n : i \in S
    <3> HIDE DEF S
    <3> QED BY <1>1, <1>2, UpTo
  <2> QED BY <2>1
<1> PICK f : Good(f, n)
  BY <1>3
<1>4. /\ f \in [0 .. n -> Seq(A)] /\ f[0] = <<>>
      /\ \A i \in 1 .. n : f[i] = Step(f, D, own, c, x, i)
  BY DEF Good
<1>5. f = Walk(f, n, D, own, c, x)
  <2>1. \A i \in 0 .. n : i # 0 => i \in 1 .. n
    OBVIOUS
  <2> QED BY <1>4, <2>1 DEF Walk
<1> QED BY <1>5

\* What the walk does with node i: K[i] are the nodes listed from i on.
Visits(A, D, own, c, x, v, K, i) ==
  \/ /\ i \in D /\ K[i] = K[c[i]] \cup K[x[i]]
     /\ \A j \in K[c[i]], k \in K[x[i]] : j < k
  \/ /\ i \notin D /\ own[i] = <<v[i]>> /\ v[i] \in A
     /\ K[i] = {i} \cup K[x[i]]
     /\ \A k \in K[x[i]] : i < k
  \/ i \notin D /\ own[i] = <<>> /\ K[i] = K[x[i]]

LEMMA WalkLists ==
  ASSUME NEW A, NEW n \in Nat, NEW D, NEW own, NEW c, NEW x, Onward(n, D, c, x),
         NEW v, NEW K, K[0] = {}, \A i \in 0 .. n : K[i] \subseteq 1 .. n,
         \A i \in 1 .. n : Visits(A, D, own, c, x, v, K, i),
         NEW f, f = Walk(f, n, D, own, c, x)
  PROVE  \A i \in 0 .. n : f[i] \in Seq(A) /\ Lists(f[i], K[i], v)
<1> DEFINE Good(i) == f[i] \in Seq(A) /\ Lists(f[i], K[i], v)
           S == {k \in 0 .. n : Good(0) /\ \A i \in (n + 1) - k .. n : Good(i)}
<1>0. f[0] = <<>> /\ \A i \in 1 .. n : f[i] = Step(f, D, own, c, x, i)
  <2>1. \A i \in 1 .. n : i # 0 /\ i \in 0 .. n
    OBVIOUS
  <2> QED BY <2>1 DEF Walk
<1>1. 0 \in S
  <2>1. f[0] \in Seq(A) /\ Lists(f[0], K[0], v)
    BY <1>0, ListsNone
  <2>2. (n + 1) - 0 .. n = {}
    OBVIOUS
  <2> HIDE DEF Good
  <2>3. Good(0)
    BY <2>1 DEF Good
  <2> QED BY <2>2, <2>3
<1>2. ASSUME NEW k \in 1 .. n, k - 1 \in S
      PROVE  k \in S
  <2> PICK m \in 1 .. n : m = (n + 1) - k
    OBVIOUS
  <2> HIDE DEF Good
  <2>1. Good(0) /\ \A i \in m + 1 .. n : Good(i)
    BY <1>2
  <2> SUFFICES Good(m)
    <3>1. \A i \in m .. n : i = m \/ i \in m + 1 .. n
      OBVIOUS
    <3>2. \A i \in (n + 1) - k .. n : i \in m .. n
      OBVIOUS
    <3>3. k \in 0 .. n
      OBVIOUS
    <3> QED BY <2>1, <3>1, <3>2, <3>3
  <2>2. c[m] \in {0} \cup (m + 1 .. n) /\ x[m] \in {0} \cup (m + 1 .. n)
    BY DEF Onward
  <2>3. Good(c[m]) /\ Good(x[m])
    BY <2>1, <2>2
  <2> PICK y : y = f[x[m]]
    OBVIOUS
  <2> PICK L : L = K[x[m]]
    OBVIOUS
  <2>4. y \in Seq(A) /\ Lists(y, L, v) /\ L \subseteq 1 .. n
    <3>1. x[m] \in 0 .. n
      BY <2>2
    <3> QED BY <2>3, <3>1 DEF Good
  <2>5. f[m] = (IF m \in D THEN f[c[m]] ELSE own[m]) \o y
    BY <1>0 DEF Step
  <2>6. Visits(A, D, own, c, x, v, K, m)
    OBVIOUS
  <2>7. CASE m \in D /\ K[m] = K[c[m]] \cup L /\ \A j \in K[c[m]], l \in L : j < l
    <3> PICK z : z = f[c[m]]
      OBVIOUS
    <3> PICK J : J = K[c[m]]
      OBVIOUS
    <3>1. z \in Seq(A) /\ Lists(z, J, v) /\ J \subseteq 1 .. n
      <4>1. c[m] \in 0 .. n
        BY <2>2
      <4> QED BY <2>3, <4>1 DEF Good
    <3>2. \A j \in J, l \in L : j < l
      BY <2>7
    <3>3. z \o y \in Seq(A) /\ Lists(z \o y, J \cup L, v)
      BY ONLY <2>4, <3>1, <3>2, n \in Nat, ListsBoth
    <3>4. f[m] = z \o y /\ K[m] = J \cup L
      BY <2>5, <2>7
    <3> QED BY <3>3, <3>4 DEF Good
  <2>8. CASE m \notin D /\ own[m] = <<v[m]>> /\ v[m] \in A /\ K[m] = {m} \cup L
             /\ \A l \in L : m < l
    <3> PICK z : z = <<v[m]>>
      OBVIOUS
    <3>1. z \in Seq(A) /\ Lists(z, {m}, v) /\ {m} \subseteq 1 .. n
      BY <2>8, ListsOne
    <3>2. \A j \in {m}, l \in L : j < l
      BY <2>8
    <3>3. z \o y \in Seq(A) /\ Lists(z \o y, {m} \cup L, v)
      BY ONLY <2>4, <3>1, <3>2, n \in Nat, ListsBoth
    <3>4. f[m] = z \o y /\ K[m] = {m} \cup L
      BY <2>5, <2>8
    <3> QED BY <3>3, <3>4 DEF Good
  <2>9. CASE m \notin D /\ own[m] = <<>> /\ K[m] = L
    <3>1. f[m] = y
      BY <2>4, <2>5, <2>9, ConcatEmptySeq
    <3> QED BY <2>4, <2>9, <3>1 DEF Good
  <2> QED BY ONLY <2>6, <2>7, <2>8, <2>9, L = K[x[m]] DEF Visits
<1>3. n \in S
  <2>1. \A i \in 0 .. n : i \in S
    <3> HIDE DEF S
    <3> QED BY <1>1, <1>2, UpTo
  <2>2. n \in 0 .. n
    OBVIOUS
  <2> HIDE DEF S
  <2> QED BY <2>1, <2>2
<1> HIDE DEF Good
<1>4. \A i \in 0 .. n : Good(i)
  <2>1. \A i \in 0 .. n : i = 0 \/ i \in (n + 1) - n .. n
    OBVIOUS
  <2> QED BY <1>3, <2>1
<1> QED BY <1>4 DEF Good

-----------------------------------------------------------------------------
(* The tree of a page. *)

Empty(tree, i) == tree[i].kind \in {"input", "text"}

\* The tree has n nodes with the depths d.
HasDepths(tree, n, d) ==
  /\ n \in Nat /\ n = Len(tree) /\ DOMAIN tree = 1 .. n
  /\ d \in [1 .. n -> Nat]
  /\ \A i \in 1 .. n : d[i] = tree[i].depth
  /\ n # 0 => d[1] = 0
  /\ \A i \in 2 .. n : /\ 1 <= d[i] /\ d[i] <= d[i - 1] + 1
                       /\ Empty(tree, i - 1) => d[i] <= d[i - 1]

LEMMA TreeHasDepths ==
  ASSUME NEW tree, IsTree(tree)
  PROVE  \E n, d : HasDepths(tree, n, d)
<1> PICK A : tree \in Seq(A)
  BY DEF IsTree
<1> PICK n \in Nat : n = Len(tree)
  BY LenProperties
<1>1. DOMAIN tree = 1 .. n
  BY LenProperties
<1>2. n # 0 => tree[1].depth = 0
  <2>1. n # 0 => tree # <<>>
    OBVIOUS
  <2> QED BY <2>1 DEF IsTree
<1>3. ASSUME NEW i \in 2 .. n, tree[i - 1].depth \in Nat
      PROVE  /\ tree[i].depth \in Nat /\ 1 <= tree[i].depth
             /\ tree[i].depth <= tree[i - 1].depth + 1
             /\ Empty(tree, i - 1) => tree[i].depth <= tree[i - 1].depth
  <2> PICK e \in {0, 1} : /\ tree[i].depth \in 1 .. tree[i - 1].depth + e
                          /\ Empty(tree, i - 1) => e = 0
    <3>1. tree[i].depth \in 1 .. tree[i - 1].depth + (IF Empty(tree, i - 1) THEN 0 ELSE 1)
      BY DEF IsTree, Empty
    <3>2. (IF Empty(tree, i - 1) THEN 0 ELSE 1) \in {0, 1}
      OBVIOUS
    <3>3. Empty(tree, i - 1) => (IF Empty(tree, i - 1) THEN 0 ELSE 1) = 0
      OBVIOUS
    <3> QED BY ONLY <3>1, <3>2, <3>3
  <2> PICK y \in Nat : y = tree[i - 1].depth
    BY <1>3
  <2>1. tree[i].depth \in 1 .. y + e
    OBVIOUS
  <2> QED BY <2>1
<1> DEFINE S == {i \in 0 .. n : i # 0 => tree[i].depth \in Nat}
<1>4. \A i \in 1 .. n : tree[i].depth \in Nat
  <2>1. 0 \in S
    OBVIOUS
  <2>2. \A i \in 1 .. n : i - 1 \in S => i \in S
    <3> SUFFICES ASSUME NEW i \in 1 .. n, i - 1 \in S PROVE tree[i].depth \in Nat
      OBVIOUS
    <3>1. CASE i = 1
      BY <1>2, <3>1
    <3>2. CASE i # 1
      <4>1. i \in 2 .. n /\ i - 1 # 0
        BY <3>2
      <4> QED BY <1>3, <4>1
    <3> QED BY <3>1, <3>2
  <2>3. \A i \in 0 .. n : i \in S
    <3> HIDE DEF S
    <3> QED BY <2>1, <2>2, UpTo
  <2>4. \A i \in 1 .. n : i \in 0 .. n /\ i # 0
    OBVIOUS
  <2> QED BY <2>3, <2>4
<1> PICK d : d = [i \in 1 .. n |-> tree[i].depth]
  OBVIOUS
<1>5. d \in [1 .. n -> Nat] /\ \A i \in 1 .. n : d[i] = tree[i].depth
  BY <1>4
<1>6. n # 0 => d[1] = 0
  BY <1>2, <1>5
<1>7. ASSUME NEW i \in 2 .. n
      PROVE  /\ 1 <= d[i] /\ d[i] <= d[i - 1] + 1
             /\ Empty(tree, i - 1) => d[i] <= d[i - 1]
  <2>1. i \in 1 .. n /\ i - 1 \in 1 .. n
    OBVIOUS
  <2>2. d[i] = tree[i].depth /\ d[i - 1] = tree[i - 1].depth /\ tree[i - 1].depth \in Nat
    BY <1>4, <1>5, <2>1
  <2> QED BY <1>3, <2>2
<1>8. HasDepths(tree, n, d)
  BY <1>1, <1>5, <1>6, <1>7 DEF HasDepths
<1> QED BY <1>8

\* The links of libxml2: the first child and the next sibling.
LEMMA FirstChild ==
  ASSUME NEW tree, NEW n, NEW d, HasDepths(tree, n, d), NEW i \in 1 .. n
  PROVE  /\ IsChild(n, d, i, xmlChildrenNode(tree, i))
         /\ xmlChildrenNode(tree, i) \in {0} \cup (i + 1 .. n)
         /\ Empty(tree, i) => xmlChildrenNode(tree, i) = 0
<1> PICK c : c = xmlChildrenNode(tree, i)
  OBVIOUS
<1>1. /\ n \in Nat /\ d \in [1 .. n -> Nat] /\ n = Len(tree)
      /\ \A k \in 1 .. n : d[k] = tree[k].depth
  BY DEF HasDepths
<1>2. c = IF i < n /\ tree[i + 1].depth > tree[i].depth THEN i + 1 ELSE 0
  BY <1>1 DEF xmlChildrenNode
<1>3. CASE i < n
  <2>1. i + 1 \in 1 .. n /\ i + 1 \in 2 .. n /\ (i + 1) - 1 = i
    BY <1>1, <1>3
  <2>2. d[i + 1] = tree[i + 1].depth /\ d[i] = tree[i].depth /\ d[i] \in Nat /\ d[i + 1] \in Nat
    BY <1>1, <2>1
  <2>3. d[i + 1] <= d[i] + 1 /\ (Empty(tree, i) => d[i + 1] <= d[i])
    BY <2>1 DEF HasDepths
  <2>4. CASE d[i + 1] > d[i]
    <3>1. c = i + 1 /\ c <= n /\ d[c] = d[i] + 1 /\ ~ Empty(tree, i) /\ c \in i + 1 .. n
      BY <1>1, <1>2, <1>3, <2>2, <2>3, <2>4
    <3> QED BY <3>1 DEF IsChild
  <2>5. CASE ~ (d[i + 1] > d[i])
    <3>1. c = 0 /\ d[i + 1] <= d[i]
      BY <1>2, <2>2, <2>5
    <3> QED BY <3>1 DEF IsChild
  <2> QED BY <2>4, <2>5
<1>4. CASE ~ (i < n)
  <2>1. c = 0 /\ ~ (i + 1 <= n)
    BY <1>1, <1>2, <1>4
  <2> QED BY <2>1 DEF IsChild
<1> QED BY <1>3, <1>4

LEMMA NextSibling ==
  ASSUME NEW tree, NEW n, NEW d, HasDepths(tree, n, d), NEW i \in 1 .. n
  PROVE  /\ IsNext(n, d, i, next_node(tree, i))
         /\ next_node(tree, i) \in {0} \cup (i + 1 .. n)
<1> PICK x : x = next_node(tree, i)
  OBVIOUS
<1> DEFINE I == {k \in i + 1 .. n : tree[k].depth <= tree[i].depth}
<1>1. /\ n \in Nat /\ d \in [1 .. n -> Nat] /\ n = Len(tree)
      /\ \A k \in 1 .. n : d[k] = tree[k].depth
  BY DEF HasDepths
<1> PICK m : m = IF I # {} THEN Min(I) ELSE 0
  OBVIOUS
<1>2. x = IF m # 0 /\ tree[m].depth = tree[i].depth THEN m ELSE 0
  BY <1>1 DEF next_node, SelectInSubSeq
<1>3. \A k \in i + 1 .. n : /\ k \in 1 .. n /\ d[k] = tree[k].depth /\ d[k] \in Nat
                            /\ d[i] = tree[i].depth /\ d[i] \in Nat
  BY <1>1
<1>4. CASE I = {}
  <2>1. x = 0 /\ \A k \in i + 1 .. n : d[k] > d[i]
    BY <1>2, <1>3, <1>4
  <2> QED BY <2>1 DEF IsNext
<1>5. CASE I # {}
  <2>1. m \in I /\ \A k \in I : m <= k
    <3>1. I \subseteq Nat
      BY <1>1
    <3> HIDE DEF I
    <3> QED BY <1>5, <3>1, SmallestIsMember
  <2>2. m \in i + 1 .. n /\ m # 0 /\ d[m] <= d[i]
    BY <1>3, <2>1
  <2>3. \A k \in i + 1 .. m - 1 : d[k] > d[i]
    <3> SUFFICES ASSUME NEW k \in i + 1 .. m - 1, ~ (d[k] > d[i]) PROVE FALSE
      OBVIOUS
    <3>1. k \in i + 1 .. n /\ ~ (m <= k)
      <4>1. m \in i + 1 .. n /\ n \in Nat /\ i \in 1 .. n /\ k \in i + 1 .. m - 1
        BY <1>1, <2>2
      <4> QED BY ONLY <4>1
    <3>2. k \in I
      BY <1>3, <3>1
    <3> QED BY <2>1, <3>1, <3>2
  <2>4. CASE d[m] = d[i]
    <3>1. x = m
      BY <1>2, <1>3, <2>2, <2>4
    <3> QED BY <2>2, <2>3, <2>4, <3>1 DEF IsNext
  <2>5. CASE d[m] # d[i]
    <3>1. x = 0 /\ d[m] < d[i]
      BY <1>2, <1>3, <2>2, <2>5
    <3> QED BY <2>2, <2>3, <3>1 DEF IsNext
  <2> QED BY <2>4, <2>5
<1> QED BY <1>4, <1>5

-----------------------------------------------------------------------------
(* The inputs below a node. *)

InputAt(tree, i) == [name |-> tree[i].name, value |-> tree[i].value]

LEMMA RestOfTree ==
  ASSUME NEW tree, NEW n, NEW d, HasDepths(tree, n, d), NEW i \in 1 .. n,
         NEW c, c = xmlChildrenNode(tree, i), NEW x, x = next_node(tree, i)
  PROVE  /\ Below(n, d, i) = Rest(n, d, c)
         /\ Rest(n, d, i) = {i} \cup Rest(n, d, c) \cup Rest(n, d, x)
         /\ \A j \in Rest(n, d, c) : i < j /\ \A k \in Rest(n, d, x) : j < k
         /\ \A k \in Rest(n, d, x) : i < k
         /\ Empty(tree, i) => Rest(n, d, c) = {}
<1>1. n \in Nat /\ d \in [1 .. n -> Nat]
  BY DEF HasDepths
<1>2. IsChild(n, d, i, c) /\ IsNext(n, d, i, x) /\ (Empty(tree, i) => c = 0)
  BY FirstChild, NextSibling
<1>3. Below(n, d, i) = Rest(n, d, c)
  BY <1>1, <1>2, BelowAreChildren
<1>4. /\ Rest(n, d, i) = {i} \cup Below(n, d, i) \cup Rest(n, d, x)
      /\ \A j \in Below(n, d, i) : i < j /\ \A k \in Rest(n, d, x) : j < k
      /\ \A k \in Rest(n, d, x) : i < k
  BY <1>1, <1>2, RestParts
<1>5. Empty(tree, i) => Rest(n, d, c) = {}
  BY <1>2 DEF Rest
<1> QED BY <1>3, <1>4, <1>5

LEMMA RestType ==
  ASSUME NEW n \in Nat, NEW d, NEW i \in 0 .. n
  PROVE  Rest(n, d, i) \subseteq 1 .. n
BY DEF Rest

\* The links lead onward.
LEMMA LinksOnward ==
  ASSUME NEW tree, NEW n, NEW d, HasDepths(tree, n, d),
         NEW c, c = [i \in 1 .. n |-> xmlChildrenNode(tree, i)],
         NEW x, x = [i \in 1 .. n |-> next_node(tree, i)],
         NEW D, D \subseteq 1 .. n
  PROVE  Onward(n, D, c, x)
BY FirstChild, NextSibling DEF Onward

\* get_input_fields collects the inputs below a node in document order.
LEMMA InputsBelow ==
  ASSUME NEW tree, NEW n, NEW d, HasDepths(tree, n, d), NEW parent \in 1 .. n,
         NEW A, \A i \in 1 .. n : tree[i].kind = "input" => InputAt(tree, i) \in A,
         NEW v, v = [i \in 1 .. n |-> InputAt(tree, i)],
         NEW s, s = get_input_fields(tree, parent)
  PROVE  /\ s \in Seq(A)
         /\ Lists(s, {j \in Below(n, d, parent) : tree[j].kind = "input"}, v)
<1> PICK c : c = [i \in 1 .. n |-> xmlChildrenNode(tree, i)]
  OBVIOUS
<1> PICK x : x = [i \in 1 .. n |-> next_node(tree, i)]
  OBVIOUS
<1> PICK D : D = {i \in 1 .. n : ~ Empty(tree, i)}
  OBVIOUS
<1> PICK own : own = [i \in 1 .. n |-> IF tree[i].kind = "input" THEN <<InputAt(tree, i)>> ELSE <<>>]
  OBVIOUS
<1> PICK K : K = [i \in 0 .. n |-> {j \in Rest(n, d, i) : tree[j].kind = "input"}]
  OBVIOUS
<1>1. n \in Nat /\ n = Len(tree)
  BY DEF HasDepths
<1>2. Onward(n, D, c, x)
  BY LinksOnward
<1>3. \A i \in 1 .. n : own[i] \in Seq(A)
  <2> SUFFICES ASSUME NEW i \in 1 .. n PROVE own[i] \in Seq(A)
    OBVIOUS
  <2>1. own[i] = IF tree[i].kind = "input" THEN <<InputAt(tree, i)>> ELSE <<>>
    OBVIOUS
  <2>2. tree[i].kind = "input" => <<InputAt(tree, i)>> \in Seq(A)
    <3> SUFFICES ASSUME tree[i].kind = "input" PROVE <<InputAt(tree, i)>> \in Seq(A)
      OBVIOUS
    <3> PICK a \in A : a = InputAt(tree, i)
      OBVIOUS
    <3> QED OBVIOUS
  <2>3. <<>> \in Seq(A)
    OBVIOUS
  <2> QED BY ONLY <2>1, <2>2, <2>3
<1> DEFINE Here(g, node) == CASE tree[node].kind = "input" ->
                                   <<[name |-> tree[node].name, value |-> tree[node].value]>>
                              [] tree[node].kind = "text" -> <<>>
                              [] OTHER -> g[xmlChildrenNode(tree, node)]
           At(g, node) == IF node = 0 THEN <<>>
                          ELSE Here(g, node) \o g[next_node(tree, node)]
           u == CHOOSE g : g = [node \in 0 .. Len(tree) |-> At(g, node)]
<1>4. s = u[xmlChildrenNode(tree, parent)]
  BY DEF get_input_fields
<1>5. ASSUME NEW g, NEW i \in 1 .. n
      PROVE  At(g, i) = Step(g, D, own, c, x, i)
  <2>1. /\ c[i] = xmlChildrenNode(tree, i) /\ x[i] = next_node(tree, i)
        /\ (i \in D <=> tree[i].kind # "input" /\ tree[i].kind # "text")
        /\ own[i] = IF tree[i].kind = "input" THEN <<InputAt(tree, i)>> ELSE <<>>
    BY DEF Empty
  <2>2. Here(g, i) = IF i \in D THEN g[c[i]] ELSE own[i]
    <3>1. CASE tree[i].kind = "input"
      <4>1. Here(g, i) = <<InputAt(tree, i)>>
        BY <3>1 DEF InputAt
      <4> HIDE DEF Here
      <4> QED BY <2>1, <3>1, <4>1
    <3>2. CASE tree[i].kind = "text"
      <4>1. Here(g, i) = <<>> /\ tree[i].kind # "input"
        BY <3>2
      <4> HIDE DEF Here
      <4> QED BY <2>1, <3>2, <4>1
    <3>3. CASE tree[i].kind # "input" /\ tree[i].kind # "text"
      <4>1. Here(g, i) = g[xmlChildrenNode(tree, i)]
        BY <3>3
      <4> HIDE DEF Here
      <4> QED BY <2>1, <3>3, <4>1
    <3> QED BY <3>1, <3>2, <3>3
  <2> HIDE DEF Here
  <2>3. At(g, i) = Here(g, i) \o g[x[i]]
    BY <1>1, <2>1
  <2> HIDE DEF At
  <2> QED BY ONLY <2>2, <2>3 DEF Step
<1>6. ASSUME NEW g
      PROVE  [node \in 0 .. Len(tree) |-> At(g, node)] = Walk(g, n, D, own, c, x)
  <2>1. \A i \in 0 .. n : i # 0 => i \in 1 .. n
    BY <1>1
  <2>2. At(g, 0) = <<>>
    OBVIOUS
  <2> HIDE DEF At
  <2> QED BY <1>1, <1>5, <2>1, <2>2 DEF Walk
<1>7. u = Walk(u, n, D, own, c, x)
  <2>1. \E g : g = Walk(g, n, D, own, c, x)
    <3>1. n \in Nat /\ Walks(A, n, D, own, c, x)
      BY <1>1, <1>2, <1>3 DEF Walks
    <3> QED BY ONLY <3>1, WalkEnds
  <2>2. \E g : g = [node \in 0 .. Len(tree) |-> At(g, node)]
    <3> PICK g : g = Walk(g, n, D, own, c, x)
      BY <2>1
    <3>1. [node \in 0 .. Len(tree) |-> At(g, node)] = Walk(g, n, D, own, c, x)
      BY <1>6
    <3> HIDE DEF At
    <3> QED BY <3>1
  <2>3. u = [node \in 0 .. Len(tree) |-> At(u, node)]
    <3> HIDE DEF At
    <3> QED BY <2>2
  <2> HIDE DEF u, At
  <2> QED BY <1>6, <2>3
<1> HIDE DEF u, At
<1>8. ASSUME NEW i \in 1 .. n
      PROVE  Visits(A, D, own, c, x, v, K, i)
  <2>1. c[i] = xmlChildrenNode(tree, i) /\ x[i] = next_node(tree, i)
    OBVIOUS
  <2>2. c[i] \in 0 .. n /\ x[i] \in 0 .. n /\ i \in 0 .. n
    BY <1>1, <1>2 DEF Onward
  <2>3. /\ K[i] = {j \in Rest(n, d, i) : tree[j].kind = "input"}
        /\ K[c[i]] = {j \in Rest(n, d, c[i]) : tree[j].kind = "input"}
        /\ K[x[i]] = {j \in Rest(n, d, x[i]) : tree[j].kind = "input"}
    BY <2>2
  <2>4. /\ Rest(n, d, i) = {i} \cup Rest(n, d, c[i]) \cup Rest(n, d, x[i])
        /\ \A j \in Rest(n, d, c[i]), k \in Rest(n, d, x[i]) : j < k
        /\ \A k \in Rest(n, d, x[i]) : i < k
        /\ Empty(tree, i) => Rest(n, d, c[i]) = {}
    BY <2>1, RestOfTree
  <2>5. CASE tree[i].kind = "input"
    <3>1. i \notin D /\ own[i] = <<v[i]>> /\ v[i] \in A
      BY <2>5 DEF Empty
    <3>2. Rest(n, d, c[i]) = {}
      BY <2>4, <2>5 DEF Empty
    <3>3. K[i] = {i} \cup K[x[i]] /\ \A k \in K[x[i]] : i < k
      BY ONLY <2>3, <2>4, <2>5, <3>2
    <3> QED BY <3>1, <3>3 DEF Visits
  <2>6. CASE tree[i].kind = "text"
    <3>1. i \notin D /\ own[i] = <<>>
      BY <2>6 DEF Empty
    <3>2. Rest(n, d, c[i]) = {}
      BY <2>4, <2>6 DEF Empty
    <3>3. K[i] = K[x[i]]
      <4>1. tree[i].kind # "input"
        BY <2>6
      <4> QED BY ONLY <2>3, <2>4, <3>2, <4>1
    <3> QED BY <3>1, <3>3 DEF Visits
  <2>7. CASE tree[i].kind # "input" /\ tree[i].kind # "text"
    <3>1. i \in D
      BY <2>7 DEF Empty
    <3>2. K[i] = K[c[i]] \cup K[x[i]] /\ \A j \in K[c[i]], k \in K[x[i]] : j < k
      BY ONLY <2>3, <2>4, <2>7
    <3> QED BY <3>1, <3>2 DEF Visits
  <2> QED BY <2>5, <2>6, <2>7
<1>9. K[0] = {} /\ \A i \in 0 .. n : K[i] \subseteq 1 .. n
  BY <1>1, RestType DEF Rest
<1>10. \A i \in 0 .. n : u[i] \in Seq(A) /\ Lists(u[i], K[i], v)
  BY ONLY <1>1, <1>2, <1>7, <1>8, <1>9, WalkLists
<1> PICK e \in 0 .. n : e = xmlChildrenNode(tree, parent)
  BY <1>1, FirstChild
<1>11. K[e] = {j \in Below(n, d, parent) : tree[j].kind = "input"}
  BY RestOfTree
<1> QED BY <1>4, <1>10, <1>11

-----------------------------------------------------------------------------
(* The forms of a page. *)

\* The forms F among the nodes R that are not below another one of them.
Outer(n, d, F, R) == {j \in R \cap F : ~ \E f \in R \cap F : j \in Below(n, d, f)}

LEMMA OuterParts ==
  ASSUME NEW tree, NEW n, NEW d, HasDepths(tree, n, d), NEW i \in 1 .. n,
         NEW c, c = xmlChildrenNode(tree, i), NEW x, x = next_node(tree, i),
         NEW F, NEW O, O = Outer(n, d, F, Rest(n, d, i)),
         NEW P, P = Outer(n, d, F, Rest(n, d, c)), NEW Q, Q = Outer(n, d, F, Rest(n, d, x))
  PROVE  /\ i \notin F => O = P \cup Q
         /\ i \in F => O = {i} \cup Q
         /\ \A j \in P, k \in Q : j < k
         /\ \A k \in Q : i < k
         /\ Empty(tree, i) => P = {}
<1>0. n \in Nat /\ d \in [1 .. n -> Nat]
  BY DEF HasDepths
<1> PICK C : C = Rest(n, d, c)
  OBVIOUS
<1> PICK X : X = Rest(n, d, x)
  OBVIOUS
<1> PICK R : R = Rest(n, d, i)
  OBVIOUS
<1> PICK B : B = [f \in 1 .. n |-> Below(n, d, f)]
  OBVIOUS
<1>1. /\ Below(n, d, i) = C /\ R = {i} \cup C \cup X
      /\ \A j \in C : i < j /\ \A k \in X : j < k
      /\ \A k \in X : i < k
      /\ Empty(tree, i) => C = {}
  BY RestOfTree
<1>2. C \subseteq 1 .. n /\ X \subseteq 1 .. n /\ R \subseteq 1 .. n
  <2>1. c \in {0} \cup (i + 1 .. n)
    BY FirstChild
  <2>2. x \in {0} \cup (i + 1 .. n)
    BY NextSibling
  <2>3. c \in 0 .. n /\ x \in 0 .. n /\ i \in 0 .. n
    BY ONLY <1>0, <2>1, <2>2, i \in 1 .. n
  <2> QED BY <1>0, <2>3, RestType
<1>3. B[i] = C
  BY <1>1
<1>4. \A f \in 1 .. n : \A j \in B[f] : f < j
  BY <1>0 DEF Below
<1>5. \A f \in C : \A j \in B[f] : j \in C
  <2> SUFFICES ASSUME NEW f \in C, NEW j \in B[f] PROVE j \in C
    OBVIOUS
  <2>1. f \in Below(n, d, i) /\ j \in Below(n, d, f)
    BY <1>1, <1>2
  <2> QED BY <1>0, <1>1, <2>1, BelowNested
<1>6. /\ O = {j \in R \cap F : ~ \E f \in R \cap F : j \in B[f]}
      /\ P = {j \in C \cap F : ~ \E f \in C \cap F : j \in B[f]}
      /\ Q = {j \in X \cap F : ~ \E f \in X \cap F : j \in B[f]}
  BY <1>2 DEF Outer
<1>7. \A j, k \in 1 .. n : j < k => ~ (k < j) /\ j # k
  BY <1>0
<1>8. \A k \in X : k \notin C
  BY <1>1, <1>2, <1>7
<1>9. ASSUME NEW j \in X
      PROVE  j \in O <=> j \in Q
  <2>1. \A f \in C : j \notin B[f]
    BY <1>5, <1>8
  <2>2. j \notin B[i]
    BY <1>3, <1>8
  <2> QED BY ONLY <1>1, <1>6, <2>1, <2>2, j \in X
<1>10. ASSUME NEW j \in C
       PROVE  j \in O <=> j \in P /\ i \notin F
  <2>1. \A f \in X : j \notin B[f]
    BY <1>1, <1>2, <1>4, <1>7
  <2>2. j \in B[i]
    BY <1>3
  <2> QED BY ONLY <1>1, <1>6, <2>1, <2>2, j \in C
<1>11. i \in O <=> i \in F
  <2>1. \A f \in C \cup X : i \notin B[f]
    BY <1>1, <1>2, <1>4, <1>7
  <2>2. i \notin B[i]
    BY <1>4, <1>7
  <2> QED BY ONLY <1>1, <1>6, <2>1, <2>2
<1>12. O \subseteq {i} \cup C \cup X /\ P \subseteq C /\ Q \subseteq X
  BY ONLY <1>1, <1>6
<1>13. i \notin C /\ i \notin X
  BY <1>1, <1>2, <1>7
<1>14. i \notin F => O = P \cup Q
  BY ONLY <1>9, <1>10, <1>11, <1>12, <1>8, <1>13
<1>15. i \in F => O = {i} \cup Q
  BY ONLY <1>9, <1>10, <1>11, <1>12, <1>8, <1>13
<1>16. /\ \A j \in P, k \in Q : j < k
       /\ \A k \in Q : i < k
       /\ Empty(tree, i) => P = {}
  BY ONLY <1>1, <1>12
<1> QED BY ONLY <1>14, <1>15, <1>16

\* get_form_fields collects the forms in document order.
LEMMA FormsOfTree ==
  ASSUME NEW tree, NEW n, NEW d, HasDepths(tree, n, d), n # 0,
         NEW F, F = {i \in 1 .. n : tree[i].kind = "form"},
         NEW A, \A i \in F : form_at(tree, i) \in A,
         NEW v, v = [i \in 1 .. n |-> form_at(tree, i)],
         NEW s, s = get_form_fields(tree, 1)
  PROVE  s \in Seq(A) /\ Lists(s, Outer(n, d, F, 1 .. n), v)
<1> PICK c : c = [i \in 1 .. n |-> xmlChildrenNode(tree, i)]
  OBVIOUS
<1> PICK x : x = [i \in 1 .. n |-> next_node(tree, i)]
  OBVIOUS
<1> PICK D : D = {i \in 1 .. n : tree[i].kind # "form" /\ tree[i].kind # "text"}
  OBVIOUS
<1> PICK own : own = [i \in 1 .. n |-> IF tree[i].kind = "form" THEN <<form_at(tree, i)>> ELSE <<>>]
  OBVIOUS
<1> PICK K : K = [i \in 0 .. n |-> Outer(n, d, F, Rest(n, d, i))]
  OBVIOUS
<1>1. n \in Nat /\ n = Len(tree)
  BY DEF HasDepths
<1>2. Onward(n, D, c, x)
  BY LinksOnward
<1>3. \A i \in 1 .. n : own[i] \in Seq(A)
  <2> SUFFICES ASSUME NEW i \in 1 .. n PROVE own[i] \in Seq(A)
    OBVIOUS
  <2>1. own[i] = IF tree[i].kind = "form" THEN <<form_at(tree, i)>> ELSE <<>>
    OBVIOUS
  <2>2. tree[i].kind = "form" => <<form_at(tree, i)>> \in Seq(A)
    <3> SUFFICES ASSUME tree[i].kind = "form" PROVE <<form_at(tree, i)>> \in Seq(A)
      OBVIOUS
    <3> PICK a \in A : a = form_at(tree, i)
      OBVIOUS
    <3> QED OBVIOUS
  <2>3. <<>> \in Seq(A)
    OBVIOUS
  <2> QED BY ONLY <2>1, <2>2, <2>3
<1> DEFINE Here(g, node) == CASE tree[node].kind = "form" -> <<form_at(tree, node)>>
                              [] tree[node].kind = "text" -> <<>>
                              [] OTHER -> g[xmlChildrenNode(tree, node)]
           At(g, node) == IF node = 0 THEN <<>>
                          ELSE Here(g, node) \o g[next_node(tree, node)]
           u == CHOOSE g : g = [node \in 0 .. Len(tree) |-> At(g, node)]
<1>4. s = u[1]
  BY DEF get_form_fields
<1>5. ASSUME NEW g, NEW i \in 1 .. n
      PROVE  At(g, i) = Step(g, D, own, c, x, i)
  <2>1. /\ c[i] = xmlChildrenNode(tree, i) /\ x[i] = next_node(tree, i)
        /\ (i \in D <=> tree[i].kind # "form" /\ tree[i].kind # "text")
        /\ own[i] = IF tree[i].kind = "form" THEN <<form_at(tree, i)>> ELSE <<>>
    OBVIOUS
  <2>2. Here(g, i) = IF i \in D THEN g[c[i]] ELSE own[i]
    <3>1. CASE tree[i].kind = "form"
      <4>1. Here(g, i) = <<form_at(tree, i)>>
        BY <3>1
      <4> HIDE DEF Here
      <4> QED BY <2>1, <3>1, <4>1
    <3>2. CASE tree[i].kind = "text"
      <4>1. Here(g, i) = <<>> /\ tree[i].kind # "form"
        BY <3>2
      <4> HIDE DEF Here
      <4> QED BY <2>1, <3>2, <4>1
    <3>3. CASE tree[i].kind # "form" /\ tree[i].kind # "text"
      <4>1. Here(g, i) = g[xmlChildrenNode(tree, i)]
        BY <3>3
      <4> HIDE DEF Here
      <4> QED BY <2>1, <3>3, <4>1
    <3> QED BY <3>1, <3>2, <3>3
  <2> HIDE DEF Here
  <2>3. At(g, i) = Here(g, i) \o g[x[i]]
    BY <1>1, <2>1
  <2> HIDE DEF At
  <2> QED BY ONLY <2>2, <2>3 DEF Step
<1>6. ASSUME NEW g
      PROVE  [node \in 0 .. Len(tree) |-> At(g, node)] = Walk(g, n, D, own, c, x)
  <2>1. \A i \in 0 .. n : i # 0 => i \in 1 .. n
    BY <1>1
  <2>2. At(g, 0) = <<>>
    OBVIOUS
  <2> HIDE DEF At
  <2> QED BY <1>1, <1>5, <2>1, <2>2 DEF Walk
<1>7. u = Walk(u, n, D, own, c, x)
  <2>1. \E g : g = Walk(g, n, D, own, c, x)
    <3>1. n \in Nat /\ Walks(A, n, D, own, c, x)
      BY <1>1, <1>2, <1>3 DEF Walks
    <3> QED BY ONLY <3>1, WalkEnds
  <2>2. \E g : g = [node \in 0 .. Len(tree) |-> At(g, node)]
    <3> PICK g : g = Walk(g, n, D, own, c, x)
      BY <2>1
    <3>1. [node \in 0 .. Len(tree) |-> At(g, node)] = Walk(g, n, D, own, c, x)
      BY <1>6
    <3> HIDE DEF At
    <3> QED BY <3>1
  <2>3. u = [node \in 0 .. Len(tree) |-> At(u, node)]
    <3> HIDE DEF At
    <3> QED BY <2>2
  <2> HIDE DEF u, At
  <2> QED BY <1>6, <2>3
<1> HIDE DEF u, At
<1>8. ASSUME NEW i \in 1 .. n
      PROVE  Visits(A, D, own, c, x, v, K, i)
  <2>1. c[i] = xmlChildrenNode(tree, i) /\ x[i] = next_node(tree, i)
    OBVIOUS
  <2>2. c[i] \in 0 .. n /\ x[i] \in 0 .. n /\ i \in 0 .. n
    BY <1>1, <1>2 DEF Onward
  <2>3. /\ K[i] = Outer(n, d, F, Rest(n, d, i))
        /\ K[c[i]] = Outer(n, d, F, Rest(n, d, c[i]))
        /\ K[x[i]] = Outer(n, d, F, Rest(n, d, x[i]))
    BY <2>2
  <2>4. /\ i \notin F => K[i] = K[c[i]] \cup K[x[i]]
        /\ i \in F => K[i] = {i} \cup K[x[i]]
        /\ \A j \in K[c[i]], k \in K[x[i]] : j < k
        /\ \A k \in K[x[i]] : i < k
        /\ Empty(tree, i) => K[c[i]] = {}
    <3>1. /\ HasDepths(tree, n, d) /\ i \in 1 .. n
          /\ c[i] = xmlChildrenNode(tree, i) /\ x[i] = next_node(tree, i)
      BY <2>1
    <3> QED BY ONLY <2>3, <3>1, OuterParts
  <2>5. CASE tree[i].kind = "form"
    <3>1. i \in F /\ i \notin D /\ own[i] = <<v[i]>> /\ v[i] \in A
      BY <2>5
    <3> QED BY <2>4, <3>1 DEF Visits
  <2>6. CASE tree[i].kind = "text"
    <3>1. i \notin F /\ i \notin D /\ own[i] = <<>> /\ Empty(tree, i)
      BY <2>6 DEF Empty
    <3>2. K[i] = K[x[i]]
      BY ONLY <2>4, <3>1
    <3> QED BY <3>1, <3>2 DEF Visits
  <2>7. CASE tree[i].kind # "form" /\ tree[i].kind # "text"
    <3>1. i \in D /\ i \notin F
      BY <2>7
    <3> QED BY <2>4, <3>1 DEF Visits
  <2> QED BY <2>5, <2>6, <2>7
<1>9. K[0] = {} /\ \A i \in 0 .. n : K[i] \subseteq 1 .. n
  <2>1. \A i \in 0 .. n : Rest(n, d, i) \subseteq 1 .. n
    BY <1>1, RestType
  <2>2. Rest(n, d, 0) = {}
    BY DEF Rest
  <2>3. 0 \in 0 .. n
    BY <1>1
  <2> QED BY <2>1, <2>2, <2>3 DEF Outer
<1>10. \A i \in 0 .. n : u[i] \in Seq(A) /\ Lists(u[i], K[i], v)
  BY ONLY <1>1, <1>2, <1>7, <1>8, <1>9, WalkLists
<1>11. Rest(n, d, 1) = 1 .. n
  <2>1. d[1] = 0 /\ \A i \in 1 .. n : d[i] \in Nat
    BY DEF HasDepths
  <2>2. \A i \in 1 .. n : d[i] >= d[1]
    BY <2>1
  <2>3. \A k \in 1 .. n : \A l \in 1 .. k : l \in 1 .. n
    BY <1>1
  <2> QED BY <2>2, <2>3 DEF Rest
<1>12. 1 \in 0 .. n
  BY <1>1
<1> QED BY <1>4, <1>10, <1>11, <1>12

-----------------------------------------------------------------------------
(* The forms that are read. *)

\* The page is a tree of libxml2 and the forms are its forms.
PageRead == html \in Trees /\ forms = get_forms(html)

LEMMA InsideBelow ==
  ASSUME NEW n, NEW d, HasDepths(html, n, d), NEW i \in 1 .. n
  PROVE  Inside(i) = Below(n, d, i)
<1>1. /\ n \in Nat /\ DOMAIN html = 1 .. n
      /\ \A k \in 1 .. n : d[k] = html[k].depth
  BY DEF HasDepths
<1>2. \A j \in 1 .. n : \A k \in i + 1 .. j : k \in 1 .. n
  BY <1>1
<1>3. \A j : j \in 1 .. n /\ i < j <=> j \in i + 1 .. n
  BY <1>1
<1> QED BY <1>1, <1>2, <1>3 DEF Inside, Below

LEMMA OutermostOuter ==
  ASSUME NEW n, NEW d, HasDepths(html, n, d),
         NEW F, F = {i \in 1 .. n : html[i].kind = "form"}
  PROVE  OutermostForms = Outer(n, d, F, 1 .. n)
<1>1. DOMAIN html = 1 .. n
  BY DEF HasDepths
<1>2. \A i \in 1 .. n : IsForm(i) <=> i \in F
  BY DEF IsForm
<1>3. \A i \in 1 .. n : Inside(i) = Below(n, d, i)
  BY InsideBelow
<1>4. F \subseteq 1 .. n
  OBVIOUS
<1> QED BY ONLY <1>1, <1>2, <1>3, <1>4 DEF OutermostForms, Outer

\* The forms of a page, over the names and values that occur.
LEMMA FormsRead ==
  ASSUME PageRead
  PROVE  \E U, N, V :
           /\ login_inputs \subseteq N /\ {username, "secret"} \subseteq V
           /\ forms \in Seq(FormsOf(U, N, V))
           /\ Len(forms) = Cardinality(OutermostForms)
           /\ \A i \in OutermostForms :
                /\ Rank(OutermostForms, i) \in DOMAIN forms
                /\ SameElement(html[i], forms[Rank(OutermostForms, i)])
                /\ Lists(forms[Rank(OutermostForms, i)].input_fields,
                         {j \in Inside(i) : IsInput(j)},
                         [j \in DOMAIN html |-> InputAt(html, j)])
<1>1. IsTree(html)
  BY TreesAssumption DEF PageRead
<1> PICK n, d : HasDepths(html, n, d)
  BY <1>1, TreeHasDepths
<1>2. n \in Nat /\ n = Len(html) /\ DOMAIN html = 1 .. n
  BY DEF HasDepths
<1> PICK U : U = {html[i].action : i \in 1 .. n}
  OBVIOUS
<1> PICK N : N = {html[i].name : i \in 1 .. n} \cup login_inputs
  OBVIOUS
<1> PICK V : V = {html[i].value : i \in 1 .. n} \cup {username, "secret"}
  OBVIOUS
<1> PICK F : F = {i \in 1 .. n : html[i].kind = "form"}
  OBVIOUS
<1> PICK O : O = OutermostForms
  OBVIOUS
<1>3. O = Outer(n, d, F, 1 .. n) /\ O \subseteq 1 .. n
  BY OutermostOuter DEF Outer
<1> PICK A : A = FormsOf(U, N, V)
  OBVIOUS
<1> PICK v : v = [i \in 1 .. n |-> InputAt(html, i)]
  OBVIOUS
<1>4. \A i \in 1 .. n : InputAt(html, i) \in InputsOf(N, V)
  BY DEF InputAt, InputsOf
<1>5. ASSUME NEW i \in 1 .. n
      PROVE  /\ get_input_fields(html, i) \in Seq(InputsOf(N, V))
             /\ Lists(get_input_fields(html, i), {j \in Inside(i) : IsInput(j)}, v)
  <2>1. /\ get_input_fields(html, i) \in Seq(InputsOf(N, V))
        /\ Lists(get_input_fields(html, i), {j \in Below(n, d, i) : html[j].kind = "input"}, v)
    BY <1>4, InputsBelow
  <2>2. {j \in Inside(i) : IsInput(j)} = {j \in Below(n, d, i) : html[j].kind = "input"}
    BY InsideBelow DEF IsInput
  <2> QED BY <2>1, <2>2
<1>6. \A i \in F : form_at(html, i) \in A
  <2> SUFFICES ASSUME NEW i \in F PROVE form_at(html, i) \in A
    OBVIOUS
  <2>1. i \in 1 .. n /\ html[i].action \in U /\ html[i].name \in N /\ html[i].value \in V
    OBVIOUS
  <2> PICK fs \in Seq(InputsOf(N, V)) : fs = get_input_fields(html, i)
    BY <1>5, <2>1
  <2> QED BY <2>1 DEF form_at, FormsOf
<1> PICK w : w = [i \in 1 .. n |-> form_at(html, i)]
  OBVIOUS
<1>7. forms \in Seq(A) /\ Lists(forms, O, w)
  <2>1. CASE n = 0
    <3>1. html = <<>>
      BY <1>1, <1>2, <2>1, EmptySeq DEF IsTree
    <3>2. forms = <<>> /\ O = {}
      BY <1>2, <1>3, <2>1, <3>1 DEF PageRead, get_forms
    <3>3. <<>> \in Seq(A)
      OBVIOUS
    <3> QED BY ONLY <3>2, <3>3, ListsNone
  <2>2. CASE n # 0
    <3>1. html # <<>>
      BY <1>2, <2>2
    <3>2. forms = get_form_fields(html, 1)
      BY <3>1 DEF PageRead, get_forms
    <3>3. forms \in Seq(A) /\ Lists(forms, Outer(n, d, F, 1 .. n), w)
      BY <1>6, <2>2, <3>2, FormsOfTree
    <3> QED BY <1>3, <3>3
  <2> QED BY <2>1, <2>2
<1>8. Len(forms) = Cardinality(O) /\ DOMAIN forms = 1 .. Len(forms)
  BY <1>7, LenProperties DEF Lists
<1>9. ASSUME NEW i \in O
      PROVE  /\ Rank(O, i) \in DOMAIN forms
             /\ SameElement(html[i], forms[Rank(O, i)])
             /\ Lists(forms[Rank(O, i)].input_fields, {j \in Inside(i) : IsInput(j)}, v)
  <2>1. i \in 1 .. n
    BY <1>3
  <2>2. forms[Rank(O, i)] = form_at(html, i)
    BY <1>7, <2>1 DEF Lists
  <2>3. Rank(O, i) \in 1 .. Cardinality(O)
    BY <1>2, <1>3, RankOf
  <2>4. /\ SameElement(html[i], forms[Rank(O, i)])
        /\ forms[Rank(O, i)].input_fields = get_input_fields(html, i)
    BY <2>2 DEF form_at, SameElement
  <2> QED BY <1>5, <1>8, <2>1, <2>3, <2>4
<1>10. v = [j \in DOMAIN html |-> InputAt(html, j)]
  BY <1>2
<1>11. login_inputs \subseteq N /\ {username, "secret"} \subseteq V
  OBVIOUS
<1> QED BY ONLY <1>7, <1>8, <1>9, <1>10, <1>11, O = OutermostForms, A = FormsOf(U, N, V)

-----------------------------------------------------------------------------
(* The login form. *)

\* The search criterion of login_to_gmail is the reference definition.
LEMMA LoginFormTest ==
  ASSUME NEW f
  PROVE  search_form_by_action_and_inputs(f, GOOGLE_GMAIL_LOGIN, login_inputs) <=> IsLoginForm(f)
<1> PICK A : GOOGLE_GMAIL_LOGIN \in Seq(A)
  <2>1. GOOGLE_GMAIL_LOGIN \in Seq({"https://accounts.google.com", "ServiceLogin"})
    BY DEF GOOGLE_GMAIL_LOGIN
  <2> QED BY <2>1
<1>1. Len(GOOGLE_GMAIL_LOGIN) = 2
  BY DEF GOOGLE_GMAIL_LOGIN
<1>2. SubSeq(GOOGLE_GMAIL_LOGIN, 1, 2) = GOOGLE_GMAIL_LOGIN
  BY <1>1, SubSeqFull
<1>3. IsPrefix(GOOGLE_GMAIL_LOGIN, f.action)
        <=> Len(f.action) >= 2 /\ SubSeq(f.action, 1, 2) = GOOGLE_GMAIL_LOGIN
  BY <1>1, <1>2 DEF IsPrefix
<1>4. NULL # GOOGLE_GMAIL_LOGIN /\ NULL \notin login_inputs /\ login_inputs # {}
  BY FieldNullAssumption DEF login_inputs
<1>5. \A g : search_input_by_name(g, login_inputs) <=> g.name \in login_inputs
  BY <1>4 DEF search_input_by_name
<1> QED BY ONLY <1>3, <1>4, <1>5 DEF search_form_by_action_and_inputs, IsLoginForm

\* The form that login_to_gmail finds.
Found == find_form(forms, GOOGLE_GMAIL_LOGIN, login_inputs)

LEMMA FormFoundIs ==
  ASSUME NEW A, forms \in Seq(A)
  PROVE  \/ Found = NULL /\ \A i \in DOMAIN forms : ~ IsLoginForm(forms[i])
         \/ \E i \in DOMAIN forms : /\ forms[i] = Found
                                    /\ IsLoginForm(Found)
                                    /\ \A j \in 1 .. i - 1 : ~ IsLoginForm(forms[j])
<1>1. DOMAIN forms = 1 .. Len(forms)
  BY LenProperties
<1>2. \/ /\ Found = NULL
         /\ \A i \in 1 .. Len(forms) :
              ~ search_form_by_action_and_inputs(forms[i], GOOGLE_GMAIL_LOGIN, login_inputs)
      \/ \E i \in 1 .. Len(forms) :
           /\ Found = forms[i]
           /\ search_form_by_action_and_inputs(Found, GOOGLE_GMAIL_LOGIN, login_inputs)
           /\ \A j \in 1 .. i - 1 :
                ~ search_form_by_action_and_inputs(forms[j], GOOGLE_GMAIL_LOGIN, login_inputs)
  BY FirstForm DEF Found
<1> HIDE DEF Found
<1> QED BY <1>1, <1>2, LoginFormTest

-----------------------------------------------------------------------------
(* Filling in the credentials. *)

\* FirstNamed(s, n) is the first place of that name, or 0.
LEMMA FirstNamedIs ==
  ASSUME NEW s, Len(s) \in Nat, NEW n, NEW p, p = FirstNamed(s, n)
  PROVE  \/ p = 0 /\ \A i \in 1 .. Len(s) : s[i].name # n
         \/ p \in 1 .. Len(s) /\ s[p].name = n /\ \A i \in 1 .. p - 1 : s[i].name # n
<1> DEFINE I == {i \in 1 .. Len(s) : s[i].name = n}
<1>1. p = IF I # {} THEN Min(I) ELSE 0
  BY DEF FirstNamed, SelectInSeq
<1>2. CASE I = {}
  BY <1>1, <1>2
<1>3. CASE I # {}
  <2>1. p \in I /\ \A i \in I : p <= i
    <3>1. I \subseteq Nat
      OBVIOUS
    <3> HIDE DEF I
    <3> QED BY <1>1, <1>3, <3>1, SmallestIsMember
  <2>2. p \in 1 .. Len(s) /\ s[p].name = n
    BY <2>1
  <2>3. ASSUME NEW i \in 1 .. p - 1
        PROVE  s[i].name # n
    <3>1. i \in 1 .. Len(s) /\ ~ (p <= i)
      BY <2>2
    <3> QED BY <2>1, <3>1
  <2> QED BY <2>2, <2>3
<1> QED BY <1>2, <1>3

\* The place in s is the only one with these properties.
LEMMA FirstNamedAt ==
  ASSUME NEW s, Len(s) \in Nat, NEW n, NEW i \in 1 .. Len(s), s[i].name = n,
         \A j \in 1 .. i - 1 : s[j].name # n
  PROVE  FirstNamed(s, n) = i
<1> PICK p : p = FirstNamed(s, n)
  OBVIOUS
<1>1. p \in 1 .. Len(s) /\ s[p].name = n /\ \A j \in 1 .. p - 1 : s[j].name # n
  BY FirstNamedIs
<1>2. ~ (p < i)
  BY <1>1
<1>3. ~ (i < p)
  BY <1>1
<1> QED BY <1>1, <1>2, <1>3

LEMMA FirstNamedNone ==
  ASSUME NEW s, Len(s) \in Nat, NEW n, \A j \in 1 .. Len(s) : s[j].name # n
  PROVE  FirstNamed(s, n) = 0
BY FirstNamedIs

\* The inputs new are those of old with a new value for the first of the name,
\* which stands at the end when there was none.
Fills(old, new, name, value) ==
  /\ Len(old) <= Len(new)
  /\ \A i \in 1 .. Len(old) :
       /\ new[i].name = old[i].name
       /\ new[i].value = IF FirstNamed(old, name) = i THEN value ELSE old[i].value
  /\ \A i \in Len(old) + 1 .. Len(new) : new[i].name = name /\ FirstNamed(old, name) = 0
  /\ FirstNamed(new, name) \in 1 .. Len(new)
  /\ new[FirstNamed(new, name)].value = value
  /\ \A other : other # name => FirstNamed(new, other) = FirstNamed(old, other)

LEMMA UpdatedFills ==
  ASSUME NEW old, NEW new, Len(old) \in Nat, Len(new) \in Nat, NEW name, NEW value,
         Updated(old, new, name, value)
  PROVE  Fills(old, new, name, value)
<1> PICK l \in Nat : l = Len(old)
  OBVIOUS
<1> PICK m \in Nat : m = Len(new)
  OBVIOUS
<1> PICK entry : entry = [name |-> name, value |-> value]
  OBVIOUS
<1>0. entry.name = name /\ entry.value = value
  OBVIOUS
<1>1. CASE \E i \in 1 .. l : /\ old[i].name = name
                             /\ \A j \in 1 .. i - 1 : old[j].name # name
                             /\ m = l /\ new[i] = entry
                             /\ \A j \in 1 .. l : j # i => new[j] = old[j]
  <2> PICK i \in 1 .. l : /\ old[i].name = name
                          /\ \A j \in 1 .. i - 1 : old[j].name # name
                          /\ m = l /\ new[i] = entry
                          /\ \A j \in 1 .. l : j # i => new[j] = old[j]
    BY <1>1
  <2>1. FirstNamed(old, name) = i
    BY FirstNamedAt
  <2>2. \A j \in 1 .. l : new[j].name = old[j].name
    BY <1>0
  <2>3. FirstNamed(new, name) = i
    <3>1. \A j \in 1 .. i - 1 : j \in 1 .. l
      OBVIOUS
    <3>2. new[i].name = name /\ \A j \in 1 .. i - 1 : new[j].name # name
      BY <1>0, <2>2, <3>1
    <3> QED BY <3>2, FirstNamedAt
  <2>4. \A j \in 1 .. l : new[j].value = IF i = j THEN value ELSE old[j].value
    BY <1>0
  <2>5. ASSUME NEW other, other # name
        PROVE  FirstNamed(new, other) = FirstNamed(old, other)
    <3> PICK p : p = FirstNamed(old, other)
      OBVIOUS
    <3>1. \/ p = 0 /\ \A j \in 1 .. l : old[j].name # other
          \/ p \in 1 .. l /\ old[p].name = other /\ \A j \in 1 .. p - 1 : old[j].name # other
      BY FirstNamedIs
    <3>2. CASE p = 0 /\ \A j \in 1 .. l : old[j].name # other
      <4>1. Len(new) \in Nat /\ \A j \in 1 .. Len(new) : new[j].name # other
        BY <2>2, <3>2
      <4>2. FirstNamed(new, other) = 0
        BY ONLY <4>1, FirstNamedNone
      <4> QED BY <3>2, <4>2
    <3>3. CASE p \in 1 .. l /\ old[p].name = other /\ \A j \in 1 .. p - 1 : old[j].name # other
      <4>1. \A j \in 1 .. p - 1 : j \in 1 .. l
        BY <3>3
      <4>2. new[p].name = other /\ \A j \in 1 .. p - 1 : new[j].name # other
        BY <2>2, <3>3, <4>1
      <4>3. Len(new) \in Nat /\ p \in 1 .. Len(new)
        BY <3>3
      <4>4. FirstNamed(new, other) = p
        BY ONLY <4>2, <4>3, FirstNamedAt
      <4> QED BY <4>4
    <3> QED BY <3>1, <3>2, <3>3
  <2>6. Len(old) <= Len(new) /\ Len(old) + 1 .. Len(new) = {}
    OBVIOUS
  <2>7. i \in 1 .. Len(new) /\ new[i].value = value
    BY <1>0
  <2> QED BY <2>1, <2>2, <2>3, <2>4, <2>5, <2>6, <2>7 DEF Fills
<1>2. CASE /\ \A j \in 1 .. l : old[j].name # name
           /\ m = l + 1 /\ new[l + 1] = entry
           /\ \A j \in 1 .. l : new[j] = old[j]
  <2>1. FirstNamed(old, name) = 0
    BY <1>2, FirstNamedNone
  <2>2. /\ \A j \in 1 .. l : new[j] = old[j]
        /\ new[m].name = name /\ new[m].value = value /\ m = l + 1 /\ m \in 1 .. m
    BY <1>0, <1>2
  <2>3. \A j \in 1 .. m - 1 : j \in 1 .. l
    BY <2>2
  <2>4. FirstNamed(new, name) = m
    <3>1. \A j \in 1 .. m - 1 : new[j].name # name
      BY <1>2, <2>2, <2>3
    <3> QED BY <2>2, <3>1, FirstNamedAt
  <2>5. ASSUME NEW other, other # name
        PROVE  FirstNamed(new, other) = FirstNamed(old, other)
    <3> PICK p : p = FirstNamed(old, other)
      OBVIOUS
    <3>1. \/ p = 0 /\ \A j \in 1 .. l : old[j].name # other
          \/ p \in 1 .. l /\ old[p].name = other /\ \A j \in 1 .. p - 1 : old[j].name # other
      BY FirstNamedIs
    <3>2. CASE p = 0 /\ \A j \in 1 .. l : old[j].name # other
      <4>1. \A j \in 1 .. m : j = m \/ j \in 1 .. l
        BY <2>2
      <4>2. \A j \in 1 .. m : new[j].name # other
        BY <2>2, <2>5, <3>2, <4>1
      <4> QED BY <3>2, <4>2, FirstNamedNone
    <3>3. CASE p \in 1 .. l /\ old[p].name = other /\ \A j \in 1 .. p - 1 : old[j].name # other
      <4>1. p \in 1 .. m /\ \A j \in 1 .. p - 1 : j \in 1 .. l
        BY <2>2, <3>3
      <4>2. new[p].name = other /\ \A j \in 1 .. p - 1 : new[j].name # other
        BY <2>2, <3>3, <4>1
      <4> QED BY <4>1, <4>2, FirstNamedAt
    <3> QED BY <3>1, <3>2, <3>3
  <2>6. \A j \in l + 1 .. m : j = m
    BY <2>2
  <2>7. \A j \in 1 .. l : 0 # j
    OBVIOUS
  <2>8. Len(old) <= Len(new)
    BY <2>2
  <2> QED BY <2>1, <2>2, <2>4, <2>5, <2>6, <2>7, <2>8 DEF Fills
<1>3. \/ \E i \in 1 .. l : /\ old[i].name = name
                           /\ \A j \in 1 .. i - 1 : old[j].name # name
                           /\ m = l /\ new[i] = entry
                           /\ \A j \in 1 .. l : j # i => new[j] = old[j]
      \/ /\ \A j \in 1 .. l : old[j].name # name
         /\ m = l + 1 /\ new[l + 1] = entry
         /\ \A j \in 1 .. l : new[j] = old[j]
  BY DEF Updated
<1> QED BY <1>1, <1>2, <1>3

LEMMA CredentialsFilled ==
  ASSUME NEW U, NEW N, NEW V, login_inputs \subseteq N, {username, "secret"} \subseteq V,
         NEW form \in FormsOf(U, N, V), NEW new, new = modify_form(form, Credentials(username))
  PROVE  /\ new \in FormsOf(U, N, V)
         /\ \E mid \in Seq(InputsOf(N, V)) :
              /\ Fills(form.input_fields, mid, "Email", username)
              /\ Fills(mid, new.input_fields, "Passwd", "secret")
<1> PICK a : a = [name |-> "Email", value |-> username]
  OBVIOUS
<1> PICK b : b = [name |-> "Passwd", value |-> "secret"]
  OBVIOUS
<1>1. a \in InputsOf(N, V) /\ b \in InputsOf(N, V)
  BY DEF InputsOf, login_inputs
<1>2. a.name = "Email" /\ a.value = username /\ b.name = "Passwd" /\ b.value = "secret"
  OBVIOUS
<1>3. a.name # NULL /\ b.name # NULL
  BY <1>2, FieldNullAssumption DEF login_inputs
<1>4. new = modify_form(form, <<a, b>>)
  BY DEF Credentials
<1>5. new \in FormsOf(U, N, V)
  BY <1>1, <1>3, <1>4, FillsIn
<1>6. PICK mid \in Seq(InputsOf(N, V)) :
             /\ Updated(form.input_fields, mid, "Email", username)
             /\ Updated(mid, new.input_fields, "Passwd", "secret")
  BY <1>1, <1>2, <1>3, <1>4, FillsIn
<1>7. form.input_fields \in Seq(InputsOf(N, V)) /\ new.input_fields \in Seq(InputsOf(N, V))
  BY <1>5 DEF FormsOf
<1>8. Len(form.input_fields) \in Nat /\ Len(mid) \in Nat /\ Len(new.input_fields) \in Nat
  BY <1>7, LenProperties
<1>9. Fills(form.input_fields, mid, "Email", username)
  BY <1>6, <1>8, UpdatedFills
<1>10. Fills(mid, new.input_fields, "Passwd", "secret")
  BY <1>6, <1>8, UpdatedFills
<1> QED BY <1>5, <1>9, <1>10

\* Two inputs filled in one after the other.
LEMMA FillsTwo ==
  ASSUME NEW A, NEW old \in Seq(A), NEW mid \in Seq(A), NEW new \in Seq(A), NEW user,
         Fills(old, mid, "Email", user), Fills(mid, new, "Passwd", "secret"),
         NEW value, value = [n \in login_inputs |-> IF n = "Email" THEN user ELSE "secret"]
  PROVE  /\ \A n \in login_inputs : new[FirstNamed(new, n)].value = value[n]
         /\ \A i \in DOMAIN old :
              /\ new[i].name = old[i].name
              /\ new[i].value = IF \E n \in login_inputs : FirstNamed(old, n) = i
                                THEN value[old[i].name] ELSE old[i].value
         /\ \A i \in Len(old) + 1 .. Len(new) :
              FirstNamed(old, new[i].name) = 0 /\ new[i].name \in login_inputs
<1> PICK k \in Nat : k = Len(old)
  BY LenProperties
<1> PICK l \in Nat : l = Len(mid)
  BY LenProperties
<1> PICK m \in Nat : m = Len(new)
  BY LenProperties
<1>0. DOMAIN old = 1 .. k
  BY LenProperties
<1> PICK e : e = FirstNamed(old, "Email")
  OBVIOUS
<1> PICK p : p = FirstNamed(old, "Passwd")
  OBVIOUS
<1> PICK f : f = FirstNamed(mid, "Email")
  OBVIOUS
<1> PICK q : q = FirstNamed(new, "Passwd")
  OBVIOUS
<1>1. /\ k <= l
      /\ \A i \in 1 .. k : /\ mid[i].name = old[i].name
                           /\ mid[i].value = IF e = i THEN user ELSE old[i].value
      /\ \A i \in k + 1 .. l : mid[i].name = "Email" /\ e = 0
      /\ f \in 1 .. l /\ mid[f].value = user
      /\ FirstNamed(mid, "Passwd") = p
  BY DEF Fills
<1>2. /\ l <= m
      /\ \A i \in 1 .. l : /\ new[i].name = mid[i].name
                           /\ new[i].value = IF p = i THEN "secret" ELSE mid[i].value
      /\ \A i \in l + 1 .. m : new[i].name = "Passwd" /\ p = 0
      /\ new[q].value = "secret"
      /\ FirstNamed(new, "Email") = f
  BY <1>1 DEF Fills
<1>3. e = 0 \/ (e \in 1 .. k /\ old[e].name = "Email")
  BY FirstNamedIs
<1>4. p = 0 \/ (p \in 1 .. k /\ old[p].name = "Passwd")
  BY FirstNamedIs
<1>5. mid[f].name = "Email"
  BY <1>1, FirstNamedIs
<1>6. p # f
  <2>1. CASE p = 0
    BY <1>1, <2>1
  <2>2. CASE p \in 1 .. k /\ old[p].name = "Passwd"
    BY <1>1, <1>5, <2>2
  <2> QED BY <1>4, <2>1, <2>2
<1>7. value["Email"] = user /\ value["Passwd"] = "secret"
  BY DEF login_inputs
<1>8. \A n \in login_inputs : new[FirstNamed(new, n)].value = value[n]
  <2>1. new[f].value = user
    BY <1>1, <1>2, <1>6
  <2> QED BY <1>2, <1>7, <2>1 DEF login_inputs
<1>9. ASSUME NEW i \in 1 .. k
      PROVE  /\ new[i].name = old[i].name
             /\ new[i].value = IF \E n \in login_inputs : FirstNamed(old, n) = i
                               THEN value[old[i].name] ELSE old[i].value
  <2>1. i \in 1 .. l
    BY <1>1
  <2>2. (\E n \in login_inputs : FirstNamed(old, n) = i) <=> e = i \/ p = i
    BY DEF login_inputs
  <2>3. new[i].name = old[i].name
    BY <1>1, <1>2, <2>1
  <2>4. CASE p = i
    <3>1. old[i].name = "Passwd" /\ new[i].value = "secret"
      BY <1>2, <1>4, <2>1, <2>4
    <3> QED BY <1>7, <2>2, <2>3, <2>4, <3>1
  <2>5. CASE p # i /\ e = i
    <3>1. old[i].name = "Email" /\ new[i].value = user
      BY <1>1, <1>2, <1>3, <2>1, <2>5
    <3> QED BY <1>7, <2>2, <2>3, <2>5, <3>1
  <2>6. CASE p # i /\ e # i
    <3>1. new[i].value = old[i].value
      BY <1>1, <1>2, <2>1, <2>6
    <3> QED BY <2>2, <2>3, <2>6, <3>1
  <2> QED BY <2>4, <2>5, <2>6
<1>10. ASSUME NEW i \in k + 1 .. m
       PROVE  FirstNamed(old, new[i].name) = 0 /\ new[i].name \in login_inputs
  <2>1. CASE i \in k + 1 .. l
    <3>1. new[i].name = "Email" /\ e = 0
      <4>1. i \in 1 .. l
        BY <2>1
      <4> QED BY <1>1, <1>2, <2>1, <4>1
    <3> QED BY <3>1 DEF login_inputs
  <2>2. CASE i \in l + 1 .. m
    <3>1. new[i].name = "Passwd" /\ p = 0
      BY <1>2, <2>2
    <3> QED BY <3>1 DEF login_inputs
  <2>3. i \in k + 1 .. l \/ i \in l + 1 .. m
    BY <1>1, <1>2
  <2> QED BY <2>1, <2>2, <2>3
<1> QED BY ONLY <1>0, <1>8, <1>9, <1>10, k = Len(old), m = Len(new)

-----------------------------------------------------------------------------
(* The invariant: what each stage has made of the page. *)

FilledForm == modify_form(Found, Credentials(username))

PageInv ==
  /\ html \in Trees /\ username \in UserNames
  /\ stage \in {"tidy", "read", "find", "modify", "post", "end", "exit"}
  /\ stage \in {"find", "modify", "post", "end"} => forms = get_forms(html)
  /\ stage = "modify" => login_form = Found /\ Found # NULL
  /\ stage = "post" => login_form = FilledForm /\ Found # NULL
  /\ stage = "end" => \/ login_form = NULL /\ Found = NULL
                      \/ /\ login_form = FilledForm /\ Found # NULL
                         /\ form_post = post_form(login_form)

LEMMA PageInvInit == Init => PageInv
BY DEF Init, PageInv

LEMMA PageInvStep == PageInv /\ [Next]_vars => PageInv'
<1> SUFFICES ASSUME PageInv, [Next]_vars PROVE PageInv'
  OBVIOUS
<1>1. CASE Tidy
  BY <1>1 DEF PageInv, Tidy
<1>2. CASE ReadForms
  BY <1>2 DEF PageInv, ReadForms
<1>3. CASE Find
  <2>1. /\ stage = "find" /\ login_form' = Found
        /\ stage' = (IF login_form' = NULL THEN "end" ELSE "modify")
        /\ html' = html /\ username' = username /\ forms' = forms
    BY <1>3 DEF Find, Found
  <2>2. Found' = Found
    BY <2>1 DEF Found
  <2>3. forms = get_forms(html) /\ html \in Trees /\ username \in UserNames
    BY <2>1 DEF PageInv
  <2>4. CASE Found = NULL
    <3>1. stage' = "end" /\ login_form' = NULL
      BY <2>1, <2>4
    <3> QED BY <2>1, <2>2, <2>3, <2>4, <3>1 DEF PageInv
  <2>5. CASE Found # NULL
    <3>1. stage' = "modify"
      BY <2>1, <2>5
    <3> QED BY <2>1, <2>2, <2>3, <2>5, <3>1 DEF PageInv
  <2> QED BY <2>4, <2>5
<1>4. CASE Modify
  <2>1. stage = "modify" /\ login_form' = modify_form(login_form, Credentials(username))
        /\ stage' = "post" /\ html' = html /\ username' = username /\ forms' = forms
    BY <1>4 DEF Modify
  <2>2. Found' = Found
    BY <2>1 DEF Found
  <2>3. login_form' = FilledForm /\ FilledForm' = FilledForm
    BY <2>1, <2>2 DEF PageInv, FilledForm, Credentials
  <2> QED BY <2>1, <2>2, <2>3 DEF PageInv
<1>5. CASE Post
  <2>1. /\ stage = "post" /\ form_post' = post_form(login_form)
        /\ stage' = "end" /\ login_form' = login_form
        /\ html' = html /\ username' = username /\ forms' = forms
    BY <1>5 DEF Post
  <2>2. Found' = Found /\ FilledForm' = FilledForm
    BY <2>1 DEF Found, FilledForm, Credentials
  <2>3. form_post' = post_form(login_form')
    BY <2>1
  <2> QED BY <2>1, <2>2, <2>3 DEF PageInv
<1>6. CASE UNCHANGED vars
  <2>1. /\ html' = html /\ username' = username /\ forms' = forms
        /\ login_form' = login_form /\ form_post' = form_post /\ stage' = stage
    BY <1>6 DEF vars
  <2>2. Found' = Found /\ FilledForm' = FilledForm
    BY <2>1 DEF Found, FilledForm, Credentials
  <2> QED BY <2>1, <2>2 DEF PageInv
<1>7. End => UNCHANGED vars
  BY DEF End
<1> QED BY <1>1, <1>2, <1>3, <1>4, <1>5, <1>6, <1>7 DEF Next

LEMMA PageInvHolds == Spec => []PageInv
BY PageInvInit, PageInvStep, PTL DEF Spec

\* No form is NULL, found or filled in.
LEMMA FormsAreForms ==
  ASSUME PageInv, stage \in {"modify", "post", "end"}, NEW A, forms \in Seq(A),
         NEW i \in DOMAIN forms
  PROVE  forms[i] # NULL /\ modify_form(forms[i], Credentials(username)) # NULL
<1>1. html \in Trees /\ username \in UserNames /\ forms = get_forms(html)
  BY DEF PageInv
<1>2. forms[i] \in Range(get_forms(html))
  BY <1>1 DEF Range
<1> QED BY ONLY <1>1, <1>2, FormNullAssumption DEF FormNullAssumption

-----------------------------------------------------------------------------
(* The theorems. *)

\* get_forms finds the outermost forms of the page in document order.
THEOREM FormsOrdered == Spec => []FormsInDocumentOrder
<1>1. ASSUME PageInv PROVE FormsInDocumentOrder
  <2> SUFFICES ASSUME stage = "find"
               PROVE  /\ Len(forms) = Cardinality(OutermostForms)
                      /\ \A i \in OutermostForms :
                           SameElement(html[i], forms[Rank(OutermostForms, i)])
    BY DEF FormsInDocumentOrder, SameElement
  <2>1. PageRead
    BY <1>1 DEF PageInv, PageRead
  <2> QED BY <2>1, FormsRead
<1> QED BY <1>1, PageInvHolds, PTL

\* A form has the inputs inside it, in document order.
THEOREM InputsOrdered == Spec => []InputsOfForms
<1>1. ASSUME PageInv PROVE InputsOfForms
  <2> SUFFICES ASSUME stage = "find", NEW i \in OutermostForms,
                      NEW inputs, inputs = {j \in Inside(i) : IsInput(j)},
                      NEW fs, fs = forms[Rank(OutermostForms, i)].input_fields
               PROVE  /\ Len(fs) = Cardinality(inputs)
                      /\ \A j \in inputs : fs[Rank(inputs, j)] =
                                             [name |-> html[j].name, value |-> html[j].value]
    BY DEF InputsOfForms
  <2>1. PageRead
    BY <1>1 DEF PageInv, PageRead
  <2>2. Lists(fs, inputs, [j \in DOMAIN html |-> InputAt(html, j)])
    BY <2>1, FormsRead
  <2>3. \A j \in inputs : j \in DOMAIN html
    BY DEF Inside
  <2> QED BY <2>2, <2>3 DEF Lists, InputAt
<1> QED BY <1>1, PageInvHolds, PTL

\* The forms, as a sequence, wherever the page was read.
LEMMA FormsTyped ==
  ASSUME PageInv, stage \in {"modify", "post", "end"}
  PROVE  \E U, N, V : /\ login_inputs \subseteq N /\ {username, "secret"} \subseteq V
                      /\ forms \in Seq(FormsOf(U, N, V))
<1>1. PageRead
  BY DEF PageInv, PageRead
<1> QED BY <1>1, FormsRead

\* The form found, if there is one, is the first login form of the page.
THEOREM FindsFirst == Spec => []FirstLoginForm
<1>1. ASSUME PageInv PROVE FirstLoginForm
  <2>1. ASSUME stage = "end", login_form = NULL, NEW i \in DOMAIN forms
        PROVE  ~ IsLoginForm(forms[i])
    <3> PICK U, N, V : forms \in Seq(FormsOf(U, N, V))
      BY <1>1, <2>1, FormsTyped
    <3> PICK A : A = FormsOf(U, N, V)
      OBVIOUS
    <3>1. forms \in Seq(A)
      OBVIOUS
    <3>2. \A k \in DOMAIN forms :
            forms[k] # NULL /\ modify_form(forms[k], Credentials(username)) # NULL
      BY <1>1, <2>1, <3>1, FormsAreForms
    <3>3. ~ (FilledForm = NULL /\ Found # NULL)
      <4> SUFFICES ASSUME FilledForm = NULL, Found # NULL PROVE FALSE
        OBVIOUS
      <4>1. \E k \in DOMAIN forms : forms[k] = Found
        BY <3>1, FormFoundIs
      <4> QED BY <3>2, <4>1 DEF FilledForm
    <3>4. Found = NULL
      BY <1>1, <2>1, <3>3 DEF PageInv
    <3> QED BY <3>1, <3>2, <3>4, FormFoundIs
  <2>2. ASSUME stage = "modify"
        PROVE  \E i \in DOMAIN forms :
                 /\ forms[i] = login_form
                 /\ IsLoginForm(login_form)
                 /\ \A j \in 1 .. i - 1 : ~ IsLoginForm(forms[j])
    <3> PICK U, N, V : forms \in Seq(FormsOf(U, N, V))
      BY <1>1, <2>2, FormsTyped
    <3>1. login_form = Found /\ Found # NULL
      BY <1>1, <2>2 DEF PageInv
    <3>2. \E i \in DOMAIN forms :
            /\ forms[i] = Found
            /\ IsLoginForm(Found)
            /\ \A j \in 1 .. i - 1 : ~ IsLoginForm(forms[j])
      BY <3>1, FormFoundIs
    <3> QED BY <3>1, <3>2
  <2> QED BY <2>1, <2>2 DEF FirstLoginForm
<1> QED BY <1>1, PageInvHolds, PTL

\* The form that is filled in, as a form.
LEMMA FilledFormOf ==
  ASSUME PageInv, stage \in {"post", "end"}, Found # NULL
  PROVE  \E A : /\ Found.input_fields \in Seq(A) /\ FilledForm.input_fields \in Seq(A)
                /\ \E mid \in Seq(A) :
                     /\ Fills(Found.input_fields, mid, "Email", username)
                     /\ Fills(mid, FilledForm.input_fields, "Passwd", "secret")
<1> PICK U, N, V : /\ login_inputs \subseteq N /\ {username, "secret"} \subseteq V
                   /\ forms \in Seq(FormsOf(U, N, V))
  BY FormsTyped
<1>1. Found \in FormsOf(U, N, V)
  <2>1. \E i \in DOMAIN forms : forms[i] = Found
    BY FormFoundIs
  <2>2. \A i \in DOMAIN forms : forms[i] \in FormsOf(U, N, V)
    BY LenProperties, ElementOfSeq
  <2> QED BY <2>1, <2>2
<1>2. FilledForm = modify_form(Found, Credentials(username))
  BY DEF FilledForm
<1>3. /\ FilledForm \in FormsOf(U, N, V)
      /\ \E mid \in Seq(InputsOf(N, V)) :
           /\ Fills(Found.input_fields, mid, "Email", username)
           /\ Fills(mid, FilledForm.input_fields, "Passwd", "secret")
  BY <1>1, <1>2, CredentialsFilled
<1>4. Found.input_fields \in Seq(InputsOf(N, V)) /\ FilledForm.input_fields \in Seq(InputsOf(N, V))
  BY <1>1, <1>3 DEF FormsOf
<1> QED BY <1>3, <1>4

\* The credentials are in the first inputs of their names and nothing else has
\* changed.
THEOREM CredentialsInPlace == Spec => []FilledIn
<1>1. ASSUME PageInv PROVE FilledIn
  <2> SUFFICES ASSUME stage = "post",
                      NEW old, old = Found.input_fields,
                      NEW new, new = login_form.input_fields,
                      NEW value, value = [n \in login_inputs |->
                                            IF n = "Email" THEN username ELSE "secret"]
               PROVE  /\ \A n \in login_inputs : new[FirstNamed(new, n)].value = value[n]
                      /\ \A i \in DOMAIN old :
                           /\ new[i].name = old[i].name
                           /\ new[i].value = IF \E n \in login_inputs : FirstNamed(old, n) = i
                                             THEN value[old[i].name] ELSE old[i].value
                      /\ \A i \in Len(old) + 1 .. Len(new) :
                           FirstNamed(old, new[i].name) = 0 /\ new[i].name \in login_inputs
    BY DEF FilledIn, Found
  <2>1. login_form = FilledForm /\ Found # NULL
    BY <1>1 DEF PageInv
  <2> PICK A : /\ old \in Seq(A) /\ new \in Seq(A)
               /\ \E mid \in Seq(A) :
                    Fills(old, mid, "Email", username) /\ Fills(mid, new, "Passwd", "secret")
    BY <1>1, <2>1, FilledFormOf
  <2> PICK mid \in Seq(A) :
         Fills(old, mid, "Email", username) /\ Fills(mid, new, "Passwd", "secret")
    OBVIOUS
  <2>2. /\ old \in Seq(A) /\ mid \in Seq(A) /\ new \in Seq(A)
        /\ Fills(old, mid, "Email", username) /\ Fills(mid, new, "Passwd", "secret")
        /\ value = [n \in login_inputs |-> IF n = "Email" THEN username ELSE "secret"]
    OBVIOUS
  <2> QED BY ONLY <2>2, FillsTwo
<1> QED BY <1>1, PageInvHolds, PTL

\* What is posted are the form's own field and then the inputs of the filled
\* form that have a name and a value, in order.
THEOREM PostedAsFilled == Spec => []PostedInOrder
<1>1. ASSUME PageInv PROVE PostedInOrder
  <2> DEFINE all == login_form.input_fields
             kept == {i \in DOMAIN all : Complete(all[i])}
             own == IF Complete(login_form) THEN 1 ELSE 0
  <2> SUFFICES ASSUME stage = "end", login_form # NULL
               PROVE  /\ Len(form_post) = own + Cardinality(kept)
                      /\ own = 1 => form_post[1] = [name |-> login_form.name,
                                                    value |-> login_form.value]
                      /\ \A i \in kept : form_post[own + Rank(kept, i)] = all[i]
    BY DEF PostedInOrder
  <2>1. login_form = FilledForm /\ Found # NULL /\ form_post = post_form(login_form)
    BY <1>1 DEF PageInv
  <2> PICK A : all \in Seq(A)
    BY <1>1, <2>1, FilledFormOf
  <2>2. kept = Kept(all, Len(all))
    <3>1. DOMAIN all = 1 .. Len(all)
      BY LenProperties
    <3> QED BY <3>1 DEF Kept, formadd_accepts, Complete
  <2>3. own = OwnCount(login_form)
    BY DEF OwnCount, Complete
  <2> HIDE DEF all, kept, own
  <2>4. all = login_form.input_fields
    BY DEF all
  <2>5. Preceded(form_post, own, OwnRecord(login_form), all, kept)
    BY <2>1, <2>2, <2>3, <2>4, OwnThenKept
  <2> QED BY <2>5 DEF Preceded, OwnRecord
<1> QED BY <1>1, PageInvHolds, PTL
=============================================================================

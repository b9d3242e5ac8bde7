------------------------------ MODULE MacroProofs ------------------------------
(***************************************************************************)
(* What the macros do to a program, proved for arguments of any number and *)
(* order, for struct fields of any number and size, and for handler bodies *)
(* of any length.                                                          *)
(*                                                                         *)
(* The loops over the arguments and the sums over the fields are folds, so *)
(* the module begins with what a fold computes, which takes an induction.  *)
(***************************************************************************)
EXTENDS Wiring, MacroBodies, WellFoundedInduction, NaturalsInduction, SequenceTheorems, TLAPS

------------------------------------------------------------------------------
(* Induction over the numbers, as a statement about sets.                  *)
LEMMA SetInduction ==
    ASSUME NEW T, 0 \in T, \A n \in Nat : n \in T => n + 1 \in T
    PROVE  Nat \subseteq T
<1> DEFINE R == OpToRel(<, Nat)
<1>1. IsWellFoundedOn(R, Nat)
  BY NatLessThanWellFounded
<1>2. SUFFICES ASSUME Nat \ T # {} PROVE FALSE
  OBVIOUS
<1>3. PICK x \in Nat \ T : \A y \in Nat \ T : ~(<<y, x>> \in R)
  <2> HIDE DEF R
  <2> QED BY <1>1, <1>2, WFMin, Zenon
<1>4. x # 0 /\ x \in Nat /\ x - 1 \in Nat /\ x - 1 < x
  <2> HIDE DEF R
  <2> QED BY <1>3
<1>5. <<x - 1, x>> \in R
  BY <1>4 DEF OpToRel
<1>6. x - 1 \notin T
  <2>1. x - 1 \in T => x - 1 + 1 \in T
    BY <1>4
  <2>2. x - 1 + 1 = x
    BY <1>4
  <2> QED BY <1>3, <2>1, <2>2
<1> HIDE DEF R
<1> QED BY <1>3, <1>4, <1>5, <1>6

(* The greatest index of a set of indices that holds the last one.         *)
LEMMA MaxIsLast ==
    ASSUME NEW n \in Nat, NEW s \in SUBSET (1 .. n), n \in s
    PROVE  Max(s) = n
<1>1. \A x \in s : (\A y \in s : x >= y) <=> x = n
  OBVIOUS
<1> QED
  BY <1>1 DEF Max

(* The greatest index of a set is in it.                                   *)
LEMMA MaxIsIn ==
    ASSUME NEW n \in Nat, NEW s \in SUBSET (1 .. n), s # {}
    PROVE  Max(s) \in s
<1> DEFINE T == {k \in Nat : \A r \in SUBSET (1 .. k) : r # {} => Max(r) \in r}
<1>1. 0 \in T
  <2>1. \A r \in SUBSET (1 .. 0) : r = {}
    OBVIOUS
  <2> QED
    BY <2>1
<1>2. ASSUME NEW k \in Nat, k \in T PROVE k + 1 \in T
  <2> SUFFICES ASSUME NEW r \in SUBSET (1 .. k + 1), r # {} PROVE Max(r) \in r
    OBVIOUS
  <2>1. CASE k + 1 \in r
    BY <2>1, MaxIsLast
  <2>2. CASE k + 1 \notin r
    <3>1. \A j \in r : j \in 1 .. k
      BY <2>2
    <3> QED
      BY <1>2, <3>1
  <2> QED
    BY <2>1, <2>2
<1>3. Nat \subseteq T
  <2> HIDE DEF T
  <2> QED
    BY <1>1, <1>2, SetInduction
<1> QED
  BY <1>3

(* A fold, as FoldLeft defines it: the table of what folding over each set *)
(* of indices gives, for a step that is a function.                        *)
IsTable(f, step, start, list, R) ==
    /\ f \in [SUBSET DOMAIN list -> R]
    /\ \A s \in SUBSET DOMAIN list :
          f[s] = IF s = {} THEN start ELSE step[<<f[s \ {Max(s)}], list[Max(s)]>>]

IsStep(step, R, A) == step \in [R \X A -> R]

(* Such a table exists for any list.                                       *)
LEMMA TableExists ==
    ASSUME NEW R, NEW A, NEW step, IsStep(step, R, A), NEW start \in R, NEW list \in Seq(A)
    PROVE  \E f : IsTable(f, step, start, list, R)
<1>0. step \in [R \X A -> R]
  BY DEF IsStep
<1> DEFINE Entry(f, s) == IF s = {} THEN start ELSE step[<<f[s \ {Max(s)}], list[Max(s)]>>]
           Good(n, f) == /\ f \in [SUBSET (1 .. n) -> R]
                         /\ \A s \in SUBSET (1 .. n) : f[s] = Entry(f, s)
           T == {n \in Nat : n <= Len(list) => \E f : Good(n, f)}
<1>1. 0 \in T
  <2> DEFINE f == [s \in SUBSET (1 .. 0) |-> start]
  <2>1. \A s \in SUBSET (1 .. 0) : s = {}
    OBVIOUS
  <2>2. Good(0, f)
    BY <2>1
  <2> HIDE DEF f, Good
  <2> QED
    BY <2>2
<1>2. ASSUME NEW n \in Nat, n \in T PROVE n + 1 \in T
  <2> SUFFICES ASSUME n + 1 <= Len(list) PROVE \E g : Good(n + 1, g)
    <3> HIDE DEF Good
    <3> QED
      OBVIOUS
  <2>1. PICK f : Good(n, f)
    <3> HIDE DEF Good
    <3>1. n <= Len(list)
      OBVIOUS
    <3> QED
      BY <1>2, <3>1
  <2> DEFINE g == [s \in SUBSET (1 .. n + 1) |->
                     IF n + 1 \in s THEN step[<<f[s \ {n + 1}], list[n + 1]>>] ELSE f[s]]
  <2>2. list[n + 1] \in A
    OBVIOUS
  <2>3. ASSUME NEW s \in SUBSET (1 .. n + 1)
        PROVE  g[s] \in R /\ g[s] = Entry(g, s)
    <3>1. CASE n + 1 \in s
      <4>1. s \ {n + 1} \in SUBSET (1 .. n) /\ n + 1 \notin s \ {n + 1} /\ s # {}
        BY <3>1
      <4>2. Max(s) = n + 1
        BY <3>1, MaxIsLast
      <4>3. g[s \ {n + 1}] = f[s \ {n + 1}] /\ f[s \ {n + 1}] \in R
        BY <2>1, <4>1
      <4>4. <<f[s \ {n + 1}], list[n + 1]>> \in R \X A
        BY <2>2, <4>3
      <4> QED
        BY <1>0, <3>1, <4>1, <4>2, <4>3, <4>4
    <3>2. CASE n + 1 \notin s
      <4>0. \A k \in s : k \in 1 .. n
        BY <3>2
      <4>1. /\ s \in SUBSET (1 .. n) /\ s \ {Max(s)} \in SUBSET (1 .. n)
            /\ s \ {Max(s)} \in SUBSET (1 .. n + 1) /\ n + 1 \notin s \ {Max(s)}
        BY <3>2, <4>0
      <4>2. g[s] = f[s] /\ g[s \ {Max(s)}] = f[s \ {Max(s)}]
        BY <3>2, <4>1
      <4> QED
        BY <2>1, <4>1, <4>2
    <3> QED
      BY <3>1, <3>2
  <2>4. Good(n + 1, g)
    <3> HIDE DEF Entry
    <3> QED
      BY <2>3
  <2> HIDE DEF g, Good
  <2> QED
    BY <2>4
<1> HIDE DEF Good, Entry
<1>3. Nat \subseteq T
  <2> HIDE DEF T
  <2> QED
    BY <1>1, <1>2, SetInduction
<1>4. PICK f : Good(Len(list), f)
  BY <1>3
<1>5. DOMAIN list = 1 .. Len(list)
  OBVIOUS
<1> QED
  BY <1>4, <1>5 DEF IsTable, Good, Entry

(* What an entry is made of has the type of the entries.                   *)
LEMMA TableTyped ==
    ASSUME NEW R, NEW A, NEW list \in Seq(A), NEW f,
           f[{}] \in R,
           \A n \in 1 .. Len(list) : \A s \in SUBSET (1 .. n) :
               n \in s /\ f[s \ {n}] \in R => f[s] \in R
    PROVE  \A s \in SUBSET DOMAIN list : f[s] \in R
<1> DEFINE T == {n \in Nat : n <= Len(list) => \A s \in SUBSET (1 .. n) : f[s] \in R}
<1>1. 0 \in T
  <2>1. \A s \in SUBSET (1 .. 0) : s = {}
    OBVIOUS
  <2> QED
    BY <2>1
<1>2. ASSUME NEW n \in Nat, n \in T PROVE n + 1 \in T
  <2> SUFFICES ASSUME n + 1 <= Len(list), NEW s \in SUBSET (1 .. n + 1) PROVE f[s] \in R
    OBVIOUS
  <2>1. CASE n + 1 \in s
    <3>1. s \ {n + 1} \in SUBSET (1 .. n)
      OBVIOUS
    <3>2. f[s \ {n + 1}] \in R /\ n + 1 \in 1 .. Len(list)
      BY <1>2, <3>1
    <3> QED
      BY <2>1, <3>2
  <2>2. CASE n + 1 \notin s
    <3>1. s \in SUBSET (1 .. n)
      BY <2>2
    <3> QED
      BY <1>2, <3>1
  <2> QED
    BY <2>1, <2>2
<1>3. Nat \subseteq T
  <2> HIDE DEF T
  <2> QED
    BY <1>1, <1>2, SetInduction
<1>4. DOMAIN list = 1 .. Len(list) /\ Len(list) \in Nat
  OBVIOUS
<1> QED
  BY <1>3, <1>4

(* A fold takes one element after the other.                               *)
LEMMA TableAppend ==
    ASSUME NEW R, NEW A, NEW step, IsStep(step, R, A), NEW start \in R,
           NEW list \in Seq(A), NEW a \in A,
           NEW f, IsTable(f, step, start, list, R),
           NEW g, IsTable(g, step, start, Append(list, a), R)
    PROVE  g[DOMAIN Append(list, a)] = step[<<f[DOMAIN list], a>>]
<1> DEFINE m == Len(list)
           longer == Append(list, a)
<1>1. /\ m \in Nat /\ DOMAIN list = 1 .. m /\ DOMAIN longer = 1 .. m + 1
      /\ longer[m + 1] = a /\ \A n \in 1 .. m : longer[n] = list[n]
  OBVIOUS
<1> HIDE DEF m, longer
<1>2. ASSUME NEW n \in 1 .. m, NEW s \in SUBSET (1 .. n), n \in s
      PROVE  f[s] = step[<<f[s \ {n}], list[n]>>]
  <2>1. Max(s) = n /\ s # {} /\ s \in SUBSET DOMAIN list
    BY <1>1, <1>2, MaxIsLast
  <2> QED
    BY <2>1 DEF IsTable
<1>3. ASSUME NEW n \in 1 .. m + 1, NEW s \in SUBSET (1 .. n), n \in s
      PROVE  g[s] = step[<<g[s \ {n}], longer[n]>>]
  <2>1. Max(s) = n /\ s # {} /\ s \in SUBSET DOMAIN longer
    BY <1>1, <1>3, MaxIsLast
  <2> QED
    BY <2>1 DEF IsTable, longer
<1> DEFINE T == {n \in Nat : n <= m => \A s \in SUBSET (1 .. n) : f[s] = g[s]}
<1>4. 0 \in T
  <2>1. \A s \in SUBSET (1 .. 0) : s = {}
    OBVIOUS
  <2>2. f[{}] = start /\ g[{}] = start
    BY DEF IsTable
  <2> QED
    BY <2>1, <2>2
<1>5. ASSUME NEW n \in Nat, n \in T PROVE n + 1 \in T
  <2> SUFFICES ASSUME n + 1 <= m, NEW s \in SUBSET (1 .. n + 1) PROVE f[s] = g[s]
    OBVIOUS
  <2>1. CASE n + 1 \in s
    <3>1. s \ {n + 1} \in SUBSET (1 .. n)
      OBVIOUS
    <3>2. f[s \ {n + 1}] = g[s \ {n + 1}]
      BY <1>1, <1>5, <3>1
    <3>3. n + 1 \in 1 .. m /\ n + 1 \in 1 .. m + 1 /\ longer[n + 1] = list[n + 1]
      BY <1>1
    <3>4. f[s] = step[<<f[s \ {n + 1}], list[n + 1]>>]
      BY <1>2, <2>1, <3>3
    <3>5. g[s] = step[<<g[s \ {n + 1}], longer[n + 1]>>]
      BY <1>3, <2>1, <3>3
    <3> QED
      BY <3>2, <3>3, <3>4, <3>5
  <2>2. CASE n + 1 \notin s
    <3>1. s \in SUBSET (1 .. n)
      BY <2>2
    <3> QED
      BY <1>1, <1>5, <3>1
  <2> QED
    BY <2>1, <2>2
<1>6. Nat \subseteq T
  <2> HIDE DEF T
  <2> QED
    BY <1>4, <1>5, SetInduction
<1>7. f[1 .. m] = g[1 .. m]
  <2>1. m \in T
    <3> HIDE DEF T
    <3> QED
      BY <1>1, <1>6
  <2>2. m <= m /\ 1 .. m \in SUBSET (1 .. m)
    BY <1>1
  <2> QED
    BY <2>1, <2>2
<1>8. 1 .. m + 1 \in SUBSET (1 .. m + 1) /\ m + 1 \in 1 .. m + 1 /\ (1 .. m + 1) \ {m + 1} = 1 .. m
  <2>1. \A k : k \in 1 .. m + 1 /\ k # m + 1 <=> k \in 1 .. m
    BY <1>1
  <2> QED
    BY <1>1, <2>1
<1>9. g[1 .. m + 1] = step[<<g[1 .. m], a>>]
  <2> DEFINE all == 1 .. m + 1
  <2>1. all \in SUBSET (1 .. m + 1) /\ m + 1 \in all /\ all \ {m + 1} = 1 .. m
    BY <1>8
  <2> HIDE DEF all
  <2>2. g[all] = step[<<g[all \ {m + 1}], longer[m + 1]>>]
    BY <1>3, <1>8, <2>1
  <2> QED
    BY <1>1, <2>1, <2>2 DEF all
<1> QED
  BY <1>1, <1>7, <1>9 DEF longer

------------------------------------------------------------------------------
(* What the two loops read.                                                *)

Kinds == {"name", "literal", "huge literal", "path", "other", "none"}
Idents == Names \cup {"", "admin_config", "config", "caller", "owner"}
Values == [kind : Kinds, name : Idents, number : Nat]
Written == [key : Keys, value : Values]
Errors == {"Ok", "NotAnIdentifier", "Panic", "NotAParameter", "UnknownKey", "NotAUsize",
           "NotALiteral", "NoOffset"}
Reads == [err : Errors, config : Idents, caller : Idents, offset : Values]

GateStep(read, arg) == IF read.err = "Ok" THEN ReadGateArg(read, arg) ELSE read
InitializeStep(read, arg) == IF read.err = "Ok" THEN ReadInitializeArg(read, arg) ELSE read

(* An argument, read by either loop, leaves a read of the same type.        *)
LEMMA StepsTyped ==
    ASSUME NEW read \in Reads, NEW arg \in Written
    PROVE  GateStep(read, arg) \in Reads /\ InitializeStep(read, arg) \in Reads
<1>1. \A err \in Errors : Refuse(read, err) \in Reads
  BY DEF Refuse, Reads
<1>2. SetName(read, arg) \in Reads
  BY DEF SetName, Reads, Written, Values
<1>3. [read EXCEPT !.offset = arg.value] \in Reads
  BY DEF Reads, Written
<1>4. {"NotAnIdentifier", "Panic", "NotAParameter", "UnknownKey", "NotAUsize", "NotALiteral"}
        \subseteq Errors
  BY DEF Errors
<1>5. arg.key \in Keys
  BY DEF Written
<1>6. GateStep(read, arg) \in Reads
  <2>1. CASE arg.key = "offset"
    BY <1>1, <1>3, <1>4, <2>1 DEF GateStep, ReadGateArg
  <2>2. CASE arg.key # "offset"
    BY <1>1, <1>2, <1>4, <2>2 DEF GateStep, ReadGateArg
  <2> QED
    BY <2>1, <2>2
<1>7. InitializeStep(read, arg) \in Reads
  BY <1>1, <1>2, <1>3, <1>4, <1>5 DEF InitializeStep, ReadInitializeArg, Keys
<1> QED
  BY <1>6, <1>7

(* The loop of #[require_admin] as a step, and its fold as a table.        *)
GateLoop == [x \in Reads \X Written |-> GateStep(x[1], x[2])]

(* That fold is a table for the step.                                      *)
LEMMA GateTable ==
    ASSUME NEW start \in Reads, NEW list \in Seq(Written)
    PROVE  \E f : /\ IsTable(f, GateLoop, start, list, Reads)
                  /\ ReadAll(ReadGateArg, start, list) = f[DOMAIN list]
<1> DEFINE Solves(f) == f = [s \in SUBSET DOMAIN list |->
               IF s = {} THEN start
               ELSE LET x == Max(s)
                    IN  IF f[s \ {x}].err = "Ok" THEN ReadGateArg(f[s \ {x}], list[x])
                        ELSE f[s \ {x}]]
           fold == CHOOSE f : Solves(f)
<1>1. ReadAll(ReadGateArg, start, list) = fold[DOMAIN list]
  BY Zenon DEF ReadAll, FoldLeft, MapThenFoldSet
<1>2. IsStep(GateLoop, Reads, Written)
  BY StepsTyped DEF IsStep, GateLoop
<1>3. DOMAIN list = 1 .. Len(list) /\ Len(list) \in Nat
  OBVIOUS
<1>4. ASSUME NEW s \in SUBSET DOMAIN list, s # {}
      PROVE  list[Max(s)] \in Written
  <2>1. Max(s) \in s
    BY <1>3, <1>4, MaxIsIn
  <2>2. Max(s) \in 1 .. Len(list)
    BY <1>3, <2>1
  <2> QED
    BY <2>2
<1>5. \A read \in Reads, arg \in Written : GateLoop[<<read, arg>>] = GateStep(read, arg)
  BY DEF GateLoop
<1>6. ASSUME NEW f, NEW s \in SUBSET DOMAIN list, s # {}, f[s \ {Max(s)}] \in Reads
      PROVE  (IF f[s \ {Max(s)}].err = "Ok" THEN ReadGateArg(f[s \ {Max(s)}], list[Max(s)])
              ELSE f[s \ {Max(s)}])
               = GateLoop[<<f[s \ {Max(s)}], list[Max(s)]>>]
  BY <1>4, <1>5, <1>6 DEF GateStep
<1>7. \E f : Solves(f)
  <2>1. PICK f : IsTable(f, GateLoop, start, list, Reads)
    BY <1>2, TableExists
  <2>2. f \in [SUBSET DOMAIN list -> Reads]
    BY <2>1 DEF IsTable
  <2>3. \A s \in SUBSET DOMAIN list : s \ {Max(s)} \in SUBSET DOMAIN list
    OBVIOUS
  <2>4. Solves(f)
    BY <1>6, <2>1, <2>2, <2>3 DEF IsTable
  <2> HIDE DEF Solves
  <2> QED
    BY <2>4
<1> HIDE DEF Solves
<1>8. Solves(fold)
  BY <1>7, Zenon
<1> HIDE DEF fold
<1>9. \A s \in SUBSET DOMAIN list : fold[s] \in Reads
  <2>1. fold[{}] = start
    BY <1>8 DEF Solves
  <2>2. ASSUME NEW n \in 1 .. Len(list), NEW s \in SUBSET (1 .. n), n \in s,
               fold[s \ {n}] \in Reads
        PROVE  fold[s] \in Reads
    <3>1. Max(s) = n /\ s # {} /\ s \in SUBSET DOMAIN list
      BY <1>3, <2>2, MaxIsLast
    <3>2. fold[s] = GateStep(fold[s \ {n}], list[n])
      BY <1>8, <3>1 DEF Solves, GateStep
    <3> QED
      BY <2>2, <3>2, StepsTyped
  <2> QED
    BY <2>1, <2>2, TableTyped
<1>10. IsTable(fold, GateLoop, start, list, Reads)
  <2>1. fold \in [SUBSET DOMAIN list -> Reads]
    BY <1>8, <1>9 DEF Solves
  <2>2. \A s \in SUBSET DOMAIN list : s \ {Max(s)} \in SUBSET DOMAIN list
    OBVIOUS
  <2> QED
    BY <1>6, <1>8, <1>9, <2>1, <2>2 DEF Solves, IsTable
<1> QED
  BY <1>1, <1>10

(* The gate's loop reads each argument once, in order, and stops at the    *)
(* first error.                                                            *)
LEMMA GateReadsOnce ==
    ASSUME NEW start \in Reads, NEW list \in Seq(Written), NEW arg \in Written
    PROVE  /\ ReadAll(ReadGateArg, start, <<>>) = start
           /\ ReadAll(ReadGateArg, start, list) \in Reads
           /\ ReadAll(ReadGateArg, start, Append(list, arg))
                = GateStep(ReadAll(ReadGateArg, start, list), arg)
<1>1. IsStep(GateLoop, Reads, Written)
  BY StepsTyped DEF IsStep, GateLoop
<1>2. PICK e : /\ IsTable(e, GateLoop, start, <<>>, Reads)
               /\ ReadAll(ReadGateArg, start, <<>>) = e[DOMAIN <<>>]
  <2>1. <<>> \in Seq(Written)
    OBVIOUS
  <2> QED
    BY <2>1, GateTable
<1>3. PICK f : /\ IsTable(f, GateLoop, start, list, Reads)
               /\ ReadAll(ReadGateArg, start, list) = f[DOMAIN list]
  BY GateTable
<1>4. PICK g : /\ IsTable(g, GateLoop, start, Append(list, arg), Reads)
               /\ ReadAll(ReadGateArg, start, Append(list, arg)) = g[DOMAIN Append(list, arg)]
  <2>1. Append(list, arg) \in Seq(Written)
    OBVIOUS
  <2> QED
    BY <2>1, GateTable
<1>5. ReadAll(ReadGateArg, start, <<>>) = start
  <2>1. DOMAIN <<>> = {}
    OBVIOUS
  <2> QED
    BY <1>2, <2>1 DEF IsTable
<1>6. f[DOMAIN list] \in Reads
  BY <1>3 DEF IsTable
<1>7. g[DOMAIN Append(list, arg)] = GateLoop[<<f[DOMAIN list], arg>>]
  BY <1>1, <1>3, <1>4, TableAppend
<1>8. GateLoop[<<f[DOMAIN list], arg>>] = GateStep(f[DOMAIN list], arg)
  BY <1>6 DEF GateLoop
<1> QED
  BY <1>3, <1>4, <1>5, <1>6, <1>7, <1>8

(* The loop of #[admin_initialize], in the same way.                       *)
InitializeLoop == [x \in Reads \X Written |-> InitializeStep(x[1], x[2])]

(* Its fold is a table for the step.                                       *)
LEMMA InitializeTable ==
    ASSUME NEW start \in Reads, NEW list \in Seq(Written)
    PROVE  \E f : /\ IsTable(f, InitializeLoop, start, list, Reads)
                  /\ ReadAll(ReadInitializeArg, start, list) = f[DOMAIN list]
<1> DEFINE Solves(f) == f = [s \in SUBSET DOMAIN list |->
               IF s = {} THEN start
               ELSE LET x == Max(s)
                    IN  IF f[s \ {x}].err = "Ok" THEN ReadInitializeArg(f[s \ {x}], list[x])
                        ELSE f[s \ {x}]]
           fold == CHOOSE f : Solves(f)
<1>1. ReadAll(ReadInitializeArg, start, list) = fold[DOMAIN list]
  BY Zenon DEF ReadAll, FoldLeft, MapThenFoldSet
<1>2. IsStep(InitializeLoop, Reads, Written)
  BY StepsTyped DEF IsStep, InitializeLoop
<1>3. DOMAIN list = 1 .. Len(list) /\ Len(list) \in Nat
  OBVIOUS
<1>4. ASSUME NEW s \in SUBSET DOMAIN list, s # {}
      PROVE  list[Max(s)] \in Written
  <2>1. Max(s) \in s
    BY <1>3, <1>4, MaxIsIn
  <2>2. Max(s) \in 1 .. Len(list)
    BY <1>3, <2>1
  <2> QED
    BY <2>2
<1>5. \A read \in Reads, arg \in Written : InitializeLoop[<<read, arg>>] = InitializeStep(read, arg)
  BY DEF InitializeLoop
<1>6. ASSUME NEW f, NEW s \in SUBSET DOMAIN list, s # {}, f[s \ {Max(s)}] \in Reads
      PROVE  (IF f[s \ {Max(s)}].err = "Ok" THEN ReadInitializeArg(f[s \ {Max(s)}], list[Max(s)])
              ELSE f[s \ {Max(s)}])
               = InitializeLoop[<<f[s \ {Max(s)}], list[Max(s)]>>]
  BY <1>4, <1>5, <1>6 DEF InitializeStep
<1>7. \E f : Solves(f)
  <2>1. PICK f : IsTable(f, InitializeLoop, start, list, Reads)
    BY <1>2, TableExists
  <2>2. f \in [SUBSET DOMAIN list -> Reads]
    BY <2>1 DEF IsTable
  <2>3. \A s \in SUBSET DOMAIN list : s \ {Max(s)} \in SUBSET DOMAIN list
    OBVIOUS
  <2>4. Solves(f)
    BY <1>6, <2>1, <2>2, <2>3 DEF IsTable
  <2> HIDE DEF Solves
  <2> QED
    BY <2>4
<1> HIDE DEF Solves
<1>8. Solves(fold)
  BY <1>7, Zenon
<1> HIDE DEF fold
<1>9. \A s \in SUBSET DOMAIN list : fold[s] \in Reads
  <2>1. fold[{}] = start
    BY <1>8 DEF Solves
  <2>2. ASSUME NEW n \in 1 .. Len(list), NEW s \in SUBSET (1 .. n), n \in s,
               fold[s \ {n}] \in Reads
        PROVE  fold[s] \in Reads
    <3>1. Max(s) = n /\ s # {} /\ s \in SUBSET DOMAIN list
      BY <1>3, <2>2, MaxIsLast
    <3>2. fold[s] = InitializeStep(fold[s \ {n}], list[n])
      BY <1>8, <3>1 DEF Solves, InitializeStep
    <3> QED
      BY <2>2, <3>2, StepsTyped
  <2> QED
    BY <2>1, <2>2, TableTyped
<1>10. IsTable(fold, InitializeLoop, start, list, Reads)
  <2>1. fold \in [SUBSET DOMAIN list -> Reads]
    BY <1>8, <1>9 DEF Solves
  <2>2. \A s \in SUBSET DOMAIN list : s \ {Max(s)} \in SUBSET DOMAIN list
    OBVIOUS
  <2> QED
    BY <1>6, <1>8, <1>9, <2>1, <2>2 DEF Solves, IsTable
<1> QED
  BY <1>1, <1>10

(* So does the initializer's.                                              *)
LEMMA InitializeReadsOnce ==
    ASSUME NEW start \in Reads, NEW list \in Seq(Written), NEW arg \in Written
    PROVE  /\ ReadAll(ReadInitializeArg, start, <<>>) = start
           /\ ReadAll(ReadInitializeArg, start, list) \in Reads
           /\ ReadAll(ReadInitializeArg, start, Append(list, arg))
                = InitializeStep(ReadAll(ReadInitializeArg, start, list), arg)
<1>1. IsStep(InitializeLoop, Reads, Written)
  BY StepsTyped DEF IsStep, InitializeLoop
<1>2. PICK e : /\ IsTable(e, InitializeLoop, start, <<>>, Reads)
               /\ ReadAll(ReadInitializeArg, start, <<>>) = e[DOMAIN <<>>]
  <2>1. <<>> \in Seq(Written)
    OBVIOUS
  <2> QED
    BY <2>1, InitializeTable
<1>3. PICK f : /\ IsTable(f, InitializeLoop, start, list, Reads)
               /\ ReadAll(ReadInitializeArg, start, list) = f[DOMAIN list]
  BY InitializeTable
<1>4. PICK g : /\ IsTable(g, InitializeLoop, start, Append(list, arg), Reads)
               /\ ReadAll(ReadInitializeArg, start, Append(list, arg)) = g[DOMAIN Append(list, arg)]
  <2>1. Append(list, arg) \in Seq(Written)
    OBVIOUS
  <2> QED
    BY <2>1, InitializeTable
<1>5. ReadAll(ReadInitializeArg, start, <<>>) = start
  <2>1. DOMAIN <<>> = {}
    OBVIOUS
  <2> QED
    BY <1>2, <2>1 DEF IsTable
<1>6. f[DOMAIN list] \in Reads
  BY <1>3 DEF IsTable
<1>7. g[DOMAIN Append(list, arg)] = InitializeLoop[<<f[DOMAIN list], arg>>]
  BY <1>1, <1>3, <1>4, TableAppend
<1>8. InitializeLoop[<<f[DOMAIN list], arg>>] = InitializeStep(f[DOMAIN list], arg)
  BY <1>6 DEF InitializeLoop
<1> QED
  BY <1>3, <1>4, <1>5, <1>6, <1>7, <1>8

------------------------------------------------------------------------------
(* The sum of the sizes before the slot.                                   *)

Sizes == [claimed : Nat, actual : Nat]
Totals == Nat

(* An empty sum is a total.                                                *)
LEMMA ZeroTotal == 0 \in Totals
BY DEF Totals

ActualSum == [x \in Totals \X Sizes |-> x[1] + x[2].actual]

(* The sum of the sizes as a table.                                        *)
LEMMA ActualTable ==
    ASSUME NEW list \in Seq(Sizes)
    PROVE  \E f : /\ IsTable(f, ActualSum, 0, list, Totals)
                  /\ SlotStart(list) = f[DOMAIN list]
<1> DEFINE Solves(f) == f = [s \in SUBSET DOMAIN list |->
               IF s = {} THEN 0 ELSE LET x == Max(s) IN f[s \ {x}] + list[x].actual]
           fold == CHOOSE f : Solves(f)
<1>1. SlotStart(list) = fold[DOMAIN list]
  BY Zenon DEF SlotStart, FoldLeft, MapThenFoldSet
<1>2. IsStep(ActualSum, Totals, Sizes)
  BY DEF IsStep, ActualSum, Sizes, Totals
<1>3. DOMAIN list = 1 .. Len(list) /\ Len(list) \in Nat
  OBVIOUS
<1>4. ASSUME NEW s \in SUBSET DOMAIN list, s # {}
      PROVE  list[Max(s)] \in Sizes
  <2>1. Max(s) \in s
    BY <1>3, <1>4, MaxIsIn
  <2>2. Max(s) \in 1 .. Len(list)
    BY <1>3, <2>1
  <2> QED
    BY <2>2
<1>5. \A sum \in Totals, f \in Sizes : ActualSum[<<sum, f>>] = sum + f.actual
  BY DEF ActualSum
<1>6. ASSUME NEW f, NEW s \in SUBSET DOMAIN list, s # {}, f[s \ {Max(s)}] \in Totals
      PROVE  f[s \ {Max(s)}] + list[Max(s)].actual = ActualSum[<<f[s \ {Max(s)}], list[Max(s)]>>]
  BY <1>4, <1>5, <1>6
<1>7. \E f : Solves(f)
  <2>1. PICK f : IsTable(f, ActualSum, 0, list, Totals)
    BY <1>2, ZeroTotal, TableExists
  <2>2. f \in [SUBSET DOMAIN list -> Totals]
    BY <2>1 DEF IsTable
  <2>3. \A s \in SUBSET DOMAIN list : s \ {Max(s)} \in SUBSET DOMAIN list
    OBVIOUS
  <2>4. Solves(f)
    BY <1>6, <2>1, <2>2, <2>3 DEF IsTable
  <2> HIDE DEF Solves
  <2> QED
    BY <2>4
<1> HIDE DEF Solves
<1>8. Solves(fold)
  BY <1>7, Zenon
<1> HIDE DEF fold
<1>9. \A s \in SUBSET DOMAIN list : fold[s] \in Totals
  <2>1. fold[{}] = 0
    BY <1>8 DEF Solves
  <2>2. ASSUME NEW n \in 1 .. Len(list), NEW s \in SUBSET (1 .. n), n \in s,
               fold[s \ {n}] \in Totals
        PROVE  fold[s] \in Totals
    <3>1. Max(s) = n /\ s # {} /\ s \in SUBSET DOMAIN list
      BY <1>3, <2>2, MaxIsLast
    <3>2. fold[s] = fold[s \ {n}] + list[n].actual
      BY <1>8, <3>1 DEF Solves
    <3>3. list[n] \in Sizes
      OBVIOUS
    <3> QED
      BY <2>2, <3>2, <3>3 DEF Sizes, Totals
  <2> QED
    BY <2>1, <2>2, ZeroTotal, TableTyped
<1>10. IsTable(fold, ActualSum, 0, list, Totals)
  <2>1. fold \in [SUBSET DOMAIN list -> Totals]
    BY <1>8, <1>9 DEF Solves
  <2>2. \A s \in SUBSET DOMAIN list : s \ {Max(s)} \in SUBSET DOMAIN list
    OBVIOUS
  <2> QED
    BY <1>6, <1>8, <1>9, <2>1, <2>2 DEF Solves, IsTable
<1> QED
  BY <1>1, <1>10

(* Where the slot starts is a number of bytes, none without fields.         *)
LEMMA SlotStartTyped ==
    ASSUME NEW list \in Seq(Sizes)
    PROVE  SlotStart(list) \in Nat /\ SlotStart(<<>>) = 0
<1>1. PICK d : IsTable(d, ActualSum, 0, <<>>, Totals) /\ SlotStart(<<>>) = d[DOMAIN <<>>]
  <2>1. <<>> \in Seq(Sizes)
    OBVIOUS
  <2> QED
    BY <2>1, ActualTable
<1>2. PICK g : IsTable(g, ActualSum, 0, list, Totals) /\ SlotStart(list) = g[DOMAIN list]
  BY ActualTable
<1>3. SlotStart(<<>>) = 0
  <2>1. DOMAIN <<>> = {}
    OBVIOUS
  <2> QED
    BY <1>1, <2>1 DEF IsTable
<1> QED
  BY <1>2, <1>3 DEF IsTable, Totals

GateStart == Read("Ok", "admin_config", "caller", Literal(0))
InitializeStart == Read("Ok", "admin_config", "caller", NoOffset)
GateRead(list) == ReadAll(ReadGateArg, GateStart, list)
InitializeRead(list) == ReadAll(ReadInitializeArg, InitializeStart, list)

SaysOffset(list) == \E n \in DOMAIN list : list[n].key = "offset"

(* What the two loops have in common after any prefix of the arguments.    *)
ReadsAgree(gate, init, says) ==
    gate.err = "Ok" =>
        /\ init.err = "Ok"
        /\ init.config = gate.config
        /\ init.caller = gate.caller
        /\ says => init.offset = gate.offset /\ gate.offset.kind = "literal"
        /\ ~says => init.offset = NoOffset /\ gate.offset = Literal(0)

(* Both loops start from their defaults.                                   *)
LEMMA StartsTyped ==
    GateStart \in Reads /\ InitializeStart \in Reads
BY DEF GateStart, InitializeStart, Reads, Read, Errors, Idents, Values, Kinds, Literal, NoOffset

(* There is an argument to write.                                          *)
LEMMA SomethingWritten == \E arg : arg \in Written
<1>1. [key |-> "offset", value |-> NoOffset] \in Written
  BY DEF Written, Keys, Values, NoOffset, Kinds, Idents
<1> QED
  BY <1>1

(* One more argument is one more step of both loops.                       *)
LEMMA ReadsOnce ==
    ASSUME NEW list \in Seq(Written), NEW arg \in Written
    PROVE  /\ GateRead(<<>>) = GateStart
           /\ InitializeRead(<<>>) = InitializeStart
           /\ GateRead(list) \in Reads
           /\ InitializeRead(list) \in Reads
           /\ GateRead(Append(list, arg)) = GateStep(GateRead(list), arg)
           /\ InitializeRead(Append(list, arg)) = InitializeStep(InitializeRead(list), arg)
<1>1. GateStart \in Reads /\ InitializeStart \in Reads
  BY StartsTyped
<1>2. /\ GateRead(<<>>) = GateStart
      /\ GateRead(list) \in Reads
      /\ GateRead(Append(list, arg)) = GateStep(GateRead(list), arg)
  BY <1>1, GateReadsOnce, Zenon DEF GateRead
<1>3. /\ InitializeRead(<<>>) = InitializeStart
      /\ InitializeRead(list) \in Reads
      /\ InitializeRead(Append(list, arg)) = InitializeStep(InitializeRead(list), arg)
  BY <1>1, InitializeReadsOnce, Zenon DEF InitializeRead
<1> QED
  BY <1>2, <1>3

(* What the loops read of any list.                                        *)
LEMMA ReadsTyped ==
    ASSUME NEW list \in Seq(Written)
    PROVE  GateRead(list) \in Reads /\ InitializeRead(list) \in Reads
BY StartsTyped, GateReadsOnce, InitializeReadsOnce, SomethingWritten DEF GateRead, InitializeRead

(* A list says where the slot is when one of its arguments does.           *)
LEMMA SaysOffsetAppend ==
    ASSUME NEW list \in Seq(Written), NEW arg \in Written
    PROVE  /\ ~SaysOffset(<<>>)
           /\ SaysOffset(Append(list, arg)) <=> SaysOffset(list) \/ arg.key = "offset"
<1> DEFINE longer == Append(list, arg)
           m == Len(list)
<1>1. /\ m \in Nat /\ DOMAIN list = 1 .. m /\ DOMAIN longer = 1 .. m + 1
      /\ longer[m + 1] = arg /\ \A n \in 1 .. m : longer[n] = list[n]
  OBVIOUS
<1> HIDE DEF longer, m
<1>2. \A n : n \in 1 .. m + 1 <=> n \in 1 .. m \/ n = m + 1
  BY <1>1
<1>3. SaysOffset(longer) <=> SaysOffset(list) \/ arg.key = "offset"
  BY <1>1, <1>2 DEF SaysOffset
<1>4. ~SaysOffset(<<>>)
  BY DEF SaysOffset
<1> QED
  BY <1>3, <1>4 DEF longer

(* One argument that the gate takes moves both reads alike.                *)
LEMMA StepsAgree ==
    ASSUME NEW gate \in Reads, NEW init \in Reads, NEW says \in BOOLEAN, NEW arg \in Written,
           ReadsAgree(gate, init, says)
    PROVE  ReadsAgree(GateStep(gate, arg), InitializeStep(init, arg), says \/ arg.key = "offset")
<1>1. \A read \in Reads : \A err \in Errors : Refuse(read, err).err = err
  BY DEF Refuse, Reads
<1>2. CASE gate.err # "Ok"
  BY <1>2 DEF GateStep, ReadsAgree
<1>3. CASE gate.err = "Ok" /\ arg.key = "offset"
  <2>1. CASE arg.value.kind = "literal"
    <3>1. GateStep(gate, arg) = [gate EXCEPT !.offset = arg.value]
      BY <1>3, <2>1 DEF GateStep, ReadGateArg
    <3>2. InitializeStep(init, arg) = [init EXCEPT !.offset = arg.value]
      BY <1>3 DEF InitializeStep, ReadInitializeArg, ReadsAgree
    <3> QED
      BY <1>3, <2>1, <3>1, <3>2 DEF ReadsAgree, Reads
  <2>2. CASE arg.value.kind # "literal"
    <3>1. GateStep(gate, arg).err \in {"NotAUsize", "NotALiteral"}
      BY <1>1, <1>3, <2>2 DEF GateStep, ReadGateArg, Errors
    <3> QED
      BY <3>1 DEF ReadsAgree
  <2> QED
    BY <2>1, <2>2
<1>4. CASE gate.err = "Ok" /\ arg.key # "offset"
  <2>1. CASE arg.value.kind = "name" /\ arg.key \in {"admin_config", "caller"}
    <3>1. GateStep(gate, arg) = SetName(gate, arg)
      BY <1>4, <2>1 DEF GateStep, ReadGateArg
    <3>2. InitializeStep(init, arg) = SetName(init, arg)
      BY <1>4, <2>1 DEF InitializeStep, ReadInitializeArg, ReadsAgree
    <3> QED
      BY <1>4, <2>1, <3>1, <3>2 DEF ReadsAgree, Reads, SetName
  <2>2. CASE ~(arg.value.kind = "name" /\ arg.key \in {"admin_config", "caller"})
    <3>1. GateStep(gate, arg).err \in {"NotAParameter", "UnknownKey"}
      <4>1. GateStep(gate, arg)
              = IF arg.value.kind # "name" THEN Refuse(gate, "NotAParameter")
                ELSE Refuse(gate, "UnknownKey")
        BY <1>4, <2>2 DEF GateStep, ReadGateArg
      <4> QED
        BY <1>1, <4>1 DEF Errors
    <3> QED
      BY <3>1 DEF ReadsAgree
  <2> QED
    BY <2>1, <2>2
<1> QED
  BY <1>2, <1>3, <1>4

Agree(list) == ReadsAgree(GateRead(list), InitializeRead(list), SaysOffset(list))

(* For every list of arguments, whatever its length, order and repeats:    *)
(* what the gate takes the initializer takes, and they read the same       *)
(* account, the same caller and, when it is said, the same offset.  By     *)
(* induction over the length, with the common part of the two reads as the *)
(* induction hypothesis.                                                   *)
THEOREM AttributesAgree ==
    ASSUME NEW list \in Seq(Written)
    PROVE  Agree(list)
<1> DEFINE T == {n \in Nat : \A l \in Seq(Written) : Len(l) = n => Agree(l)}
<1>1. 0 \in T
  <2>1. \A l \in Seq(Written) : Len(l) = 0 => l = <<>>
    OBVIOUS
  <2>2. Agree(<<>>)
    <3>1. PICK arg : arg \in Written
      BY SomethingWritten
    <3>2. /\ GateRead(<<>>) = GateStart
          /\ InitializeRead(<<>>) = InitializeStart
          /\ ~SaysOffset(<<>>)
      <4>1. <<>> \in Seq(Written)
        OBVIOUS
      <4> QED
        BY <3>1, <4>1, ReadsOnce, SaysOffsetAppend
    <3> QED
      BY <3>2 DEF Agree, ReadsAgree, GateStart, InitializeStart, Read
  <2> QED
    BY <2>1, <2>2
<1>2. ASSUME NEW n \in Nat, n \in T PROVE n + 1 \in T
  <2> SUFFICES ASSUME NEW l \in Seq(Written), Len(l) = n + 1 PROVE Agree(l)
    OBVIOUS
  <2> DEFINE front == SubSeq(l, 1, n)
             last == l[n + 1]
  <2>1. front \in Seq(Written) /\ Len(front) = n /\ last \in Written /\ l = Append(front, last)
    OBVIOUS
  <2>2. Agree(front)
    BY <1>2, <2>1
  <2> HIDE DEF front, last
  <2>3. /\ GateRead(front) \in Reads /\ InitializeRead(front) \in Reads
        /\ SaysOffset(front) \in BOOLEAN
    BY <2>1, ReadsOnce DEF SaysOffset
  <2>4. ReadsAgree(GateStep(GateRead(front), last), InitializeStep(InitializeRead(front), last),
                   SaysOffset(front) \/ last.key = "offset")
    BY <2>1, <2>2, <2>3, StepsAgree, Zenon DEF Agree
  <2>5. SaysOffset(l) = (SaysOffset(front) \/ last.key = "offset")
    <3>1. SaysOffset(Append(front, last)) <=> SaysOffset(front) \/ last.key = "offset"
      BY <2>1, SaysOffsetAppend
    <3>2. SaysOffset(Append(front, last)) \in BOOLEAN
      BY DEF SaysOffset
    <3> QED
      BY <2>1, <3>1, <3>2
  <2>6. /\ GateRead(l) = GateStep(GateRead(front), last)
        /\ InitializeRead(l) = InitializeStep(InitializeRead(front), last)
    BY <2>1, ReadsOnce
  <2> QED
    BY <2>4, <2>5, <2>6 DEF Agree
<1>3. Nat \subseteq T
  <2> HIDE DEF T
  <2> QED
    BY <1>1, <1>2, SetInduction
<1>4. Len(list) \in T
  BY <1>3
<1> QED
  BY <1>4

(* The arguments of the runs are arguments of the lemmas.                  *)
LEMMA ArgumentsWritten == Arguments \subseteq Written
<1>1. ArgValues \subseteq Values
  <2>1. \A n \in Names : Name(n) \in Values
    BY DEF Name, Values, Kinds, Idents
  <2>2. \A n \in Numbers : Literal(n) \in Values
    BY ArgumentsAssumption DEF Literal, Values, Kinds, Idents
  <2>3. Huge \in Values /\ Path \in Values /\ Other \in Values
    BY DEF Huge, Path, Other, Values, Kinds, Idents
  <2> QED
    BY <2>1, <2>2, <2>3 DEF ArgValues
<1> QED
  BY <1>1 DEF Arguments, Written

(* The agreement of the reads is the property of the expansions.           *)
LEMMA AgreeMeansTheProperty ==
    ASSUME args \in Seq(Written)
    PROVE  GateReadsWhatInitializeWrites
<1> DEFINE gate == GateRead(args)
           init == InitializeRead(args)
<1>1. RequireAdmin(args) = gate
  BY Zenon DEF RequireAdmin, GateRead, GateStart
<1>2. AdminInitialize(args)
        = IF init.err = "Ok" /\ init.offset = NoOffset THEN Refuse(init, "NoOffset") ELSE init
  BY Zenon DEF AdminInitialize, InitializeRead, InitializeStart
<1>3. ReadsAgree(gate, init, SaysOffset(args))
  BY AttributesAgree DEF Agree
<1>4. gate \in Reads /\ init \in Reads
  BY ReadsTyped
<1> HIDE DEF gate, init
<1>5. ASSUME gate.err = "Ok", SaysOffset(args)
      PROVE  init = gate /\ init.offset # NoOffset
  <2>1. /\ init.err = gate.err /\ init.config = gate.config /\ init.caller = gate.caller
        /\ init.offset = gate.offset /\ gate.offset.kind = "literal"
    BY <1>3, <1>5 DEF ReadsAgree
  <2>2. init = gate
    BY <1>4, <2>1 DEF Reads
  <2>3. NoOffset.kind = "none"
    BY DEF NoOffset
  <2> QED
    BY <2>1, <2>2, <2>3
<1> QED
  BY <1>1, <1>2, <1>5 DEF GateReadsWhatInitializeWrites, SaysOffset

(* A layout that passes both checks has its slot at the marker's offset:   *)
(* the first and the last byte of the admin's half of the probe are where  *)
(* they should be, so the slot starts neither later nor earlier.           *)
LEMMA LayoutForcesTheSlot ==
    ASSUME NEW fields \in Seq(Sizes), LayoutHolds(fields)
    PROVE  SlotStart(fields) = MarkerOffset /\ AdminSlotOffset(fields) = MarkerOffset
<1> DEFINE start == SlotStart(fields)
<1>1. start \in Nat
  BY SlotStartTyped
<1>2. AdminSlotOffset(fields) = 32
  BY DEF LayoutHolds, MarkerOffset
<1>3. DOMAIN Probe = 0 .. 63
  BY DEF Probe, SlotSize
<1>4. \A b \in 0 .. 63 : (b < 32 => Probe[b] = 165) /\ (Probe[b] = 165 => b < 32)
  BY DEF Probe, SlotSize
<1>5. ASSUME NEW c \in 32 .. 95 PROVE Serialized(fields, c) = Probe[c - 32]
  <2>1. c - 32 \in 0 .. 63 /\ 32 + (c - 32) = c
    OBVIOUS
  <2>2. Serialized(fields, 32 + (c - 32)) = Probe[c - 32]
    BY <1>2, <1>3, <2>1 DEF LayoutHolds
  <2> QED
    BY <2>1, <2>2
<1>6. ASSUME NEW c \in Int, Serialized(fields, c) = 165
      PROVE  c - start \in 0 .. 63 /\ Probe[c - start] = 165
  BY <1>3, <1>6 DEF Serialized
<1> HIDE DEF start
<1>7. ASSUME NEW c \in 32 .. 63 PROVE c - start \in 0 .. 31
  <2>1. PICK b \in 0 .. 31 : b = c - 32
    OBVIOUS
  <2>2. b \in 0 .. 63 /\ b < 32 /\ c \in 32 .. 95 /\ c \in Int
    OBVIOUS
  <2>3. Probe[b] = 165
    BY <1>4, <2>2
  <2>4. Serialized(fields, c) = 165
    BY <1>5, <2>1, <2>2, <2>3
  <2>5. PICK d \in Int : d = c - start
    BY <1>1
  <2>6. d \in 0 .. 63 /\ Probe[d] = 165
    BY <1>6, <2>2, <2>4, <2>5
  <2>7. d < 32
    BY <1>4, <2>6
  <2>8. d \in 0 .. 31
    BY <2>6, <2>7
  <2> QED
    BY <2>5, <2>8
<1>8. 32 - start \in 0 .. 31 /\ 63 - start \in 0 .. 31
  BY <1>7
<1>9. start = 32
  BY <1>1, <1>8
<1> QED
  BY <1>2, <1>9 DEF start, MarkerOffset

(* The const assert on the claimed sizes and the serialization test accept *)
(* exactly the structs whose slot is where the marker says, by both        *)
(* counts, whatever fields come before it: no wrong layout builds, and no  *)
(* right one is refused.                                                   *)
THEOREM LayoutPinsTheSlot ==
    ASSUME NEW fields \in Seq(Sizes)
    PROVE  LayoutHolds(fields)
             <=> SlotStart(fields) = MarkerOffset /\ AdminSlotOffset(fields) = MarkerOffset
<1>1. LayoutHolds(fields)
        => SlotStart(fields) = MarkerOffset /\ AdminSlotOffset(fields) = MarkerOffset
  BY LayoutForcesTheSlot
<1>2. ASSUME SlotStart(fields) = MarkerOffset, AdminSlotOffset(fields) = MarkerOffset
      PROVE  LayoutHolds(fields)
  <2>1. ASSUME NEW b \in DOMAIN Probe
        PROVE  Serialized(fields, 32 + b) = Probe[b]
    <3>0. b \in Int /\ SlotStart(fields) = 32
      BY <1>2 DEF Probe, SlotSize, MarkerOffset
    <3>1. PICK c \in Int : c = 32 + b
      BY <3>0
    <3>2. PICK d \in Int : d = c - 32
      OBVIOUS
    <3>3. d = b
      BY <3>0, <3>1, <3>2
    <3>4. Serialized(fields, c) = IF d \in DOMAIN Probe THEN Probe[d] ELSE 0
      BY <3>0, <3>2 DEF Serialized
    <3> QED
      BY <3>1, <3>3, <3>4
  <2> QED
    BY <1>2, <2>1 DEF LayoutHolds, MarkerOffset
<1> QED
  BY <1>1, <1>2

------------------------------------------------------------------------------
(* Stamping and injection.                                                 *)

StampedArguments ==
    << [key |-> "admin_config", value |-> Name("config")],
       [key |-> "offset", value |-> Literal(32)] >>

(* Stamping writes the location behind what the consumer wrote.            *)
LEMMA StampAppends ==
    ASSUME NEW written \in Seq(Written)
    PROVE  /\ StampedArguments[1] \in Written /\ StampedArguments[2] \in Written
           /\ Stamp("embedded", written)
                = Append(Append(written, StampedArguments[1]), StampedArguments[2])
           /\ Append(written, StampedArguments[1]) \in Seq(Written)
           /\ Stamp("embedded", written) \in Seq(Written)
<1> DEFINE a == [key |-> "admin_config", value |-> Name("config")]
           b == [key |-> "offset", value |-> Literal(32)]
<1>1. a \in Written /\ b \in Written
  BY DEF Written, Keys, Values, Kinds, Idents, Name, Literal
<1>2. Stamp("embedded", written) = written \o <<a, b>>
  BY DEF Stamp, RoleName, MarkerOffset
<1>3. StampedArguments[1] = a /\ StampedArguments[2] = b
  BY DEF StampedArguments
<1> HIDE DEF a, b
<1>4. written \o <<a, b>> = Append(Append(written, a), b)
  <2>1. /\ written \o <<a, b>> \in Seq(Written)
        /\ Append(Append(written, a), b) \in Seq(Written)
    BY <1>1
  <2>2. /\ Len(written \o <<a, b>>) = Len(written) + 2
        /\ Len(Append(Append(written, a), b)) = Len(written) + 2
    BY <1>1
  <2>3. \A n \in 1 .. Len(written) + 2 :
            (written \o <<a, b>>)[n] = Append(Append(written, a), b)[n]
    BY <1>1
  <2> QED
    BY <2>1, <2>2, <2>3
<1>5. Append(written, a) \in Seq(Written)
  BY <1>1
<1>6. Append(Append(written, a), b) \in Seq(Written)
  BY <1>1, <1>5
<1> QED
  BY <1>1, <1>2, <1>3, <1>4, <1>5, <1>6

(* A gate with the stamp reads the marker's location, whatever came before *)
(* it, unless that was an error.                                           *)
LEMMA GateStamped ==
    ASSUME NEW written \in Seq(Written)
    PROVE  LET own == GateRead(written)
               read == GateRead(Stamp("embedded", written))
           IN  read = IF own.err = "Ok"
                      THEN [own EXCEPT !.config = "config", !.offset = Literal(32)]
                      ELSE own
<1> DEFINE own == GateRead(written)
           a == StampedArguments[1]
           b == StampedArguments[2]
           middle == GateRead(Append(written, a))
           read == GateRead(Stamp("embedded", written))
<1>1. a \in Written /\ b \in Written
  BY StampAppends
<1>2. own \in Reads /\ middle = GateStep(own, a)
  BY <1>1, ReadsOnce
<1>3. read = GateStep(middle, b)
  BY <1>1, StampAppends, ReadsOnce
<1>4. a = [key |-> "admin_config", value |-> Name("config")]
  BY DEF StampedArguments
<1>5. b = [key |-> "offset", value |-> Literal(32)]
  BY DEF StampedArguments
<1> HIDE DEF own, a, b, middle, read
<1>6. middle = IF own.err = "Ok" THEN [own EXCEPT !.config = "config"] ELSE own
  BY <1>2, <1>4 DEF GateStep, ReadGateArg, SetName, Name
<1>7. middle.err = own.err
  BY <1>2, <1>6 DEF Reads
<1>8. read = IF middle.err = "Ok" THEN [middle EXCEPT !.offset = Literal(32)] ELSE middle
  BY <1>3, <1>5 DEF GateStep, ReadGateArg, Literal
<1> QED
  BY <1>2, <1>6, <1>7, <1>8 DEF Reads, own, read

(* So does an initializer.                                                 *)
LEMMA InitializeStamped ==
    ASSUME NEW written \in Seq(Written)
    PROVE  LET own == InitializeRead(written)
               read == InitializeRead(Stamp("embedded", written))
           IN  read = IF own.err = "Ok"
                      THEN [own EXCEPT !.config = "config", !.offset = Literal(32)]
                      ELSE own
<1> DEFINE own == InitializeRead(written)
           a == StampedArguments[1]
           b == StampedArguments[2]
           middle == InitializeRead(Append(written, a))
           read == InitializeRead(Stamp("embedded", written))
<1>1. a \in Written /\ b \in Written
  BY StampAppends
<1>2. own \in Reads /\ middle = InitializeStep(own, a)
  BY <1>1, ReadsOnce
<1>3. read = InitializeStep(middle, b)
  BY <1>1, StampAppends, ReadsOnce
<1>4. a = [key |-> "admin_config", value |-> Name("config")]
  BY DEF StampedArguments
<1>5. b = [key |-> "offset", value |-> Literal(32)]
  BY DEF StampedArguments
<1> HIDE DEF own, a, b, middle, read
<1>6. middle = IF own.err = "Ok" THEN [own EXCEPT !.config = "config"] ELSE own
  BY <1>2, <1>4 DEF InitializeStep, ReadInitializeArg, SetName, Name
<1>7. middle.err = own.err
  BY <1>2, <1>6 DEF Reads
<1>8. read = IF middle.err = "Ok" THEN [middle EXCEPT !.offset = Literal(32)] ELSE middle
  BY <1>3, <1>5 DEF InitializeStep, ReadInitializeArg
<1> QED
  BY <1>2, <1>6, <1>7, <1>8 DEF Reads, own, read

(* The attributes are the loops from their defaults.                       *)
LEMMA AttributesRead ==
    ASSUME NEW list \in Seq(Written)
    PROVE  /\ RequireAdmin(list) = GateRead(list)
           /\ AdminInitialize(list)
                = IF InitializeRead(list).err = "Ok" /\ InitializeRead(list).offset = NoOffset
                  THEN Refuse(InitializeRead(list), "NoOffset") ELSE InitializeRead(list)
BY Zenon DEF RequireAdmin, GateRead, GateStart, AdminInitialize, InitializeRead, InitializeStart

(* What the framework injects.                                             *)
LEMMA RoleParametersAre ==
    ASSUME NEW marker
    PROVE  /\ DOMAIN RoleParameters(marker) = {RoleName(marker), "caller"}
           /\ RoleParameters(marker)[RoleName(marker)] = RolePda(marker)
           /\ RoleParameters(marker)["caller"] = "Signer"
<1>1. RoleName(marker) # "caller"
  BY DEF RoleName
<1> HIDE DEF RoleName
<1> QED
  BY <1>1 DEF RoleParameters, AddMissing, Parameter

------------------------------------------------------------------------------
(* The wired program.  It never changes, so its types are the invariant,   *)
(* and each property follows from them and the folds.                      *)
WiringTypes ==
    /\ args \in Seq(Arguments)
    /\ program \in UNION {Programs(m) : m \in Markers}

(* The program is one of the programs, whatever is written over the gate.  *)
LEMMA WiringTypesHold == WiringSpec => []WiringTypes
<1>1. WiringInit => WiringTypes
  BY DEF WiringInit, Init, WiringTypes
<1>2. WiringTypes /\ [WiringNext]_wiringVars => WiringTypes'
  BY DEF WiringTypes, WiringNext, Next, Write, wiringVars
<1> QED
  BY <1>1, <1>2, PTL DEF WiringSpec

(* Its marker tells which.                                                 *)
LEMMA ProgramIs ==
    ASSUME WiringTypes
    PROVE  /\ program.marker \in Markers
           /\ program \in Programs(program.marker)
<1>1. PICK m \in Markers : program \in Programs(m)
  BY DEF WiringTypes
<1>2. program.marker = m
  BY <1>1 DEF Programs
<1> QED
  BY <1>1, <1>2

(* Only an embedding struct has fields before the slot.                    *)
LEMMA FieldsAre ==
    ASSUME WiringTypes
    PROVE  /\ program.fields \in Seq(Sizes)
           /\ program.marker # "embedded" => program.fields = <<>>
<1>1. program.fields \in (IF program.marker = "embedded" THEN Layouts ELSE {<<>>})
  BY ProgramIs DEF Programs
<1>2. \A a, b, c, d \in Nat : <<Field(a, b), Field(c, d)>> \in Seq(Sizes)
  <2>1. \A a, b \in Nat : Field(a, b) \in Sizes
    BY DEF Field, Sizes
  <2> QED
    BY <2>1
<1>3. \A layout \in Layouts : layout \in Seq(Sizes)
  BY <1>2 DEF Layouts
<1>4. <<>> \in Seq(Sizes)
  OBVIOUS
<1>5. CASE program.marker = "embedded"
  <2>1. program.fields \in Layouts
    BY <1>1, <1>5
  <2> QED
    BY <1>3, <1>5, <2>1
<1>6. CASE program.marker # "embedded"
  <2>1. program.fields = <<>>
    BY <1>1, <1>6
  <2> QED
    BY <1>4, <1>6, <2>1
<1> QED
  BY <1>5, <1>6

(* What a declaration can say of the account.                              *)
LEMMA DeclaredIs ==
    ASSUME WiringTypes
    PROVE  /\ DOMAIN program.declared \subseteq {"admin_config", "config", "caller", "owner"}
           /\ \A n \in DOMAIN program.declared :
                 /\ n \in {"caller", "owner"} => program.declared[n] = "Signer"
                 /\ n = "admin_config" => program.declared[n] = "AdminPda"
                 /\ n = "config" => program.declared[n] \in {RolePda(program.marker), "Unpinned"}
<1>1. PICK c \in DeclaredConfigs(program.marker), s \in DeclaredCallers :
        program.declared = AddMissing(c, s)
  BY ProgramIs DEF Programs
<1>2. /\ DOMAIN c \subseteq {"admin_config", "config"}
      /\ \A n \in DOMAIN c :
            /\ n = "admin_config" => c[n] = "AdminPda"
            /\ n = "config" => c[n] \in {RolePda(program.marker), "Unpinned"}
  <2> HIDE DEF RolePda
  <2> QED
    BY DEF DeclaredConfigs, Undeclared, Parameter
<1>3. DOMAIN s \subseteq {"caller", "owner"} /\ \A n \in DOMAIN s : s[n] = "Signer"
  BY DEF DeclaredCallers, Undeclared, Parameter
<1>4. \A n \in DOMAIN program.declared :
        \/ n \in DOMAIN c /\ program.declared[n] = c[n]
        \/ n \in DOMAIN s /\ n \notin DOMAIN c /\ program.declared[n] = s[n]
  <2>1. ASSUME NEW n \in DOMAIN AddMissing(c, s)
        PROVE  \/ n \in DOMAIN c /\ AddMissing(c, s)[n] = c[n]
               \/ n \in DOMAIN s /\ n \notin DOMAIN c /\ AddMissing(c, s)[n] = s[n]
    BY DEF AddMissing
  <2> QED
    BY <1>1, <2>1
<1> QED
  BY <1>2, <1>3, <1>4

(* With nothing written the injected parameters are all there.             *)
LEMMA GatesExpand ==
    ASSUME WiringTypes, Discovered(program.marker)
    PROVE  Gate(program, <<>>).err = "Ok"
<1> DEFINE marker == program.marker
           read == RequireAdmin(Stamp(marker, <<>>))
           params == Inject(marker, program.declared, <<>>)
<1>1. <<>> \in Seq(Written)
  OBVIOUS
<1>2. GateRead(<<>>) = GateStart
  BY <1>1, StampAppends, ReadsOnce
<1>3. read.err = "Ok" /\ read.config = RoleName(marker) /\ read.caller = "caller"
  <2>1. CASE marker = "embedded"
    <3>1. read = [GateStart EXCEPT !.config = "config", !.offset = Literal(32)]
      <4>1. GateRead(Stamp("embedded", <<>>))
              = [GateStart EXCEPT !.config = "config", !.offset = Literal(32)]
        <5>1. GateStart.err = "Ok"
          BY DEF GateStart, Read
        <5>2. GateRead(Stamp("embedded", <<>>))
                = IF GateRead(<<>>).err = "Ok"
                  THEN [GateRead(<<>>) EXCEPT !.config = "config", !.offset = Literal(32)]
                  ELSE GateRead(<<>>)
          BY <1>1, GateStamped
        <5> QED
          BY <1>2, <5>1, <5>2
      <4>2. Stamp("embedded", <<>>) \in Seq(Written)
        BY <1>1, StampAppends
      <4> QED
        BY <2>1, <4>1, <4>2, AttributesRead
    <3> HIDE DEF read
    <3> QED
      BY <2>1, <3>1 DEF GateStart, Read, RoleName
  <2>2. CASE marker # "embedded"
    <3>1. Stamp(marker, <<>>) = <<>>
      BY <2>2 DEF Stamp
    <3>2. read = GateStart
      BY <1>1, <1>2, <3>1, AttributesRead
    <3> HIDE DEF read
    <3> QED
      BY <2>2, <3>2 DEF GateStart, Read, RoleName
  <2> QED
    BY <2>1, <2>2
<1>4. params = AddMissing(program.declared, RoleParameters(marker))
  BY DEF Inject
<1>5. {RoleName(marker), "caller"} \subseteq DOMAIN params
  <2>1. DOMAIN RoleParameters(marker) = {RoleName(marker), "caller"}
    BY RoleParametersAre
  <2> QED
    BY <1>4, <2>1 DEF AddMissing
<1>6. ~WritesLocation(<<>>)
  BY DEF WritesLocation
<1> HIDE DEF read, params
<1>7. Gate(program, <<>>) = Expanded("Ok", read, params)
  BY <1>6 DEF Gate, read, params
<1> QED
  BY <1>3, <1>5, <1>7 DEF Expanded

(* A bare #[require_admin] under a marker expands, whatever the            *)
(* instruction declares itself.                                            *)
THEOREM BareGatesExpand == WiringSpec => []BareGateExpands
<1>1. WiringTypes => BareGateExpands
  BY GatesExpand DEF BareGateExpands
<1> QED
  BY <1>1, WiringTypesHold, PTL

(* In embedded mode the stamp fixes the account and the offset and the     *)
(* layout checks tie the offset to the struct; otherwise the account is    *)
(* the Config PDA, whose slot starts at its first byte.                    *)
LEMMA GateLooksAtTheSlot ==
    ASSUME WiringTypes
    PROVE  GateReadsTheSlot
<1> DEFINE marker == program.marker
           read == RequireAdmin(Stamp(marker, args))
           params == Inject(marker, program.declared, args)
           gate == Gate(program, args)
           start == SlotStart(program.fields)
<1> SUFFICES ASSUME Builds(program, args), gate.account \in {"AdminPda", "ProgPda"}
             PROVE  /\ gate.account = RolePda(marker)
                    /\ gate.offset = start \/ gate.offset + SlotSize > start + SlotSize
  BY DEF GateReadsTheSlot
<1>0. marker \in Markers
  BY ProgramIs
<1>1. args \in Seq(Written)
  BY ArgumentsWritten DEF WiringTypes
<1>2. start \in Nat
  BY FieldsAre, SlotStartTyped
<1>3. gate.err = "Ok" /\ RestBuilds(program)
  BY DEF Builds
<1>4. /\ marker = "embedded" => ~WritesLocation(args)
      /\ read.err = "Ok" /\ {read.config, read.caller} \subseteq DOMAIN params
      /\ gate.account = params[read.config] /\ gate.offset = read.offset.number
  <2> HIDE DEF read, params, marker
  <2>1. gate = Expanded(IF marker = "embedded" /\ WritesLocation(args)
                        THEN "LocationKwarg" ELSE "Ok", read, params)
    BY DEF Gate, read, params, marker
  <2> HIDE DEF gate
  <2> QED
    BY <1>3, <2>1 DEF Expanded
<1>5. params \in {program.declared, AddMissing(program.declared, RoleParameters(marker))}
  BY DEF Inject
<1>6. \A n \in DOMAIN params :
        /\ params[n] \in {"AdminPda", "ProgPda"} =>
              n \in {"admin_config", "config", RoleName(marker)}
        /\ n = "config" => params[n] \in {RolePda(marker), "Unpinned"}
        /\ params[n] \in {"AdminPda", "ProgPda"} /\ marker # "embedded" =>
              params[n] = RolePda(marker)
  <2>1. \A n \in DOMAIN params :
          \/ n \in DOMAIN program.declared /\ params[n] = program.declared[n]
          \/ n = RoleName(marker) /\ params[n] = RolePda(marker)
          \/ n = "caller" /\ params[n] = "Signer"
    <3> HIDE DEF params, marker
    <3>1. CASE params = program.declared
      BY <3>1
    <3>2. CASE params = AddMissing(program.declared, RoleParameters(marker))
      <4>1. /\ DOMAIN RoleParameters(marker) = {RoleName(marker), "caller"}
            /\ RoleParameters(marker)[RoleName(marker)] = RolePda(marker)
            /\ RoleParameters(marker)["caller"] = "Signer"
        BY RoleParametersAre
      <4> QED
        BY <3>2, <4>1 DEF AddMissing
    <3> QED
      BY <1>5, <3>1, <3>2 DEF marker
  <2>2. /\ RolePda(marker) \in {"AdminPda", "ProgPda"}
        /\ marker # "embedded" => RolePda(marker) = "AdminPda"
    BY DEF RolePda
  <2>3. ASSUME NEW n \in DOMAIN program.declared
        PROVE  /\ n \in {"caller", "owner", "admin_config", "config"}
               /\ n \in {"caller", "owner"} => program.declared[n] = "Signer"
               /\ n = "admin_config" => program.declared[n] = "AdminPda"
               /\ n = "config" => program.declared[n] \in {RolePda(marker), "Unpinned"}
    BY DeclaredIs
  <2> HIDE DEF params, marker
  <2> QED
    BY <2>1, <2>2, <2>3
<1>7. CASE marker = "embedded"
  <2>1. read = [GateRead(args) EXCEPT !.config = "config", !.offset = Literal(32)]
    <3>1. read = GateRead(Stamp("embedded", args))
      BY <1>1, <1>7, StampAppends, AttributesRead
    <3> QED
      BY <1>1, <1>4, <3>1, GateStamped
  <2>2. read.config = "config" /\ read.offset.number = 32
    <3>1. GateRead(args) \in Reads
      BY <1>1, ReadsTyped
    <3> HIDE DEF read
    <3> QED
      BY <2>1, <3>1 DEF Reads, Literal
  <2>3. start = 32
    <3>1. LayoutHolds(program.fields)
      BY <1>3, <1>7 DEF RestBuilds
    <3> QED
      BY <3>1, FieldsAre, LayoutPinsTheSlot DEF MarkerOffset
  <2> HIDE DEF read, params, gate, start, marker
  <2> QED
    BY <1>4, <1>6, <2>2, <2>3
<1>8. CASE marker # "embedded"
  <2>1. start = 0
    BY <1>8, FieldsAre, SlotStartTyped
  <2>2. read = GateRead(args) /\ read \in Reads
    <3>1. Stamp(marker, args) = args
      BY <1>8 DEF Stamp
    <3> QED
      BY <1>1, <3>1, AttributesRead, ReadsTyped
  <2>3. gate.offset \in Nat
    BY <1>4, <2>2 DEF Reads, Values
  <2>4. gate.account = RolePda(marker)
    <3> HIDE DEF read, params, gate, marker
    <3> QED
      BY <1>4, <1>6, <1>8
  <2> HIDE DEF gate, start
  <2> QED
    BY <2>1, <2>3, <2>4 DEF SlotSize
<1> QED
  BY <1>7, <1>8

(* A gate that builds reads the slot the rest of the program writes, or a  *)
(* window outside the account, which no caller passes.                     *)
THEOREM GatesReadTheSlot == WiringSpec => []GateReadsTheSlot
<1> QED
  BY GateLooksAtTheSlot, WiringTypesHold, PTL

(* An initializer's own arguments say nothing of an offset.                *)
LEMMA OwnArgumentsRead ==
    ASSUME NEW written \in CallerArguments
    PROVE  /\ written \in Seq(Written)
           /\ InitializeRead(written).err = "Ok"
           /\ InitializeRead(written).offset = NoOffset
<1> DEFINE arg == [key |-> "caller", value |-> Name("owner")]
<1>1. arg \in Written /\ <<>> \in Seq(Written)
  BY DEF Written, Keys, Values, Kinds, Idents, Name
<1>2. InitializeRead(<<>>) = InitializeStart
  BY <1>1, ReadsOnce
<1>3. InitializeRead(Append(<<>>, arg)) = InitializeStep(InitializeStart, arg)
  BY <1>1, <1>2, ReadsOnce
<1>4. InitializeStep(InitializeStart, arg) = SetName(InitializeStart, arg)
  BY DEF InitializeStep, InitializeStart, Read, ReadInitializeArg, Name
<1>5. CASE written = <<>>
  BY <1>1, <1>2, <1>5 DEF InitializeStart, Read
<1>6. CASE written = <<arg>>
  <2>1. written = Append(<<>>, arg) /\ written \in Seq(Written)
    BY <1>1, <1>6
  <2>2. InitializeRead(written) = SetName(InitializeStart, arg)
    BY <1>3, <1>4, <2>1
  <2> QED
    BY <2>1, <2>2 DEF SetName, InitializeStart, Read
<1> QED
  BY <1>5, <1>6 DEF CallerArguments

(* Outside embedded mode nothing says where the slot is, so the attribute  *)
(* does not expand; in embedded mode the stamp says it.                    *)
LEMMA BootstrapGoesToTheSlot ==
    ASSUME WiringTypes
    PROVE  BootstrapWritesTheSlot
<1> DEFINE marker == program.marker
           written == program.initializer
           read == AdminInitialize(Stamp(marker, written))
           own == AddMissing(Parameter("config", RolePda(marker)), Parameter("owner", "Signer"))
           params == Inject(marker, own, written)
           bootstrap == Initializer(program)
<1> SUFFICES ASSUME program.marked, RestBuilds(program)
             PROVE  /\ marker = "embedded" /\ program.creates
                    /\ bootstrap.account = RolePda(marker)
                    /\ bootstrap.offset = SlotStart(program.fields)
  BY DEF BootstrapWritesTheSlot
<1>1. written \in CallerArguments
  BY ProgramIs DEF Programs
<1>2. /\ written \in Seq(Written)
      /\ InitializeRead(written).err = "Ok" /\ InitializeRead(written).offset = NoOffset
  BY <1>1, OwnArgumentsRead
<1>3. InitializeRead(written) \in Reads
  BY <1>2, ReadsTyped
<1>4. bootstrap.err = "Ok"
  BY DEF RestBuilds
<1>5. /\ marker = "embedded" => program.creates
      /\ read.err = "Ok"
      /\ bootstrap.account = params[read.config] /\ bootstrap.offset = read.offset.number
  <2> HIDE DEF read, params, marker
  <2>1. bootstrap = Expanded(IF marker = "embedded" /\ ~program.creates
                             THEN "NotCreating" ELSE "Ok", read, params)
    BY DEF Initializer, read, params, marker
  <2> HIDE DEF bootstrap
  <2> QED
    BY <1>4, <2>1 DEF Expanded
<1>6. marker = "embedded"
  <2> SUFFICES ASSUME marker # "embedded" PROVE FALSE
    OBVIOUS
  <2>1. Stamp(marker, written) = written
    BY DEF Stamp
  <2>2. read = Refuse(InitializeRead(written), "NoOffset")
    BY <1>2, <2>1, AttributesRead
  <2>3. read.err = "NoOffset"
    BY <1>3, <2>2 DEF Refuse, Reads
  <2> QED
    BY <1>5, <2>3
<1>7. read.config = "config" /\ read.offset.number = 32
  <2> DEFINE stamped == InitializeRead(Stamp("embedded", written))
  <2>1. stamped = [InitializeRead(written) EXCEPT !.config = "config", !.offset = Literal(32)]
    BY <1>2, InitializeStamped
  <2>2. /\ stamped.err = "Ok" /\ stamped.config = "config"
        /\ stamped.offset = Literal(32)
    <3> HIDE DEF stamped
    <3> QED
      BY <1>2, <1>3, <2>1 DEF Reads
  <2>3. read = stamped
    <3>1. Stamp(marker, written) \in Seq(Written)
      BY <1>2, <1>6, StampAppends
    <3>2. Literal(32) # NoOffset
      BY DEF Literal, NoOffset
    <3> QED
      BY <1>6, <2>2, <3>1, <3>2, AttributesRead
  <2>4. Literal(32).number = 32
    BY DEF Literal
  <2> HIDE DEF read, stamped
  <2> QED
    BY <2>2, <2>3, <2>4
<1>8. params["config"] = RolePda(marker)
  <2>1. params \in {own, AddMissing(own, RoleParameters(marker))}
    BY DEF Inject
  <2>2. "config" \in DOMAIN own /\ own["config"] = RolePda(marker)
    BY DEF AddMissing, Parameter
  <2> HIDE DEF params, own
  <2> QED
    BY <2>1, <2>2 DEF AddMissing
<1>9. SlotStart(program.fields) = 32
  <2>1. LayoutHolds(program.fields)
    BY <1>6 DEF RestBuilds
  <2> QED
    BY <2>1, FieldsAre, LayoutPinsTheSlot DEF MarkerOffset
<1> HIDE DEF read, params, bootstrap
<1> QED
  BY <1>5, <1>6, <1>7, <1>8, <1>9

(* A bootstrap that builds writes the slot of the account that its         *)
(* instruction creates.                                                    *)
THEOREM BootstrapsWriteTheSlot == WiringSpec => []BootstrapWritesTheSlot
<1> QED
  BY BootstrapGoesToTheSlot, WiringTypesHold, PTL

(* The two attributes, in any program of the wiring model: the same        *)
(* account, caller and slot.                                               *)
THEOREM GatesReadWhatInitializersWrite == WiringSpec => []GateReadsWhatInitializeWrites
<1>1. WiringTypes => GateReadsWhatInitializeWrites
  <2>1. WiringTypes => args \in Seq(Written)
    BY ArgumentsWritten DEF WiringTypes
  <2> QED
    BY <2>1, AgreeMeansTheProperty
<1> QED
  BY <1>1, WiringTypesHold, PTL

------------------------------------------------------------------------------
(* The bodies.                                                             *)

(* A body with the bootstrap in front of its last statement.               *)
BootstrapShape ==
    /\ Len(body) >= 2
    /\ body[Len(body) - 1] = "Bootstrap" /\ body[Len(body)] \in Tails
    /\ \A k \in 1 .. Len(body) - 2 : body[k] \in Statements

(* A body with the gate in front of everything.                            *)
GateShape ==
    /\ Len(body) >= 2
    /\ body[1] = "Gate" /\ body[Len(body)] \in Tails
    /\ \A k \in 2 .. Len(body) - 1 : body[k] \in Statements

BornByTheTail ==
    BootstrapShape /\ ~Has("Return") /\ ~Has("WriteOutput") =>
        /\ pc = Len(body) => account = "Admin"
        /\ outcome = "Ok" => account = "Admin"

FoundWritten ==
    /\ BootstrapShape /\ ~Has("WritePart") /\ pc < Len(body)
    /\ \E k \in 1 .. pc - 1 : body[k] = "Write"
    => account = "Zero"

KeptShut ==
    GateShape /\ ~(admin /\ before = "Admin") =>
        pc = 1 /\ outcome # "Ok" /\ account = before

(* What is behind the next statement, by the place of the injected one.    *)
HandlerInv ==
    /\ Len(body) \in Nat /\ DOMAIN body = 1 .. Len(body)
    /\ pc \in 1 .. Len(body)
    /\ BootstrapShape \/ GateShape
    /\ BornByTheTail
    /\ FoundWritten
    /\ KeptShut

(* The two expansions and where they put their statement.                  *)
LEMMA Expansions ==
    ASSUME NEW b \in Bodies
    PROVE  /\ body = WithBootstrap(b) =>
                Len(body) \in Nat /\ DOMAIN body = 1 .. Len(body) /\ BootstrapShape
           /\ body = WithGate(b) =>
                Len(body) \in Nat /\ DOMAIN body = 1 .. Len(body) /\ GateShape
<1> DEFINE All == Statements \cup Tails \cup Injected
<1>1. PICK s \in BoundedSeq(Statements, MaxStatements), t \in Tails : b = Append(s, t)
  BY DEF Bodies
<1>2. PICK m \in 0 .. MaxStatements : s \in [1 .. m -> Statements]
  BY DEF BoundedSeq, SeqOf
<1>3. s \in Seq(Statements) /\ s \in Seq(All) /\ m \in Nat /\ Len(s) = m
  BY <1>2, BodiesAssumption
<1>4. b \in Seq(All) /\ Len(b) = m + 1 /\ b[m + 1] = t /\ \A k \in 1 .. m : b[k] \in Statements
  <2> HIDE DEF All
  <2>1. t \in All
    BY <1>1 DEF All
  <2> QED
    BY <1>1, <1>2, <1>3, <2>1
<1> HIDE DEF All
<1>5. <<"Bootstrap">> \in Seq(All) /\ <<"Gate">> \in Seq(All)
  BY DEF All, Injected
<1>6. ASSUME body = WithBootstrap(b)
      PROVE  Len(body) \in Nat /\ DOMAIN body = 1 .. Len(body) /\ BootstrapShape
  <2> DEFINE p == SubSeq(b, 1, m)
             q == SubSeq(b, m + 1, m + 1)
  <2>1. body = p \o <<"Bootstrap">> \o q
    BY <1>3, <1>4, <1>6 DEF WithBootstrap, InsertAt
  <2>2. p \in Seq(All) /\ Len(p) = m /\ \A k \in 1 .. m : p[k] = b[k]
    BY <1>3, <1>4, SubSeqProperties
  <2>3. q \in Seq(All) /\ Len(q) = 1 /\ q[1] = t
    BY <1>3, <1>4, SubSeqProperties
  <2> HIDE DEF p, q
  <2>4. DEFINE r == p \o <<"Bootstrap">>
  <2>5. r \in Seq(All) /\ Len(r) = m + 1 /\ r[m + 1] = "Bootstrap" /\ \A k \in 1 .. m : r[k] = b[k]
    BY <1>3, <1>5, <2>2, ConcatProperties
  <2> HIDE DEF r
  <2>6. body = r \o q
    BY <2>1 DEF r
  <2>7. /\ body \in Seq(All) /\ Len(body) = m + 2
        /\ body[m + 2] = t
        /\ \A k \in 1 .. m + 1 : body[k] = r[k]
    <3>1. /\ r \o q \in Seq(All) /\ Len(r \o q) = Len(r) + Len(q)
          /\ \A k \in 1 .. Len(r) + Len(q) :
               (r \o q)[k] = IF k <= Len(r) THEN r[k] ELSE q[k - Len(r)]
      BY <2>3, <2>5, ConcatProperties
    <3>2. /\ Len(r) + Len(q) = m + 2 /\ m + 2 - Len(r) = 1
          /\ ~(m + 2 <= Len(r)) /\ m + 2 \in 1 .. m + 2
      BY <1>3, <2>3, <2>5
    <3> QED
      BY <1>3, <2>3, <2>5, <2>6, <3>1, <3>2
  <2>8. Len(body) - 1 = m + 1 /\ Len(body) - 2 = m /\ Len(body) \in Nat /\ Len(body) >= 2
    BY <1>3, <2>7
  <2>9. body[m + 1] = "Bootstrap" /\ \A k \in 1 .. m : body[k] \in Statements
    BY <1>3, <1>4, <2>5, <2>7
  <2> QED
    BY <1>1, <2>7, <2>8, <2>9 DEF BootstrapShape
<1>7. ASSUME body = WithGate(b)
      PROVE  Len(body) \in Nat /\ DOMAIN body = 1 .. Len(body) /\ GateShape
  <2> DEFINE p == SubSeq(b, 1, 0)
  <2>1. body = p \o <<"Gate">> \o SubSeq(b, 1, Len(b))
    BY <1>7 DEF WithGate, InsertAt
  <2>2. p = <<>> /\ SubSeq(b, 1, Len(b)) = b
    BY <1>4, SubSeqEmpty, SubSeqFull
  <2>3. body = <<"Gate">> \o b
    BY <1>5, <2>1, <2>2, ConcatEmptySeq
  <2>4. /\ body \in Seq(All) /\ Len(body) = m + 2 /\ body[1] = "Gate"
        /\ \A k \in 2 .. m + 2 : body[k] = b[k - 1]
    BY <1>3, <1>4, <1>5, <2>3, ConcatProperties
  <2> QED
    BY <1>1, <1>3, <1>4, <2>4 DEF GateShape
<1> QED
  BY <1>6, <1>7

(* A handler starts at its first statement.                                *)
LEMMA HandlerInitInv == HandlerInit => HandlerInv
<1> SUFFICES ASSUME HandlerInit PROVE HandlerInv
  OBVIOUS
<1>1. PICK b \in Bodies :
         \/ body = WithBootstrap(b) /\ account = "Empty"
         \/ body = WithGate(b) /\ account \in {"Zero", "Admin"}
  BY DEF HandlerInit
<1>2. Len(body) \in Nat /\ DOMAIN body = 1 .. Len(body) /\ (BootstrapShape \/ GateShape)
  BY <1>1, Expansions
<1> QED
  BY <1>2 DEF HandlerInit, HandlerInv, BootstrapShape, GateShape,
              BornByTheTail, FoundWritten, KeptShut

(* Where a handler is, by the kind of its next statement.                  *)
LEMMA Places ==
    ASSUME HandlerInv
    PROVE  /\ body[pc] \in Statements => pc < Len(body)
           /\ body[pc] = "Bootstrap" => BootstrapShape /\ pc = Len(body) - 1
           /\ body[pc] = "Gate" => GateShape /\ pc = 1
           /\ body[pc] \in Tails => pc = Len(body)
           /\ ~(BootstrapShape /\ GateShape)
<1>1. PICK n \in Nat : n = Len(body)
  BY DEF HandlerInv
<1>2. pc \in 1 .. n
  BY <1>1 DEF HandlerInv
<1>3. CASE BootstrapShape
  <2>1. /\ n >= 2 /\ body[n - 1] = "Bootstrap" /\ body[n] \in Tails
        /\ \A k \in 1 .. n - 2 : body[k] \in Statements
    BY <1>1, <1>3 DEF BootstrapShape
  <2>2. pc = n \/ pc = n - 1 \/ pc \in 1 .. n - 2
    BY <1>2
  <2>3. body[1] # "Gate"
    BY <2>1 DEF Statements
  <2> QED
    BY <1>1, <1>2, <1>3, <2>1, <2>2, <2>3 DEF GateShape, Statements, Tails
<1>4. CASE GateShape
  <2>1. /\ n >= 2 /\ body[1] = "Gate" /\ body[n] \in Tails
        /\ \A k \in 2 .. n - 1 : body[k] \in Statements
    BY <1>1, <1>4 DEF GateShape
  <2>2. pc = n \/ pc = 1 \/ pc \in 2 .. n - 1
    BY <1>2
  <2>3. body[n - 1] # "Bootstrap"
    BY <2>1 DEF Statements
  <2> QED
    BY <1>1, <1>2, <1>4, <2>1, <2>2, <2>3 DEF BootstrapShape, Statements, Tails
<1> QED
  BY <1>3, <1>4 DEF HandlerInv

(* Which statement was injected tells the shape.                           *)
LEMMA Shapes ==
    ASSUME HandlerInv
    PROVE  (Initializes => BootstrapShape) /\ (Gated => GateShape)
<1>1. PICK n \in Nat : n = Len(body) /\ DOMAIN body = 1 .. n
  BY DEF HandlerInv
<1>2. ASSUME GateShape, NEW k \in DOMAIN body PROVE body[k] # "Bootstrap"
  <2>1. k = 1 \/ k = n \/ k \in 2 .. n - 1
    BY <1>1
  <2> QED
    BY <1>1, <1>2, <2>1 DEF GateShape, Statements, Tails
<1>3. ASSUME BootstrapShape, NEW k \in DOMAIN body PROVE body[k] # "Gate"
  <2>1. k = n - 1 \/ k = n \/ k \in 1 .. n - 2
    BY <1>1
  <2> QED
    BY <1>1, <1>3, <2>1 DEF BootstrapShape, Statements, Tails
<1> QED
  BY <1>2, <1>3 DEF HandlerInv, Initializes, Gated

(* The body is the same after a step.                                      *)
LEMMA SameBody ==
    ASSUME UNCHANGED body
    PROVE  /\ BootstrapShape' = BootstrapShape /\ GateShape' = GateShape
           /\ Has("Return")' = Has("Return") /\ Has("WriteOutput")' = Has("WriteOutput")
           /\ Has("WritePart")' = Has("WritePart")
BY DEF BootstrapShape, GateShape, Has

(* A step that goes on to the next statement.                              *)
LEMMA ContinueKeeps ==
    ASSUME HandlerInv, outcome = "Running", pc < Len(body), Continue,
           body[pc] = "Bootstrap" => account' = "Admin",
           body[pc] = "Write" => account' = "Zero",
           body[pc] \notin {"Write", "WritePart", "Bootstrap"} => account' = account,
           GateShape => admin /\ before = "Admin"
    PROVE  HandlerInv'
<1>1. /\ pc' = pc + 1 /\ body' = body /\ outcome' = "Running"
      /\ before' = before /\ admin' = admin
  BY DEF Continue
<1>2. /\ BootstrapShape' = BootstrapShape /\ GateShape' = GateShape
      /\ Has("Return")' = Has("Return") /\ Has("WriteOutput")' = Has("WriteOutput")
      /\ Has("WritePart")' = Has("WritePart")
  BY <1>1, SameBody
<1>3. PICK n \in Nat : n = Len(body)
  BY DEF HandlerInv
<1>4. pc \in 1 .. n - 1 /\ n = Len(body')
  BY <1>1, <1>3 DEF HandlerInv
<1>5. BornByTheTail'
  <2>1. BootstrapShape /\ pc + 1 = n => body[pc] = "Bootstrap"
    <3>1. pc + 1 = n => pc = n - 1
      BY <1>4
    <3> QED
      BY <1>3, <3>1 DEF BootstrapShape
  <2> QED
    BY <1>1, <1>2, <1>4, <2>1 DEF BornByTheTail
<1>6. FoundWritten'
  <2> SUFFICES ASSUME BootstrapShape, ~Has("WritePart"), pc + 1 < n,
                      NEW k \in 1 .. pc, body[k] = "Write"
               PROVE  account' = "Zero"
    BY <1>1, <1>2, <1>4 DEF FoundWritten
  <2>1. body[pc] # "Bootstrap" /\ body[pc] # "WritePart"
    BY <1>3, <1>4, Places DEF HandlerInv, Has
  <2>2. CASE k = pc
    BY <2>2
  <2>3. CASE k # pc
    <3>1. k \in 1 .. pc - 1
      BY <1>4, <2>3
    <3>2. account = "Zero"
      BY <1>3, <1>4, <3>1 DEF HandlerInv, FoundWritten
    <3> QED
      BY <2>1, <3>2
  <2> QED
    BY <2>2, <2>3
<1>7. KeptShut'
  BY <1>1, <1>2 DEF KeptShut
<1> QED
  BY <1>1, <1>2, <1>3, <1>4, <1>5, <1>6, <1>7 DEF HandlerInv

(* A step that ends the handler where it is.                               *)
LEMMA EndKeeps ==
    ASSUME HandlerInv, UNCHANGED <<body, pc, before, admin>>,
           outcome' \in {"Ok", "Err"},
           outcome' = "Ok" => ~GateShape \/ (admin /\ before = "Admin"),
           outcome' = "Ok" => \/ Has("Return") \/ Has("WriteOutput")
                              \/ pc = Len(body) /\ account' = account,
           account' = account \/ (pc = Len(body) /\ Has("WriteOutput"))
    PROVE  HandlerInv'
<1>0. body' = body /\ pc' = pc /\ before' = before /\ admin' = admin
  OBVIOUS
<1>1. /\ BootstrapShape' = BootstrapShape /\ GateShape' = GateShape
      /\ Has("Return")' = Has("Return") /\ Has("WriteOutput")' = Has("WriteOutput")
      /\ Has("WritePart")' = Has("WritePart")
  BY <1>0, SameBody
<1>2. BornByTheTail'
  BY <1>0, <1>1 DEF HandlerInv, BornByTheTail
<1>3. FoundWritten'
  <2>0. PICK n \in Nat : n = Len(body)
    BY DEF HandlerInv
  <2>3. pc \in 1 .. n
    BY <2>0 DEF HandlerInv
  <2>1. pc < n => pc # n
    BY <2>3
  <2>2. pc < Len(body) => account' = account
    BY <2>0, <2>1
  <2> QED
    BY <1>0, <1>1, <2>2 DEF HandlerInv, FoundWritten
<1>4. KeptShut'
  <2>1. GateShape /\ pc = 1 => account' = account
    BY DEF GateShape
  <2> QED
    BY <1>0, <1>1, <2>1 DEF HandlerInv, KeptShut
<1> QED
  BY <1>0, <1>1, <1>2, <1>3, <1>4 DEF HandlerInv

(* Every step keeps the invariant.                                         *)
LEMMA HandlerNextInv == HandlerInv /\ [HandlerNext]_handlerVars => HandlerInv'
<1> SUFFICES ASSUME HandlerInv, [HandlerNext]_handlerVars PROVE HandlerInv'
  OBVIOUS
<1>1. pc \in DOMAIN body
  BY DEF HandlerInv
(* Past the first statement of a gated body the admin has called.         *)
<1>2. body[pc] # "Gate" => ~GateShape \/ (admin /\ before = "Admin")
  BY DEF HandlerInv, GateShape, KeptShut
<1>3. CASE Check
  <2>1. body[pc] = "Check" /\ outcome = "Running" /\ pc < Len(body)
    BY <1>3, Places DEF Check, At, Statements
  <2>2. CASE End("Err")
    BY <1>3, <2>1, <2>2, EndKeeps DEF Check, End
  <2>3. CASE Continue /\ UNCHANGED account
    BY <1>2, <2>1, <2>3, ContinueKeeps
  <2> QED
    BY <1>3, <2>2, <2>3 DEF Check
<1>4. CASE WriteStruct
  <2>1. body[pc] \in {"Write", "WritePart"} /\ outcome = "Running" /\ pc < Len(body)
    BY <1>4, Places DEF WriteStruct, At, Statements
  <2>2. CASE End("Err")
    BY <2>1, <2>2, EndKeeps DEF End
  <2>3. CASE Continue /\ account' = IF body[pc] = "Write" THEN "Zero" ELSE "Part"
    BY <1>2, <2>1, <2>3, ContinueKeeps
  <2> QED
    BY <1>4, <2>2, <2>3 DEF WriteStruct
<1>5. CASE Return
  <2>1. body[pc] = "Return" /\ outcome = "Running" /\ pc < Len(body) /\ Has("Return")
    BY <1>1, <1>5, Places DEF Return, At, Statements, Has
  <2>2. CASE End("Ok")
    BY <1>2, <2>1, <2>2, EndKeeps DEF End
  <2>3. CASE Continue /\ UNCHANGED account
    BY <1>2, <2>1, <2>3, ContinueKeeps
  <2> QED
    BY <1>5, <2>2, <2>3 DEF Return
<1>6. CASE Finish
  <2>1. body[pc] \in Tails /\ pc = Len(body)
    BY <1>6, Places DEF Finish, At, Tails
  <2>2. account' = account \/ Has("WriteOutput")
    BY <1>1, <1>6 DEF Finish, Has
  <2> QED
    BY <1>2, <1>6, <2>1, <2>2, EndKeeps DEF Finish, Tails
<1>7. CASE RunBootstrap
  <2>1. body[pc] = "Bootstrap" /\ outcome = "Running" /\ pc < Len(body)
    <3>1. body[pc] = "Bootstrap" /\ outcome = "Running"
      BY <1>7 DEF RunBootstrap, At
    <3>2. pc = Len(body) - 1 /\ Len(body) \in Nat
      BY <3>1, Places DEF HandlerInv
    <3> QED
      BY <3>1, <3>2
  <2>2. CASE End("Err")
    BY <2>1, <2>2, EndKeeps DEF End
  <2>3. CASE Continue /\ account' = "Admin"
    BY <1>2, <2>1, <2>3, ContinueKeeps
  <2> QED
    BY <1>7, <2>2, <2>3 DEF RunBootstrap
<1>8. CASE RunGate
  <2>1. body[pc] = "Gate" /\ outcome = "Running" /\ pc < Len(body) /\ pc = 1 /\ GateShape
    <3>1. body[pc] = "Gate" /\ outcome = "Running"
      BY <1>8 DEF RunGate, At
    <3>2. pc = 1 /\ GateShape
      BY <3>1, Places
    <3> QED
      BY <3>1, <3>2 DEF GateShape
  <2>2. CASE account = "Admin" /\ admin
    <3>1. before = "Admin"
      BY <2>1, <2>2 DEF HandlerInv, KeptShut
    <3> QED
      BY <1>8, <2>1, <2>2, <3>1, ContinueKeeps DEF RunGate
  <2>3. CASE ~(account = "Admin" /\ admin)
    BY <1>8, <2>1, <2>3, EndKeeps DEF RunGate, End
  <2> QED
    BY <2>2, <2>3
<1>9. CASE UNCHANGED handlerVars
  <2>1. /\ body' = body /\ pc' = pc /\ account' = account
        /\ before' = before /\ admin' = admin /\ outcome' = outcome
    BY <1>9 DEF handlerVars
  <2>2. BornByTheTail'
    BY <2>1, SameBody DEF HandlerInv, BornByTheTail
  <2>4. KeptShut'
    BY <2>1, SameBody DEF HandlerInv, KeptShut
  <2>3. FoundWritten'
    BY <2>1, SameBody DEF HandlerInv, FoundWritten
  <2> QED
    BY <2>1, <2>2, <2>3, <2>4, SameBody DEF HandlerInv
<1> QED
  BY <1>3, <1>4, <1>5, <1>6, <1>7, <1>8, <1>9 DEF HandlerNext

(* The invariant holds at every statement of every body.                   *)
THEOREM HandlerInvHolds == HandlerSpec => []HandlerInv
BY HandlerInitInv, HandlerNextInv, PTL DEF HandlerSpec

(* A handler that creates the account and reaches its tail leaves the      *)
(* caller as admin, for a body of any length.                              *)
THEOREM HandlersAreBornInitialized == HandlerSpec => []FallingThroughIsBornInitialized
<1>1. HandlerInv => FallingThroughIsBornInitialized
  <2> SUFFICES ASSUME HandlerInv, Initializes PROVE BootstrapShape
    BY DEF FallingThroughIsBornInitialized, HandlerInv, BornByTheTail
  <2> QED
    BY Shapes
<1> QED
  BY <1>1, HandlerInvHolds, PTL

(* The bootstrap finds the struct the handler wrote before it.             *)
THEOREM BootstrapsFindTheStruct == HandlerSpec => []BootstrapFindsTheStruct
<1>1. HandlerInv => BootstrapFindsTheStruct
  <2> SUFFICES ASSUME HandlerInv, At("Bootstrap"), Has("Write"), ~Has("WritePart")
               PROVE  account = "Zero"
    BY DEF BootstrapFindsTheStruct
  <2>1. BootstrapShape /\ pc = Len(body) - 1
    BY Places DEF At
  <2>2. PICK k \in DOMAIN body : body[k] = "Write"
    BY DEF Has
  <2>3. k \in 1 .. Len(body) /\ Len(body) \in Nat
    BY <2>2 DEF HandlerInv
  <2>4. k # Len(body) /\ k # Len(body) - 1
    BY <2>1, <2>2 DEF BootstrapShape, Tails
  <2>5. k \in 1 .. pc - 1 /\ pc < Len(body)
    BY <2>1, <2>3, <2>4
  <2> QED
    BY <2>1, <2>2, <2>5 DEF HandlerInv, FoundWritten
<1> QED
  BY <1>1, HandlerInvHolds, PTL

(* Nothing of a gated handler runs before the gate has let the admin in.   *)
THEOREM GatesComeFirst == HandlerSpec => []GateComesFirst
<1>1. HandlerInv => GateComesFirst
  <2> SUFFICES ASSUME HandlerInv, Gated PROVE GateShape
    BY DEF GateComesFirst, HandlerInv, KeptShut
  <2> QED
    BY Shapes
<1> QED
  BY <1>1, HandlerInvHolds, PTL
==============================================================================

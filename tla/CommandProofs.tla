--------------------------- MODULE CommandProofs ----------------------------
(***************************************************************************)
(* Proofs about the commands: CommandLine, for lines of any length, and    *)
(* any numbers, durations and texts; and Release, for any list of names,   *)
(* any number of processes and every system, with files that vanish and    *)
(* processes that end between any two steps.                               *)
(***************************************************************************)
EXTENDS CommandLine, Release, FlattenTheorems

(* Where the arguments of an item are.                                     *)

ArgSet == [dash : BOOLEAN, eq : BOOLEAN, name : STRING \cup {Empty}, text : STRING]
Parts == [k \in DOMAIN line.items |-> ArgsOf(line.items[k])]

\* How many arguments are in front of the k-th item.
First == CHOOSE ofs : FlatParts(Parts, args, ofs)

Count == Len(line.items)
Form(k) == line.items[k].form
Name(k) == line.items[k].name
Text(k) == line.items[k].val

\* The arguments of the k-th item, from the first on.
ArgsAre(k) ==
  LET i == First[k] + 1
      a == args[i]
  IN CASE Form(k) = "uri" -> First[k + 1] = i /\ ~a.dash /\ ~a.eq /\ a.text = Text(k)
       [] Form(k) = "bool" -> First[k + 1] = i /\ a.dash /\ ~a.eq /\ a.name = Name(k)
       [] Form(k) = "eq" ->
            First[k + 1] = i /\ a.dash /\ a.eq /\ a.name = Name(k) /\ a.text = Text(k)
       [] Form(k) = "sep" ->
            /\ First[k + 1] = i + 1 /\ a.dash /\ ~a.eq /\ a.name = Name(k)
            /\ args[i + 1] = ValueArg(Text(k))

Layout ==
  /\ Count \in Nat /\ DOMAIN line.items = 1 .. Count
  /\ line.cmd \in {"scan", "diagnose"}
  /\ args \in Seq(ArgSet)
  /\ First \in [1 .. Count + 1 -> Nat]
  /\ First[1] = 0
  /\ Len(args) = First[Count + 1]
  /\ \A k \in 1 .. Count :
       /\ Form(k) \in {"uri", "bool", "eq", "sep"}
       /\ Name(k) \in STRING /\ Text(k) \in STRING
       /\ ArgsAre(k)
  /\ \A k \in 1 .. Count : \A m \in k + 1 .. Count + 1 :
       First[k] + (IF Form(k) = "sep" THEN 2 ELSE 1) <= First[m]
  /\ \A i \in 1 .. Len(args) :
       \E k \in 1 .. Count : i = First[k] + 1 \/ (Form(k) = "sep" /\ i = First[k] + 2)

\* The shell makes arguments of every line.
LEMMA LayoutHolds == line \in Lines => Layout
<1> SUFFICES ASSUME line \in Lines PROVE Layout
  OBVIOUS
<1> DEFINE Items == [form : {"uri", "bool", "eq", "sep"}, name : STRING, val : STRING]
<1>1. line.cmd \in {"scan", "diagnose"} /\ line.items \in Seq(Items)
  BY LineAssumption
<1>2. Count \in Nat /\ DOMAIN line.items = 1 .. Count
  BY <1>1 DEF Count
<1>3. \A k \in 1 .. Count : line.items[k] \in Items
  <2> HIDE DEF Items
  <2> QED
    BY <1>1 DEF Count
<1>4. \A v \in STRING : ValueArg(v) \in ArgSet
  BY DEF ValueArg, Arg, ArgSet
<1>5. ASSUME NEW it \in Items PROVE ArgsOf(it) \in Seq(ArgSet)
  <2>1. it.val \in STRING /\ it.name \in STRING /\ it.form \in {"uri", "bool", "eq", "sep"}
    OBVIOUS
  <2>2. \A d \in BOOLEAN, e \in BOOLEAN, n \in STRING \cup {Empty}, t \in STRING :
          Arg(d, e, n, t) \in ArgSet
    BY DEF Arg, ArgSet
  <2>3. \A x \in ArgSet : <<x>> \in Seq(ArgSet)
    OBVIOUS
  <2>4. \A x \in ArgSet, y \in ArgSet : <<x, y>> \in Seq(ArgSet)
    OBVIOUS
  <2>5. TRUE \in BOOLEAN /\ FALSE \in BOOLEAN
    OBVIOUS
  <2> HIDE DEF Items
  <2>6. CASE it.form = "uri"
    BY <2>1, <2>2, <2>3, <2>5, <2>6 DEF ArgsOf
  <2>7. CASE it.form = "bool"
    BY <2>1, <2>2, <2>3, <2>5, <2>7 DEF ArgsOf
  <2>8. CASE it.form = "eq"
    BY <2>1, <2>2, <2>3, <2>5, <2>8 DEF ArgsOf
  <2>9. CASE it.form = "sep"
    BY <1>4, <2>1, <2>2, <2>4, <2>5, <2>9 DEF ArgsOf
  <2> QED
    BY <2>1, <2>6, <2>7, <2>8, <2>9
<1>6. Parts \in Seq(Seq(ArgSet)) /\ Len(Parts) = Count
      /\ \A k \in 1 .. Count : Parts[k] = ArgsOf(line.items[k])
  <2>1. \A k \in 1 .. Count : ArgsOf(line.items[k]) \in Seq(ArgSet)
    BY <1>3, <1>5
  <2>2. Parts = [k \in 1 .. Count |-> ArgsOf(line.items[k])]
    BY <1>2 DEF Parts
  <2> QED
    BY <1>2, <2>1, <2>2
<1>7. args = FlattenSeq(Parts)
  BY DEF args, Parts
<1>8. args \in Seq(ArgSet) /\ FlatParts(Parts, args, First)
  <2>1. FlattenSeq(Parts) \in Seq(ArgSet) /\ \E ofs : FlatParts(Parts, FlattenSeq(Parts), ofs)
    BY <1>6, FlattenParts
  <2> QED
    BY <1>7, <2>1, Zenon DEF First
<1> DEFINE a == args
<1> HIDE DEF a
<1>9. ASSUME NEW k \in 1 .. Count
      PROVE  /\ Form(k) \in {"uri", "bool", "eq", "sep"}
             /\ Name(k) \in STRING /\ Text(k) \in STRING
             /\ Len(Parts[k]) = IF Form(k) = "sep" THEN 2 ELSE 1
             /\ ArgsAre(k)
  <2>1. /\ Form(k) \in {"uri", "bool", "eq", "sep"}
        /\ Name(k) \in STRING /\ Text(k) \in STRING
    BY <1>3 DEF Form, Name, Text
  <2>2. Parts[k] = CASE Form(k) = "uri" -> <<Arg(FALSE, FALSE, Empty, Text(k))>>
                     [] Form(k) = "bool" -> <<Arg(TRUE, FALSE, Name(k), Name(k))>>
                     [] Form(k) = "eq" -> <<Arg(TRUE, TRUE, Name(k), Text(k))>>
                     [] Form(k) = "sep" -> <<Arg(TRUE, FALSE, Name(k), Name(k)), ValueArg(Text(k))>>
    BY <1>6 DEF Form, Name, Text, ArgsOf
  <2> DEFINE p == Parts[k]
             b == First[k]
             c == First[k + 1]
  <2>3. /\ c = b + Len(p) /\ b \in Nat
        /\ \A j \in 1 .. Len(p) : args[b + j] = p[j]
    <3>1. /\ First \in [1 .. Count + 1 -> Nat]
          /\ \A i \in 1 .. Count : First[i + 1] = First[i] + Len(Parts[i])
          /\ \A i \in 1 .. Count : \A j \in 1 .. Len(Parts[i]) : args[First[i] + j] = Parts[i][j]
      BY <1>6, <1>8 DEF FlatParts
    <3>2. k \in 1 .. Count /\ k \in 1 .. Count + 1
      BY <1>2, <1>9
    <3> QED
      BY <3>1, <3>2
  <2>a. /\ Len(p) = 1 => args[b + 1] = p[1]
        /\ Len(p) = 2 => args[b + 1] = p[1] /\ args[b + 2] = p[2]
    <3> HIDE DEF p, b, c
    <3> QED
      BY <2>3
  <2> HIDE DEF p, b, c
  <2>4. CASE Form(k) = "uri"
    <3>1. p = <<Arg(FALSE, FALSE, Empty, Text(k))>>
      BY <2>2, <2>4 DEF p
    <3>2. Len(p) = 1 /\ args[b + 1] = Arg(FALSE, FALSE, Empty, Text(k)) /\ c = b + 1
      BY <2>3, <2>a, <3>1
    <3> QED
      BY <2>1, <2>4, <3>2 DEF Arg, ArgsAre, p, b, c
  <2>5. CASE Form(k) = "bool"
    <3>1. p = <<Arg(TRUE, FALSE, Name(k), Name(k))>>
      BY <2>2, <2>5 DEF p
    <3>2. Len(p) = 1 /\ args[b + 1] = Arg(TRUE, FALSE, Name(k), Name(k)) /\ c = b + 1
      BY <2>3, <2>a, <3>1
    <3> QED
      BY <2>1, <2>5, <3>2 DEF Arg, ArgsAre, p, b, c
  <2>6. CASE Form(k) = "eq"
    <3>1. p = <<Arg(TRUE, TRUE, Name(k), Text(k))>>
      BY <2>2, <2>6 DEF p
    <3>2. Len(p) = 1 /\ args[b + 1] = Arg(TRUE, TRUE, Name(k), Text(k)) /\ c = b + 1
      BY <2>3, <2>a, <3>1
    <3> QED
      BY <2>1, <2>6, <3>2 DEF Arg, ArgsAre, p, b, c
  <2>7. CASE Form(k) = "sep"
    <3>1. p = <<Arg(TRUE, FALSE, Name(k), Name(k)), ValueArg(Text(k))>>
      BY <2>2, <2>7 DEF p
    <3>2. /\ Len(p) = 2 /\ args[b + 1] = Arg(TRUE, FALSE, Name(k), Name(k)) /\ c = b + 2
          /\ args[b + 2] = ValueArg(Text(k))
      BY <2>3, <2>a, <3>1
    <3>3. b + 1 + 1 = b + 2
      BY <2>3
    <3> QED
      BY <2>1, <2>7, <3>2, <3>3 DEF Arg, ArgsAre, p, b, c
  <2> QED
    BY <2>1, <2>4, <2>5, <2>6, <2>7
<1>10. /\ \A k \in 1 .. Count : \A m \in k + 1 .. Count + 1 :
             First[k] + (IF Form(k) = "sep" THEN 2 ELSE 1) <= First[m]
       /\ \A i \in 1 .. Len(args) :
             \E k \in 1 .. Count : i = First[k] + 1 \/ (Form(k) = "sep" /\ i = First[k] + 2)
  <2>1. /\ \A k \in 1 .. Count : \A m \in k + 1 .. Count + 1 : First[k] + Len(Parts[k]) <= First[m]
        /\ \A i \in 1 .. Len(args) :
             \E k \in 1 .. Count : \E j \in 1 .. Len(Parts[k]) : i = First[k] + j
    <3>1. InOrder(Parts, args, First)
      BY <1>6, <1>8, FlatOrder
    <3> QED
      BY <1>6, <3>1 DEF InOrder
  <2>2. \A k \in 1 .. Count : \A j \in 1 .. Len(Parts[k]) : j = 1 \/ (Form(k) = "sep" /\ j = 2)
    BY <1>9
  <2>3. ASSUME NEW i \in 1 .. Len(args)
        PROVE  \E k \in 1 .. Count : i = First[k] + 1 \/ (Form(k) = "sep" /\ i = First[k] + 2)
    <3>1. PICK k \in 1 .. Count : \E j \in 1 .. Len(Parts[k]) : i = First[k] + j
      BY <2>1
    <3>2. PICK j \in 1 .. Len(Parts[k]) : i = First[k] + j
      BY <3>1
    <3> QED
      BY <2>2, <3>1, <3>2
  <2> QED
    BY <1>9, <2>1, <2>3
<1> QED
  BY <1>1, <1>2, <1>6, <1>8, <1>9, <1>10 DEF Layout, FlatParts
-----------------------------------------------------------------------------
(* What splitArgs makes of the arguments of a well-formed line.            *)

TheUri == CHOOSE k \in UriItems : TRUE
UriAt == First[TheUri] + 1

\* The i-th argument is taken for the value of the flag before it.
Taken(i) == i > 1 /\ ~args[i].dash /\ args[i - 1].dash /\ ~args[i - 1].eq

\* All of the first n arguments are flags or values, but for the URI.
Sorted(n) ==
  /\ flagArgs \in Seq(ArgSet)
  /\ IF Taken(UriAt) \/ n < UriAt
     THEN /\ Len(flagArgs) = n
          /\ \A i \in 1 .. n : flagArgs[i] = args[i]
          /\ posArgs = <<>>
     ELSE /\ Len(flagArgs) = n - 1
          /\ \A i \in 1 .. UriAt - 1 : flagArgs[i] = args[i]
          /\ \A i \in UriAt .. n - 1 : flagArgs[i] = args[i + 1]
          /\ posArgs = <<args[UriAt]>>

SplitInv ==
  /\ at \in 1 .. Len(args) + 1
  /\ at <= Len(args) => ~Taken(at)
  /\ Sorted(at - 1)
  /\ settings = [n \in DOMAIN Flags(line.cmd) \ {"q"} |-> Empty]

\* There is one URI.
LEMMA OneUri ==
  ASSUME Layout, WellFormedLine
  PROVE  /\ TheUri \in 1 .. Count
         /\ UriItems = {TheUri}
         /\ \A k \in 1 .. Count : Form(k) = "uri" <=> k = TheUri
         /\ UriAt \in 1 .. Len(args)
         /\ ~args[UriAt].dash
         /\ args[UriAt].text = MeantUri
<1>1. PICK u \in UriItems : UriItems = {u}
  BY DEF WellFormedLine
<1>2. TheUri = u
  BY <1>1 DEF TheUri
<1>3. u \in 1 .. Count /\ \A k \in 1 .. Count : Form(k) = "uri" <=> k = u
  BY <1>1 DEF Layout, UriItems, Form
<1>4. MeantUri = Text(u)
  BY <1>2 DEF MeantUri, Text, TheUri
<1>5. /\ ArgsAre(u) /\ First[u + 1] \in Nat /\ First[u] \in Nat
      /\ First[u] + 1 \in 1 .. Len(args)
  <2>1. ArgsAre(u) /\ First[u + 1] \in Nat /\ First[u] \in Nat
    BY <1>3 DEF Layout
  <2>2. First[u] + 1 <= First[Count + 1]
    BY SMTT(60), <1>3 DEF Layout
  <2>3. Len(args) = First[Count + 1]
    BY DEF Layout
  <2> QED
    BY <2>1, <2>2, <2>3
<1>6. ~args[First[u] + 1].dash /\ args[First[u] + 1].text = Text(u)
  BY <1>3, <1>5 DEF ArgsAre
<1> QED
  BY <1>1, <1>2, <1>3, <1>4, <1>5, <1>6 DEF UriAt

\* What the arguments of an item are, by its form.
LEMMA ItemArgs ==
  ASSUME Layout, NEW k \in 1 .. Count
  PROVE  LET i == First[k] + 1
         IN /\ i \in 1 .. Len(args) /\ First[k] \in Nat /\ First[k + 1] \in Nat
            /\ Form(k) = "uri" => First[k + 1] = i /\ ~args[i].dash /\ args[i].text = Text(k)
            /\ Form(k) # "uri" => args[i].dash /\ args[i].name = Name(k)
            /\ Form(k) = "bool" => First[k + 1] = i /\ ~args[i].eq
            /\ Form(k) = "eq" => First[k + 1] = i /\ args[i].eq /\ args[i].text = Text(k)
            /\ Form(k) = "sep" => /\ First[k + 1] = i + 1 /\ ~args[i].eq
                                  /\ i + 1 \in 1 .. Len(args)
                                  /\ args[i + 1] = ValueArg(Text(k))
<1> DEFINE i == First[k] + 1
<1>1. /\ First[k] \in Nat /\ First[k + 1] \in Nat /\ ArgsAre(k)
      /\ Form(k) \in {"uri", "bool", "eq", "sep"}
      /\ First[k] + (IF Form(k) = "sep" THEN 2 ELSE 1) <= Len(args)
  BY DEF Layout
<1>2. Len(args) \in Nat
  BY DEF Layout
<1>3. CASE Form(k) = "uri"
  BY <1>1, <1>2, <1>3 DEF ArgsAre
<1>4. CASE Form(k) = "bool"
  BY <1>1, <1>2, <1>4 DEF ArgsAre
<1>5. CASE Form(k) = "eq"
  BY <1>1, <1>2, <1>5 DEF ArgsAre
<1>6. CASE Form(k) = "sep"
  BY <1>1, <1>2, <1>6 DEF ArgsAre
<1> QED
  BY <1>1, <1>3, <1>4, <1>5, <1>6

\* An argument that is no flag is the URI, or a value behind its flag.
LEMMA Words ==
  ASSUME Layout, WellFormedLine, NEW i \in 1 .. Len(args), ~args[i].dash
  PROVE  i = UriAt \/ Taken(i)
<1>1. PICK k \in 1 .. Count : i = First[k] + 1 \/ (Form(k) = "sep" /\ i = First[k] + 2)
  BY DEF Layout
<1>2. First[k] \in Nat
  BY DEF Layout
<1>3. CASE i = First[k] + 1
  <2>1. Form(k) = "uri"
    BY <1>3, ItemArgs
  <2>2. k = TheUri
    BY <2>1, OneUri
  <2> QED
    BY <1>3, <2>2 DEF UriAt
<1>4. CASE Form(k) = "sep" /\ i = First[k] + 2
  <2>1. i - 1 = First[k] + 1 /\ i > 1
    BY <1>2, <1>4
  <2>2. args[First[k] + 1].dash /\ ~args[First[k] + 1].eq
    BY <1>4, ItemArgs
  <2> QED
    BY <2>1, <2>2 DEF Taken
<1> QED
  BY <1>1, <1>3, <1>4

\* The URI is taken for a value exactly if LineUnderstood says so.
LEMMA TakenIsSwallowed ==
  ASSUME Layout, WellFormedLine
  PROVE  Taken(UriAt) <=> Swallowed
<1> DEFINE u == TheUri
<1>1. /\ u \in 1 .. Count /\ Count \in Nat
      /\ UriItems = {u}
      /\ \A k \in 1 .. Count : Form(k) = "uri" <=> k = u
      /\ ~args[UriAt].dash
  BY OneUri DEF Layout
<1>2. Swallowed <=> /\ u > 1
                    /\ \/ Form(u - 1) = "bool"
                       \/ Form(u - 1) = "sep" /\ ValueArg(Text(u - 1)).dash
  BY <1>1 DEF Swallowed, Form, Text
<1>3. UriAt = First[u] + 1
  BY DEF UriAt
<1> HIDE DEF u
<1>4. CASE u = 1
  <2>1. UriAt = 1
    BY <1>3, <1>4 DEF Layout
  <2> QED
    BY <1>2, <1>4, <2>1 DEF Taken
<1>5. CASE u # 1
  <2> DEFINE k == u - 1
  <2>1. k \in 1 .. Count /\ k + 1 = u /\ Form(k) # "uri"
    BY <1>1, <1>5
  <2>2. Form(k) \in {"uri", "bool", "eq", "sep"}
    BY <2>1 DEF Layout
  <2> HIDE DEF k
  <2>3. CASE Form(k) = "bool"
    <3>1. UriAt - 1 = First[k] + 1 /\ UriAt > 1 /\ args[First[k] + 1].dash /\ ~args[First[k] + 1].eq
      BY <1>3, <2>1, <2>3, ItemArgs
    <3> QED
      BY <1>1, <1>2, <1>5, <2>3, <3>1 DEF k, Taken
  <2>4. CASE Form(k) = "eq"
    <3>1. UriAt - 1 = First[k] + 1 /\ args[First[k] + 1].eq
      BY <1>3, <2>1, <2>4, ItemArgs
    <3> QED
      BY <1>2, <2>4, <3>1 DEF k, Taken
  <2>5. CASE Form(k) = "sep"
    <3>1. UriAt - 1 = First[k] + 1 + 1 /\ UriAt > 1 /\ args[First[k] + 1 + 1] = ValueArg(Text(k))
      BY SMTT(60), <1>3, <2>1, <2>5, ItemArgs
    <3>2. ~ValueArg(Text(k)).eq
      BY DEF ValueArg, Arg
    <3>3. Taken(UriAt) <=> ValueArg(Text(k)).dash
      BY <1>1, <3>1, <3>2 DEF Taken
    <3> QED
      BY <1>1, <1>2, <1>5, <2>5, <3>3 DEF k
  <2> QED
    BY <2>1, <2>2, <2>3, <2>4, <2>5
<1> QED
  BY <1>4, <1>5

\* One element more, and two.
LEMMA AppendOne ==
  ASSUME NEW S, NEW f \in Seq(S), NEW a \in S, NEW g, g = Append(f, a)
  PROVE  /\ g \in Seq(S) /\ Len(f) \in Nat /\ Len(g) = Len(f) + 1
         /\ \A i \in 1 .. Len(f) : g[i] = f[i]
         /\ g[Len(f) + 1] = a
OBVIOUS

\* A flag and its value are put behind the others.
LEMMA AppendTwo ==
  ASSUME NEW S, NEW f \in Seq(S), NEW a \in S, NEW b \in S, NEW g, g = f \o <<a, b>>
  PROVE  /\ g \in Seq(S) /\ Len(f) \in Nat /\ Len(g) = Len(f) + 2
         /\ \A i \in 1 .. Len(f) : g[i] = f[i]
         /\ g[Len(f) + 1] = a /\ g[Len(f) + 2] = b
OBVIOUS

\* splitArgs starts with nothing.
LEMMA SplitStarts == Layout /\ WellFormedLine /\ LineStart => SplitInv
<1> SUFFICES ASSUME Layout, WellFormedLine, LineStart PROVE SplitInv
  OBVIOUS
<1>1. UriAt \in 1 .. Len(args)
  BY OneUri
<1>2. at = 1 /\ flagArgs = <<>> /\ posArgs = <<>>
  BY DEF LineStart
<1>3. Sorted(0)
  BY <1>1, <1>2 DEF Sorted
<1>4. ~Taken(1)
  BY DEF Taken
<1> QED
  BY <1>1, <1>2, <1>3, <1>4 DEF SplitInv, LineStart

\* All of this is about the line, that does not change.
LEMMA ArgsKept ==
  ASSUME line' = line
  PROVE  /\ args' = args /\ First' = First /\ Count' = Count /\ Parts' = Parts
         /\ TheUri' = TheUri /\ UriAt' = UriAt
         /\ \A i : Taken(i)' <=> Taken(i)
         /\ \A k : Form(k)' = Form(k) /\ Name(k)' = Name(k) /\ Text(k)' = Text(k)
         /\ Layout' <=> Layout
         /\ WellFormedLine' <=> WellFormedLine
         /\ Swallowed' <=> Swallowed
         /\ Sensible' <=> Sensible
         /\ MeantUri' = MeantUri
         /\ \A n : MeantSetting(n)' = MeantSetting(n)
         /\ Flags(line.cmd)' = Flags(line.cmd)
<1>1. Parts' = Parts /\ args' = args /\ Count' = Count
  BY DEF Parts, args, Count
<1>2. First' = First
  BY <1>1 DEF First
<1>3. \A k : Form(k)' = Form(k) /\ Name(k)' = Name(k) /\ Text(k)' = Text(k)
  BY DEF Form, Name, Text
<1>4. UriItems' = UriItems /\ Flags(line.cmd)' = Flags(line.cmd)
  BY DEF UriItems, Flags
<1>5. TheUri' = TheUri /\ UriAt' = UriAt
  BY <1>2, <1>4 DEF TheUri, UriAt
<1>6. \A i : Taken(i)' <=> Taken(i)
  BY <1>1 DEF Taken
<1>7. \A k : ArgsAre(k)' <=> ArgsAre(k)
  BY <1>1, <1>2, <1>3 DEF ArgsAre
<1>8. Layout' <=> Layout
  BY <1>1, <1>2, <1>3, <1>7 DEF Layout
<1>9. WellFormedLine' <=> WellFormedLine
  BY <1>4 DEF WellFormedLine, WellFormed
<1>10. \A n : MeantSetting(n)' = MeantSetting(n)
  BY DEF MeantSetting
<1>11. MeantUri' = MeantUri /\ (Swallowed' <=> Swallowed)
  BY <1>4 DEF MeantUri, Swallowed
<1>12. Sensible' <=> Sensible
  BY <1>10, <1>11 DEF Sensible, MeantInt
<1> QED
  BY <1>1, <1>2, <1>3, <1>4, <1>5, <1>6, <1>8, <1>9, <1>10, <1>11, <1>12

\* The branches of the loop of splitArgs keep to it.
LEMMA SplitKeeps ==
  ASSUME Layout, WellFormedLine, SplitInv,
         SplitPositional \/ SplitFlagWithWord \/ SplitFlag
  PROVE  SplitInv'
<1>u. UriAt \in 1 .. Len(args) /\ ~args[UriAt].dash
  BY OneUri
<1>l. Len(args) \in Nat /\ \A i \in 1 .. Len(args) : args[i] \in ArgSet
  BY DEF Layout
<1>a. /\ at \in 1 .. Len(args) /\ line' = line /\ settings' = settings
      /\ ~Taken(at) /\ Sorted(at - 1)
  BY DEF SplitInv, SplitPositional, SplitFlagWithWord, SplitFlag, Splitting
<1>b. at \in Nat /\ at - 1 \in Nat
  BY <1>a
<1>c. /\ args' = args /\ UriAt' = UriAt /\ (\A i : Taken(i)' <=> Taken(i))
      /\ Flags(line.cmd)' = Flags(line.cmd)
  BY <1>a, ArgsKept
<1>k. PICK k : k = at
  OBVIOUS
<1>m. PICK m : m = at + 1
  OBVIOUS
<1>n. k \in Nat /\ m \in Nat /\ m = k + 1
  BY <1>b, <1>k, <1>m
<1>1. CASE SplitPositional
  <2>1. ~args[at].dash /\ posArgs' = Append(posArgs, args[at]) /\ at' = at + 1
        /\ flagArgs' = flagArgs
    BY <1>1 DEF SplitPositional
  <2>2. at = UriAt
    BY <1>a, <2>1, Words
  <2>3. /\ flagArgs \in Seq(ArgSet) /\ Len(flagArgs) = at - 1 /\ posArgs = <<>>
        /\ \A i \in 1 .. at - 1 : flagArgs[i] = args[i]
    BY <1>a, <1>b, <2>2 DEF Sorted
  <2>4. Sorted(k)'
    BY <1>a, <1>b, <1>c, <1>m, <1>n, <1>k, <2>1, <2>2, <2>3 DEF Sorted
  <2>5. ~Taken(at + 1)
    BY <1>b, <2>1 DEF Taken
  <2>6. at' - 1 = k
    BY <1>b, <1>k, <2>1
  <2>7. Sorted(at - 1)'
    BY <2>4, <2>6 DEF Sorted
  <2> QED
    BY <1>a, <1>c, <1>l, <2>1, <2>5, <2>7 DEF SplitInv
<1>2. CASE SplitFlagWithWord
  <2>1. /\ args[at].dash /\ ~args[at].eq /\ at + 1 <= Len(args) /\ ~args[at + 1].dash
        /\ flagArgs' = flagArgs \o <<args[at], args[at + 1]>>
        /\ at' = at + 2 /\ posArgs' = posArgs
    BY <1>2 DEF SplitFlagWithWord, FollowedByWord
  <2>2. at # UriAt /\ (at + 1 = UriAt => Taken(UriAt))
    BY <1>b, <1>u, <2>1 DEF Taken
  <2>3. ~Taken(at + 2)
    <3>1. PICK j : j = at + 2
      OBVIOUS
    <3>2. j - 1 = m /\ ~args[m].dash
      BY <1>b, <1>m, <2>1, <3>1
    <3>3. ~Taken(j)
      BY <3>2 DEF Taken
    <3> QED
      BY <3>1, <3>3
  <2>4. at + 2 \in 1 .. Len(args) + 1
    BY <1>b, <1>l, <2>1
  <2>5. /\ flagArgs' \in Seq(ArgSet) /\ Len(flagArgs) \in Nat
        /\ Len(flagArgs') = Len(flagArgs) + 2
        /\ \A i \in 1 .. Len(flagArgs) : flagArgs'[i] = flagArgs[i]
        /\ flagArgs'[Len(flagArgs) + 1] = args[at]
        /\ flagArgs'[Len(flagArgs) + 2] = args[at + 1]
    <3>1. flagArgs \in Seq(ArgSet)
      BY <1>a DEF Sorted
    <3>2. args[at] \in ArgSet /\ args[at + 1] \in ArgSet
      BY <1>a, <1>b, <1>l, <2>1
    <3> QED
      BY <2>1, <3>1, <3>2, AppendTwo
  <2>6. Sorted(m)'
    <3>1. CASE Taken(UriAt)
      BY <1>a, <1>b, <1>c, <1>m, <1>n, <2>1, <2>5, <3>1 DEF Sorted
    <3>2. CASE ~Taken(UriAt) /\ at < UriAt
      BY <1>a, <1>b, <1>c, <1>m, <1>n, <1>u, <2>1, <2>2, <2>5, <3>2 DEF Sorted
    <3>3. CASE ~Taken(UriAt) /\ at > UriAt
      BY SMTT(60), <1>a, <1>b, <1>c, <1>m, <1>n, <1>u, <2>1, <2>5, <3>3 DEF Sorted
    <3> QED
      BY <1>b, <1>u, <2>2, <3>1, <3>2, <3>3
  <2>7. at' - 1 = m
    BY <1>b, <1>m, <2>1
  <2>8. Sorted(at - 1)'
    BY <2>6, <2>7 DEF Sorted
  <2> QED
    BY <1>a, <1>c, <2>1, <2>3, <2>4, <2>8 DEF SplitInv
<1>3. CASE SplitFlag
  <2>1. /\ args[at].dash /\ ~FollowedByWord
        /\ flagArgs' = Append(flagArgs, args[at]) /\ at' = at + 1 /\ posArgs' = posArgs
    BY <1>3 DEF SplitFlag
  <2>2. at # UriAt
    BY <1>u, <2>1
  <2>3. at + 1 <= Len(args) => ~Taken(at + 1)
    <3>1. m - 1 = at /\ (m > Len(args) \/ args[m].dash \/ args[at].eq)
      BY <1>b, <1>l, <1>m, <2>1 DEF FollowedByWord
    <3>2. m <= Len(args) => ~Taken(m)
      BY <1>l, <1>n, <3>1 DEF Taken
    <3> QED
      BY <1>m, <3>2
  <2>4. /\ flagArgs' \in Seq(ArgSet) /\ Len(flagArgs) \in Nat
        /\ Len(flagArgs') = Len(flagArgs) + 1
        /\ \A i \in 1 .. Len(flagArgs) : flagArgs'[i] = flagArgs[i]
        /\ flagArgs'[Len(flagArgs) + 1] = args[at]
    <3>1. flagArgs \in Seq(ArgSet) /\ args[at] \in ArgSet
      BY <1>a, <1>l DEF Sorted
    <3> QED
      BY <2>1, <3>1, AppendOne
  <2>5. Sorted(k)'
    <3>1. CASE Taken(UriAt)
      BY <1>a, <1>b, <1>c, <1>k, <1>n, <2>1, <2>4, <3>1 DEF Sorted
    <3>2. CASE ~Taken(UriAt) /\ at < UriAt
      BY <1>a, <1>b, <1>c, <1>k, <1>n, <1>u, <2>1, <2>4, <3>2 DEF Sorted
    <3>3. CASE ~Taken(UriAt) /\ at > UriAt
      BY <1>a, <1>b, <1>c, <1>k, <1>n, <1>u, <2>1, <2>4, <3>3 DEF Sorted
    <3> QED
      BY <1>b, <1>u, <2>2, <3>1, <3>2, <3>3
  <2>6. at' - 1 = k /\ at' \in 1 .. Len(args) + 1
    BY <1>a, <1>b, <1>k, <1>l, <2>1
  <2>7. Sorted(at - 1)'
    BY <2>5, <2>6 DEF Sorted
  <2> QED
    BY <1>a, <1>c, <2>1, <2>3, <2>6, <2>7 DEF SplitInv
<1> QED
  BY <1>1, <1>2, <1>3
-----------------------------------------------------------------------------
(* What flag.Parse makes of flags and values.                              *)

\* What the items in front of the k-th say of a setting.
Given(n, k) == {m \in 1 .. k - 1 : Form(m) # "uri" /\ Setting(Name(m)) = n}
ValueOf(k) == IF Form(k) = "bool" THEN "true" ELSE Text(k)
MeantBefore(n, k) ==
  IF Given(n, k) = {} THEN Empty
  ELSE ValueOf(CHOOSE m \in Given(n, k) : \A j \in Given(n, k) : j <= m)

\* Where the k-th item is in flagArgs.
Place(k) == IF Taken(UriAt) \/ k <= TheUri THEN First[k] + 1 ELSE First[k]

Settings == DOMAIN Flags(line.cmd) \ {"q"}
IsInt(n) == Flags(line.cmd)[n] = "int"

\* The items in front of the k-th are parsed.
ParsedTo(k) ==
  /\ at = Place(k)
  /\ Taken(UriAt) => k <= TheUri
  /\ k = TheUri => Taken(UriAt)
  /\ DOMAIN settings = Settings
  /\ \A n \in Settings :
       /\ settings[n] = MeantBefore(n, k)
       /\ IsInt(n) => settings[n] \in {Empty} \cup DOMAIN Ints

ParseInv == Sorted(Len(args)) /\ \E k \in 1 .. Count + 1 : ParsedTo(k)

\* An item in flagArgs.
LEMMA FlagAt ==
  ASSUME Layout, WellFormedLine, Sorted(Len(args)), NEW k \in 1 .. Count,
         Taken(UriAt) => k <= TheUri, k = TheUri => Taken(UriAt)
  PROVE  /\ Place(k) \in 1 .. Len(flagArgs)
         /\ flagArgs[Place(k)] = args[First[k] + 1]
         /\ Form(k) = "sep" => /\ Place(k) + 1 \in 1 .. Len(flagArgs)
                               /\ flagArgs[Place(k) + 1] = args[First[k] + 2]
<1> DEFINE u == TheUri
           p == UriAt
           b == First[k]
           n == Len(args)
<1>1. /\ u \in 1 .. Count /\ p \in 1 .. n /\ n \in Nat /\ Count \in Nat
      /\ p = First[u] + 1 /\ First[u] \in Nat /\ Form(u) = "uri"
  <2>1. u \in 1 .. Count /\ p \in 1 .. n /\ Form(u) = "uri"
    BY OneUri
  <2>2. p = First[u] + 1
    BY DEF UriAt
  <2>3. n \in Nat /\ Count \in Nat
    BY DEF Layout
  <2>4. First[u] \in Nat
    BY <2>1, ItemArgs
  <2> QED
    BY <2>1, <2>2, <2>3, <2>4
<1>2. /\ b \in Nat /\ b + 1 \in 1 .. n
      /\ Form(k) = "sep" => b + 2 \in 1 .. n
  BY ItemArgs
<1>3. CASE Taken(UriAt)
  <2>1. Place(k) = b + 1 /\ Len(flagArgs) = n /\ \A i \in 1 .. n : flagArgs[i] = args[i]
    BY <1>3 DEF Place, Sorted
  <2> QED
    BY <1>2, <2>1
<1>4. CASE ~Taken(UriAt)
  <2>1. /\ Len(flagArgs) = n - 1
        /\ \A i \in 1 .. p - 1 : flagArgs[i] = args[i]
        /\ \A i \in p .. n - 1 : flagArgs[i] = args[i + 1]
    BY <1>1, <1>4 DEF Sorted
  <2>2. CASE k < u
    <3>1. b + (IF Form(k) = "sep" THEN 2 ELSE 1) <= First[u]
      <4>1. u \in k + 1 .. Count + 1
        BY <1>1, <2>2
      <4> QED
        BY <4>1 DEF Layout
    <3>2. Place(k) = b + 1
      BY <1>1, <2>2 DEF Place
    <3>3. b + 1 \in 1 .. p - 1 /\ (Form(k) = "sep" => b + 2 \in 1 .. p - 1)
      BY SMTT(60), <1>1, <1>2, <3>1
    <3>4. flagArgs[b + 1] = args[b + 1]
      BY <2>1, <3>3
    <3>5. ASSUME Form(k) = "sep" PROVE flagArgs[b + 2] = args[b + 2]
      BY <2>1, <3>3, <3>5
    <3>6. b + 1 \in 1 .. n - 1 /\ (Form(k) = "sep" => b + 2 \in 1 .. n - 1)
      BY <1>1, <3>3
    <3>7. b + 1 + 1 = b + 2
      BY <1>2
    <3> QED
      BY <2>1, <3>2, <3>4, <3>5, <3>6, <3>7
  <2>3. CASE k > u
    <3>1. First[u] + 1 <= b
      <4>1. k \in u + 1 .. Count + 1
        BY <1>1, <2>3
      <4>2. First[u] + (IF Form(u) = "sep" THEN 2 ELSE 1) <= b
        BY <1>1, <4>1 DEF Layout
      <4> QED
        BY <1>1, <4>2
    <3>2. Place(k) = b
      BY <1>1, <1>4, <2>3 DEF Place
    <3>3. b \in p .. n - 1 /\ (Form(k) = "sep" => b + 1 \in p .. n - 1)
      BY <1>1, <1>2, <3>1
    <3>4. flagArgs[b] = args[b + 1]
      BY <2>1, <3>3
    <3>5. ASSUME Form(k) = "sep" PROVE flagArgs[b + 1] = args[b + 2]
      <4>1. PICK i : i = b + 1
        OBVIOUS
      <4>2. i \in p .. n - 1 /\ i + 1 = b + 2
        BY <1>2, <3>3, <3>5, <4>1
      <4>3. flagArgs[i] = args[i + 1]
        BY <2>1, <4>2
      <4> QED
        BY <4>1, <4>2, <4>3
    <3>6. b \in 1 .. n - 1 /\ (Form(k) = "sep" => b + 1 \in 1 .. n - 1)
      BY <1>1, <3>3
    <3> QED
      BY <2>1, <3>2, <3>4, <3>5, <3>6
  <2> QED
    BY <1>1, <1>4, <2>2, <2>3
<1> QED
  BY <1>3, <1>4

\* Where the next item is.
LEMMA PlaceNext ==
  ASSUME Layout, WellFormedLine, NEW k \in 1 .. Count, k # TheUri, Taken(UriAt) => k <= TheUri
  PROVE  \E j \in k + 1 .. Count + 1 :
           /\ Place(j) = Place(k) + (IF Form(k) = "sep" THEN 2 ELSE 1)
           /\ Taken(UriAt) => j <= TheUri
           /\ j = TheUri => Taken(UriAt)
           /\ \A m \in k + 1 .. j - 1 : Form(m) = "uri"
<1> DEFINE u == TheUri
           w == IF Form(k) = "sep" THEN 2 ELSE 1
<1>1. /\ u \in 1 .. Count /\ Count \in Nat /\ UriAt = First[u] + 1
      /\ Form(u) = "uri" /\ First[u] \in Nat /\ First[u + 1] = First[u] + 1
  BY OneUri, ItemArgs DEF Layout, UriAt
<1>2. First[k + 1] = First[k] + w /\ First[k] \in Nat
  <2>1. Form(k) \in {"uri", "bool", "eq", "sep"}
    BY DEF Layout
  <2> QED
    BY <2>1, ItemArgs
<1> HIDE DEF u, w
<1>3. CASE k + 1 = u /\ ~Taken(UriAt)
  <2> DEFINE j == u + 1
  <2>1. j \in k + 1 .. Count + 1 /\ \A m \in k + 1 .. j - 1 : m = u
    BY <1>1, <1>3
  <2>2. Place(j) = First[u + 1]
    BY <1>1, <1>3 DEF Place, u
  <2>3. Place(k) = First[k] + 1
    BY <1>1, <1>3 DEF Place, u
  <2>4. Place(j) = Place(k) + w
    BY <1>1, <1>2, <1>3, <2>2, <2>3 DEF w
  <2>5. j # u
    BY <1>1
  <2> HIDE DEF j
  <2> QED
    BY <1>1, <1>3, <2>1, <2>4, <2>5 DEF u, w
<1>4. CASE ~(k + 1 = u /\ ~Taken(UriAt))
  <2> DEFINE j == k + 1
  <2>1. j \in k + 1 .. Count + 1 /\ \A m \in k + 1 .. j - 1 : FALSE
    BY <1>1
  <2>2. (Taken(UriAt) => j <= u) /\ (j = u => Taken(UriAt))
    BY <1>1, <1>4 DEF u
  <2>3. Place(j) = Place(k) + w
    <3>1. CASE Taken(UriAt)
      BY <1>2, <3>1 DEF Place, w
    <3>2. CASE ~Taken(UriAt)
      <4>1. k <= u <=> j <= u
        BY <1>1, <1>4, <3>2 DEF u
      <4> QED
        BY <1>2, <3>2, <4>1 DEF Place, w, u
    <3> QED
      BY <3>1, <3>2
  <2> HIDE DEF j
  <2> QED
    BY <2>1, <2>2, <2>3 DEF u, w
<1> QED
  BY <1>3, <1>4

\* One item more, and URIs, that say nothing of settings.
LEMMA MeantGrows ==
  ASSUME Layout, NEW k \in 1 .. Count, NEW j \in k + 1 .. Count + 1,
         \A m \in k + 1 .. j - 1 : Form(m) = "uri", NEW n
  PROVE  MeantBefore(n, j) = IF Form(k) # "uri" /\ Setting(Name(k)) = n THEN ValueOf(k)
                             ELSE MeantBefore(n, k)
<1>1. k \in Nat /\ j \in Nat
  BY DEF Layout
<1>2. CASE Form(k) # "uri" /\ Setting(Name(k)) = n
  <2>1. k \in Given(n, j) /\ \A m \in Given(n, j) : m <= k /\ m \in Nat
    BY <1>1, <1>2 DEF Given
  <2>2. \A m \in Given(n, j) : (\A i \in Given(n, j) : i <= m) => m = k
    BY <1>1, <2>1
  <2>3. (CHOOSE m \in Given(n, j) : \A i \in Given(n, j) : i <= m) = k
    BY <2>1, <2>2, Zenon
  <2> QED
    BY <1>2, <2>1, <2>3, Zenon DEF MeantBefore
<1>3. CASE ~(Form(k) # "uri" /\ Setting(Name(k)) = n)
  <2>1. Given(n, j) = Given(n, k)
    BY <1>1, <1>3 DEF Given
  <2> QED
    BY <1>3, <2>1 DEF MeantBefore
<1> QED
  BY <1>2, <1>3

\* Behind the last item, that is all.
LEMMA MeantIsAll ==
  ASSUME Layout, NEW n
  PROVE  MeantBefore(n, Count + 1) = MeantSetting(n)
<1> DEFINE G == {k \in DOMAIN line.items : line.items[k].form # "uri"
                                           /\ Setting(line.items[k].name) = n}
<1>1. Given(n, Count + 1) = G
  <2>1. 1 .. (Count + 1) - 1 = 1 .. Count /\ DOMAIN line.items = 1 .. Count
    BY DEF Layout
  <2>2. Given(n, Count + 1) =
          {k \in 1 .. Count : line.items[k].form # "uri" /\ Setting(line.items[k].name) = n}
    <3>1. ASSUME NEW x PROVE x \in Given(n, Count + 1) <=>
                               /\ x \in 1 .. Count
                               /\ line.items[x].form # "uri"
                               /\ Setting(line.items[x].name) = n
      <4>1. x \in Given(n, Count + 1) <=>
              x \in 1 .. (Count + 1) - 1 /\ Form(x) # "uri" /\ Setting(Name(x)) = n
        BY DEF Given
      <4>2. Form(x) = line.items[x].form
        BY DEF Form
      <4>3. Name(x) = line.items[x].name
        BY DEF Name
      <4> QED
        BY <2>1, <4>1, <4>2, <4>3
    <3> QED
      BY <3>1
  <2> QED
    BY <2>1, <2>2, Zenon
<1>2. MeantSetting(n) = IF G = {} THEN Empty
                        ELSE ValueOf(CHOOSE k \in G : \A m \in G : m <= k)
  BY DEF MeantSetting, ValueOf, Form, Text
<1> HIDE DEF G
<1> QED
  BY <1>1, <1>2, Zenon DEF MeantBefore

\* The line does not change, nor what is said of it.
LEMMA ParseKept ==
  ASSUME line' = line
  PROVE  /\ \A k : Place(k)' = Place(k)
         /\ \A n, k : MeantBefore(n, k)' = MeantBefore(n, k)
         /\ Settings' = Settings /\ \A n : IsInt(n)' <=> IsInt(n)
         /\ flagArgs' = flagArgs /\ posArgs' = posArgs => \A n : Sorted(n)' <=> Sorted(n)
<1> USE ArgsKept
<1>1. \A k : Place(k)' = Place(k)
  BY DEF Place
<1>2. \A n, k : Given(n, k)' = Given(n, k) /\ ValueOf(k)' = ValueOf(k)
  BY DEF Given, ValueOf
<1>3. \A n, k : MeantBefore(n, k)' = MeantBefore(n, k)
  BY <1>2 DEF MeantBefore
<1>4. Settings' = Settings /\ \A n : IsInt(n)' <=> IsInt(n)
  BY DEF Settings, IsInt
<1>5. flagArgs' = flagArgs /\ posArgs' = posArgs => \A n : Sorted(n)' <=> Sorted(n)
  BY DEF Sorted
<1> QED
  BY <1>1, <1>3, <1>4, <1>5

\* The flags have settings.
LEMMA FlagNames ==
  ASSUME line.cmd \in {"scan", "diagnose"}
  PROVE  /\ \A name \in DOMAIN Flags(line.cmd) :
              /\ Setting(name) \in Settings
              /\ Flags(line.cmd)[name] \in {"int", "duration", "bool", "string"}
              /\ IsInt(Setting(name)) => Flags(line.cmd)[name] = "int"
         /\ line.cmd = "scan" => {"from", "to"} \subseteq Settings
         /\ line.cmd = "diagnose" =>
              {"address", "baud", "parity", "data", "stop"} \subseteq Settings
<1>1. CASE line.cmd = "scan"
  BY <1>1 DEF Settings, Setting, IsInt, Flags, ScanFlags
<1>2. CASE line.cmd = "diagnose"
  BY <1>2 DEF Settings, Setting, IsInt, Flags, DiagnoseFlags
<1> QED
  BY <1>1, <1>2

\* What a well-formed item is.
LEMMA ItemIsGood ==
  ASSUME Layout, WellFormedLine, NEW k \in 1 .. Count, Form(k) # "uri"
  PROVE  /\ Name(k) \in DOMAIN Flags(line.cmd)
         /\ Form(k) = "bool" => Flags(line.cmd)[Name(k)] = "bool"
         /\ Form(k) # "bool" => Parses(Flags(line.cmd)[Name(k)], Text(k))
         /\ Form(k) = "sep" => Flags(line.cmd)[Name(k)] # "bool"
<1>1. WellFormed(line.items[k])
  BY DEF Layout, WellFormedLine
<1> QED
  BY <1>1 DEF WellFormed, Form, Name, Text

\* flag.Parse starts behind splitArgs.
LEMMA ParseStarts ==
  ASSUME Layout, WellFormedLine, SplitInv, SplitDone
  PROVE  ParseInv'
<1>1. /\ at' = 1 /\ UNCHANGED <<line, flagArgs, posArgs, settings>>
      /\ Sorted(Len(args)) /\ settings = [n \in Settings |-> Empty]
  <2>1. at - 1 = Len(args) /\ at' = 1 /\ UNCHANGED <<line, flagArgs, posArgs, settings>>
    BY DEF SplitInv, SplitDone, Layout
  <2> QED
    BY <2>1 DEF SplitInv, Settings
<1>2. /\ TheUri \in 1 .. Count /\ Count \in Nat /\ First[1] = 0
      /\ UriAt = First[TheUri] + 1 /\ Form(TheUri) = "uri" /\ First[2] \in Nat
      /\ First[TheUri + 1] = First[TheUri] + 1
  <2>1. Count \in Nat /\ First[1] = 0 /\ First \in [1 .. Count + 1 -> Nat]
    BY DEF Layout
  <2>2. TheUri \in 1 .. Count /\ Form(TheUri) = "uri"
    BY OneUri
  <2>3. First[TheUri + 1] = First[TheUri] + 1
    BY <2>2, ItemArgs
  <2>4. 2 \in 1 .. Count + 1
    BY <2>1, <2>2
  <2>5. First[2] \in Nat
    BY <2>1, <2>4
  <2> QED
    BY <2>1, <2>2, <2>3, <2>5 DEF UriAt
<1>k. PICK k : k = IF TheUri = 1 THEN 2 ELSE 1
  OBVIOUS
<1>3. k \in 1 .. Count + 1 /\ \A m \in 1 .. k - 1 : m = TheUri
  BY <1>2, <1>k
<1>4. /\ Place(k) = 1
      /\ Taken(UriAt) => k <= TheUri
      /\ k # TheUri
  <2>1. CASE TheUri = 1
    <3>1. UriAt = 1
      BY <1>2, <2>1
    <3>2. ~Taken(UriAt)
      BY <3>1 DEF Taken
    <3> QED
      BY <1>2, <1>k, <2>1, <3>2 DEF Place
  <2>2. CASE TheUri # 1
    BY <1>2, <1>k, <2>2 DEF Place
  <2> QED
    BY <2>1, <2>2
<1>5. \A n : MeantBefore(n, k) = Empty
  <2>1. \A n : Given(n, k) = {}
    BY <1>2, <1>3 DEF Given
  <2> QED
    BY <2>1 DEF MeantBefore
<1>6. ParsedTo(k)'
  BY <1>1, <1>4, <1>5, ArgsKept, ParseKept DEF ParsedTo
<1> QED
  BY <1>1, <1>3, <1>6, ArgsKept, ParseKept DEF ParseInv

\* While there is a flag to parse, it is that of the next item.
LEMMA AtItem ==
  ASSUME Layout, WellFormedLine, Sorted(Len(args)), NEW k \in 1 .. Count + 1, ParsedTo(k), AtFlag
  PROVE  /\ k \in 1 .. Count /\ k # TheUri /\ Form(k) # "uri"
         /\ flagArgs[at].dash /\ flagArgs[at].name = Name(k) /\ Known
         /\ Type = Flags(line.cmd)[Name(k)]
         /\ flagArgs[at].eq <=> Form(k) = "eq"
         /\ Form(k) = "eq" => flagArgs[at].text = Text(k)
         /\ Form(k) = "sep" => HasNext /\ flagArgs[at + 1].text = Text(k)
<1> DEFINE u == TheUri
<1>1. /\ u \in 1 .. Count /\ Count \in Nat /\ Len(args) \in Nat /\ UriAt \in 1 .. Len(args)
      /\ Form(u) = "uri" /\ \A m \in 1 .. Count : Form(m) = "uri" <=> m = u
      /\ Len(args) = First[Count + 1]
  <2>1. /\ u \in 1 .. Count /\ UriAt \in 1 .. Len(args)
        /\ \A m \in 1 .. Count : Form(m) = "uri" <=> m = u
    BY OneUri
  <2>2. Count \in Nat /\ Len(args) \in Nat /\ Len(args) = First[Count + 1]
    BY DEF Layout
  <2> QED
    BY <2>1, <2>2
<1>2. /\ at = Place(k) /\ at <= Len(flagArgs) /\ flagArgs[at].dash
      /\ Taken(UriAt) => k <= u
      /\ k = u => Taken(UriAt)
  BY DEF ParsedTo, AtFlag
<1>3. k \in 1 .. Count
  <2> SUFFICES ASSUME k = Count + 1 PROVE FALSE
    BY <1>1
  <2>1. ~Taken(UriAt)
    BY <1>1, <1>2
  <2>2. at = First[Count + 1]
    BY <1>1, <1>2, <2>1 DEF Place
  <2>3. Len(flagArgs) = Len(args) - 1
    BY <1>1, <2>1 DEF Sorted
  <2> QED
    BY <1>1, <1>2, <2>2, <2>3
<1>4. /\ at \in 1 .. Len(flagArgs)
      /\ flagArgs[at] = args[First[k] + 1]
      /\ Form(k) = "sep" => at + 1 \in 1 .. Len(flagArgs) /\ flagArgs[at + 1] = args[First[k] + 2]
  BY <1>2, <1>3, FlagAt
<1>5. k # u
  <2>1. CASE k = u
    BY <1>2, <1>4, <2>1, OneUri DEF UriAt
  <2> QED
    BY <2>1
<1>6. Form(k) \in {"bool", "eq", "sep"}
  BY <1>1, <1>3, <1>5 DEF Layout
<1>7. Name(k) \in DOMAIN Flags(line.cmd)
  BY <1>3, <1>6, ItemIsGood
<1>8. flagArgs[at].name = Name(k)
  BY <1>3, <1>4, <1>6, ItemArgs
<1>9. /\ flagArgs[at].eq <=> Form(k) = "eq"
      /\ Form(k) = "eq" => flagArgs[at].text = Text(k)
  BY <1>3, <1>4, <1>6, ItemArgs
<1>10. ASSUME Form(k) = "sep" PROVE HasNext /\ flagArgs[at + 1].text = Text(k)
  <2>1. First[k] + 1 + 1 = First[k] + 2 /\ args[First[k] + 1 + 1] = ValueArg(Text(k))
    BY <1>3, <1>10, ItemArgs
  <2>2. ValueArg(Text(k)).text = Text(k)
    BY DEF ValueArg, Arg
  <2>3. args[First[k] + 2] = ValueArg(Text(k))
    BY <2>1
  <2> QED
    BY <1>4, <1>10, <2>2, <2>3 DEF HasNext
<1> QED
  BY <1>2, <1>3, <1>5, <1>6, <1>7, <1>8, <1>9, <1>10 DEF Known, Type

\* No well-formed item is an error of flag.Parse.
LEMMA NoParseError ==
  ASSUME Layout, WellFormedLine, ParseInv
  PROVE  ~ParseError
<1> SUFFICES ASSUME ParseError PROVE FALSE
  OBVIOUS
<1>1. PICK k \in 1 .. Count + 1 : ParsedTo(k)
  BY DEF ParseInv
<1>2. AtFlag /\ Sorted(Len(args))
  BY DEF ParseError, ParseInv
<1>3. /\ k \in 1 .. Count /\ Form(k) # "uri" /\ Known /\ Type = Flags(line.cmd)[Name(k)]
      /\ flagArgs[at].eq <=> Form(k) = "eq"
      /\ Form(k) = "eq" => flagArgs[at].text = Text(k)
      /\ Form(k) = "sep" => HasNext /\ flagArgs[at + 1].text = Text(k)
  BY <1>1, <1>2, AtItem
<1>4. Form(k) \in {"uri", "bool", "eq", "sep"}
  BY <1>3 DEF Layout
<1>5. /\ Form(k) = "bool" => Type = "bool"
      /\ Form(k) # "bool" => Parses(Type, Text(k))
  BY <1>3, ItemIsGood
<1> QED
  BY <1>3, <1>4, <1>5 DEF ParseError

\* Every step of flag.Parse gives the setting of one item its value.
LEMMA ParseKeeps ==
  ASSUME Layout, WellFormedLine, ParseInv, ParseBool \/ ParseEmbedded \/ ParseNext
  PROVE  ParseInv'
<1>1. PICK k \in 1 .. Count + 1 : ParsedTo(k)
  BY DEF ParseInv
<1>2. AtFlag /\ Sorted(Len(args)) /\ UNCHANGED <<line, flagArgs, posArgs>>
  BY DEF ParseBool, ParseEmbedded, ParseNext, ParseInv
<1>3. /\ k \in 1 .. Count /\ k # TheUri /\ Form(k) # "uri"
      /\ flagArgs[at].name = Name(k) /\ Type = Flags(line.cmd)[Name(k)]
      /\ flagArgs[at].eq <=> Form(k) = "eq"
      /\ Form(k) = "eq" => flagArgs[at].text = Text(k)
      /\ Form(k) = "sep" => HasNext /\ flagArgs[at + 1].text = Text(k)
  BY <1>1, <1>2, AtItem
<1>4. Form(k) \in {"bool", "eq", "sep"}
  BY <1>3 DEF Layout
<1>5. /\ Form(k) = "bool" => Type = "bool"
      /\ Form(k) = "sep" => Type # "bool"
      /\ Name(k) \in DOMAIN Flags(line.cmd)
  BY <1>3, ItemIsGood
<1> DEFINE w == IF Form(k) = "sep" THEN 2 ELSE 1
<1>6. /\ settings' = [settings EXCEPT ![Setting(Name(k))] = ValueOf(k)]
      /\ at' = at + w
  <2>1. CASE ParseBool
    BY <1>3, <1>4, <1>5, <2>1 DEF ParseBool, Set, ValueOf
  <2>2. CASE ParseEmbedded
    BY <1>3, <1>4, <1>5, <2>2 DEF ParseEmbedded, Set, ValueOf
  <2>3. CASE ParseNext
    BY <1>3, <1>4, <1>5, <2>3 DEF ParseNext, Set, ValueOf
  <2> QED
    BY <2>1, <2>2, <2>3
<1>7. PICK j \in k + 1 .. Count + 1 :
        /\ Place(j) = Place(k) + w
        /\ Taken(UriAt) => j <= TheUri
        /\ j = TheUri => Taken(UriAt)
        /\ \A m \in k + 1 .. j - 1 : Form(m) = "uri"
  BY <1>1, <1>3, PlaceNext DEF ParsedTo
<1> HIDE DEF w
<1>8. Setting(Name(k)) \in Settings
  BY <1>5, FlagNames DEF Layout
<1>9. DOMAIN settings' = Settings /\ at' = Place(j)
  BY <1>1, <1>6, <1>7 DEF ParsedTo
<1>10. ASSUME NEW n \in Settings
      PROVE  /\ settings'[n] = MeantBefore(n, j)
             /\ IsInt(n) => settings'[n] \in {Empty} \cup DOMAIN Ints
  <2>1. MeantBefore(n, j) = IF Setting(Name(k)) = n THEN ValueOf(k) ELSE MeantBefore(n, k)
    BY <1>3, <1>7, MeantGrows
  <2>2. /\ settings[n] = MeantBefore(n, k) /\ DOMAIN settings = Settings
        /\ IsInt(n) => settings[n] \in {Empty} \cup DOMAIN Ints
    BY <1>1 DEF ParsedTo
  <2>3. IsInt(n) /\ Setting(Name(k)) = n => ValueOf(k) \in DOMAIN Ints
    <3>1. IsInt(n) /\ Setting(Name(k)) = n => Type = "int"
      BY <1>3, <1>5, FlagNames DEF Layout
    <3>2. Form(k) # "bool" => Parses(Type, Text(k))
      BY <1>3, ItemIsGood
    <3> QED
      BY <1>5, <3>1, <3>2 DEF Parses, ValueOf
  <2> QED
    BY <1>6, <2>1, <2>2, <2>3
<1>11. ParsedTo(j)'
  BY <1>2, <1>7, <1>9, <1>10, ArgsKept, ParseKept DEF ParsedTo
<1>12. j \in 1 .. Count + 1
  BY <1>3, <1>7 DEF Layout
<1> QED
  BY <1>2, <1>11, <1>12, ArgsKept, ParseKept DEF ParseInv

\* What is known when flag.Parse is done.
Settled ==
  /\ posArgs = IF Taken(UriAt) THEN <<>> ELSE <<args[UriAt]>>
  /\ DOMAIN settings = Settings
  /\ ~Taken(UriAt) =>
       \A n \in Settings :
         /\ settings[n] = MeantSetting(n)
         /\ IsInt(n) => settings[n] \in {Empty} \cup DOMAIN Ints

\* Where flag.Parse stops, every flag has its value, and the URI is left over.
LEMMA ParseEnds ==
  ASSUME Layout, WellFormedLine, ParseInv, ~AtFlag, phase = "parse"
  PROVE  Settled
<1>1. PICK k \in 1 .. Count + 1 : ParsedTo(k)
  BY DEF ParseInv
<1>2. Sorted(Len(args)) /\ UriAt \in 1 .. Len(args) /\ Count \in Nat
  BY OneUri DEF ParseInv, Layout
<1>3. posArgs = IF Taken(UriAt) THEN <<>> ELSE <<args[UriAt]>>
  <2>1. ~(Len(args) < UriAt)
    BY <1>2 DEF Layout
  <2> QED
    BY <1>2, <2>1 DEF Sorted
<1>4. ASSUME ~Taken(UriAt) PROVE k = Count + 1
  <2> SUFFICES ASSUME k \in 1 .. Count PROVE FALSE
    BY <1>2
  <2>1. k # TheUri /\ at = Place(k)
    BY <1>1, <1>4 DEF ParsedTo
  <2>2. at \in 1 .. Len(flagArgs) /\ flagArgs[at] = args[First[k] + 1]
    BY <1>2, <1>4, <2>1, FlagAt
  <2>3. args[First[k] + 1].dash
    BY <2>1, OneUri, ItemArgs
  <2> QED
    BY <2>2, <2>3 DEF AtFlag
<1>5. ASSUME ~Taken(UriAt), NEW n \in Settings
      PROVE  /\ settings[n] = MeantSetting(n)
             /\ IsInt(n) => settings[n] \in {Empty} \cup DOMAIN Ints
  <2>1. k = Count + 1
    BY <1>4, <1>5
  <2>2. MeantBefore(n, Count + 1) = MeantSetting(n)
    BY MeantIsAll
  <2> QED
    BY <1>1, <2>1, <2>2 DEF ParsedTo
<1> QED
  BY <1>1, <1>3, <1>5 DEF Settled, ParsedTo

\* What the commands accept is what makes sense, if the URI is there.
LEMMA AcceptsSensible ==
  ASSUME Layout, WellFormedLine, Settled
  PROVE  /\ line.cmd = "scan" => (ScanAccepts <=> Sensible /\ ~Taken(UriAt))
         /\ line.cmd = "diagnose" => (DiagnoseAccepts <=> Sensible /\ ~Taken(UriAt))
<1>1. CASE Taken(UriAt)
  BY <1>1 DEF Settled, ScanAccepts, DiagnoseAccepts
<1>2. CASE ~Taken(UriAt)
  <2>1. posArgs # <<>> /\ posArgs[1] = args[UriAt] /\ posArgs[1].text = MeantUri
    BY <1>2, OneUri DEF Settled
  <2>2. ASSUME NEW n \in Settings, IsInt(n), NEW d \in Int
        PROVE  IntOf(n, d) = MeantInt(n, d) /\ IntOf(n, d) \in Int
    <3>1. settings[n] = MeantSetting(n) /\ settings[n] \in {Empty} \cup DOMAIN Ints
      BY <1>2, <2>2 DEF Settled
    <3>2. \A v \in DOMAIN Ints : Ints[v] \in Int
      BY LineAssumption
    <3> QED
      BY <3>1, <3>2 DEF IntOf, MeantInt
  <2>3. CASE line.cmd = "scan"
    <3>1. {"from", "to"} \subseteq Settings /\ IsInt("from") /\ IsInt("to")
      BY <2>3, FlagNames DEF IsInt, Flags, ScanFlags
    <3>2. /\ IntOf("from", 1) = MeantInt("from", 1) /\ IntOf("from", 1) \in Int
          /\ IntOf("to", 250) = MeantInt("to", 250) /\ IntOf("to", 250) \in Int
      BY <2>2, <3>1
    <3>3. PICK f, t \in Int :
            /\ f = IntOf("from", 1) /\ f = MeantInt("from", 1)
            /\ t = IntOf("to", 250) /\ t = MeantInt("to", 250)
      BY <3>2
    <3>4. ScanAccepts <=> 1 <= f /\ f <= t /\ t <= 250
      <4>1. ScanAccepts <=> f \in 1 .. 250 /\ t \in 1 .. 250 /\ f <= t
        BY ZenonT(60), <2>1, <3>3 DEF ScanAccepts
      <4> QED
        BY <3>3, <4>1
    <3>5. Sensible <=> 1 <= f /\ f <= t /\ t <= 250
      BY ZenonT(60), <2>3, <3>3 DEF Sensible
    <3> QED
      BY <1>2, <2>3, <3>4, <3>5
  <2>4. CASE line.cmd = "diagnose"
    <3>1. "address" \in Settings /\ IsInt("address")
      BY <2>4, FlagNames DEF IsInt, Flags, DiagnoseFlags
    <3>2. IntOf("address", 0) = MeantInt("address", 0)
      BY <2>2, <3>1
    <3> QED
      BY <1>2, <2>1, <2>4, <3>2 DEF DiagnoseAccepts, Sensible
  <2> QED
    BY <2>3, <2>4 DEF Layout
<1> QED
  BY <1>1, <1>2
-----------------------------------------------------------------------------
LineIInv ==
  /\ Layout
  /\ phase \in {"split", "parse", "check", "build", "exit", "refused", "run"}
  /\ WellFormedLine =>
       /\ phase = "split" => SplitInv
       /\ phase = "parse" => ParseInv
       /\ phase \in {"check", "build", "refused", "run"} => Settled
       /\ phase \in {"build", "run"} => Sensible /\ ~Taken(UriAt)
       /\ phase = "refused" => ~Sensible \/ Taken(UriAt)
       /\ phase # "exit"
  /\ phase = "build" => line.cmd = "diagnose"
  /\ phase = "run" /\ line.cmd = "diagnose" => configs = buildTestConfigs

\* The line is as it was typed, and nothing is split.
LEMMA InitLineIInv == LineInit => LineIInv
<1> SUFFICES ASSUME LineInit PROVE LineIInv
  OBVIOUS
<1>1. Layout
  BY LayoutHolds DEF LineInit
<1>2. WellFormedLine => SplitInv
  BY <1>1, SplitStarts DEF LineInit
<1> QED
  BY <1>1, <1>2 DEF LineIInv, LineInit, LineStart

\* Every step keeps it.
LEMMA NextLineIInv == LineIInv /\ [LineNext]_lineVars => LineIInv'
<1> SUFFICES ASSUME LineIInv, [LineNext]_lineVars PROVE LineIInv'
  OBVIOUS
<1>0. line' = line
  BY DEF LineNext, lineVars, SplitPositional, SplitFlagWithWord, SplitFlag, SplitDone,
     ParseBool, ParseEmbedded, ParseNext, ParseError, ParseDone, Check, Build
<1>k. /\ Layout' /\ (WellFormedLine' <=> WellFormedLine) /\ (Sensible' <=> Sensible)
      /\ (Taken(UriAt)' <=> Taken(UriAt))
      /\ (posArgs' = posArgs /\ settings' = settings => (Settled' <=> Settled))
      /\ (settings' = settings => buildTestConfigs' = buildTestConfigs)
  <2>1. Layout
    BY DEF LineIInv
  <2>2. Taken(UriAt)' <=> Taken(UriAt)
    BY <1>0, ArgsKept DEF Taken
  <2>3. posArgs' = posArgs /\ settings' = settings => (Settled' <=> Settled)
    BY <1>0, <2>2, ArgsKept, ParseKept DEF Settled
  <2>4. settings' = settings => buildTestConfigs' = buildTestConfigs
    BY DEF buildTestConfigs, Only, Parities, IntOf
  <2> QED
    BY <1>0, <2>1, <2>2, <2>3, <2>4, ArgsKept
<1>1. CASE SplitPositional \/ SplitFlagWithWord \/ SplitFlag
  <2>1. phase = "split" /\ phase' = "split"
    BY <1>1 DEF SplitPositional, SplitFlagWithWord, SplitFlag, Splitting
  <2>2. WellFormedLine => SplitInv'
    BY <1>1, <2>1, SplitKeeps DEF LineIInv
  <2> QED
    BY <1>k, <2>1, <2>2 DEF LineIInv
<1>2. CASE SplitDone
  <2>1. phase = "split" /\ phase' = "parse"
    BY <1>2 DEF SplitDone
  <2>2. WellFormedLine => ParseInv'
    BY <1>2, <2>1, ParseStarts DEF LineIInv
  <2> QED
    BY <1>k, <2>1, <2>2 DEF LineIInv
<1>3. CASE ParseBool \/ ParseEmbedded \/ ParseNext
  <2>1. phase = "parse" /\ phase' = "parse"
    BY <1>3 DEF ParseBool, ParseEmbedded, ParseNext, AtFlag
  <2>2. WellFormedLine => ParseInv'
    BY <1>3, <2>1, ParseKeeps DEF LineIInv
  <2> QED
    BY <1>k, <2>1, <2>2 DEF LineIInv
<1>4. CASE ParseError
  <2>1. phase = "parse" /\ phase' = "exit"
    BY <1>4 DEF ParseError, AtFlag
  <2>2. ~WellFormedLine
    BY <1>4, <2>1, NoParseError DEF LineIInv
  <2> QED
    BY <1>k, <2>1, <2>2 DEF LineIInv
<1>5. CASE ParseDone
  <2>1. /\ phase = "parse" /\ phase' = "check" /\ ~AtFlag
        /\ posArgs' = posArgs /\ settings' = settings
    BY <1>5 DEF ParseDone
  <2>2. WellFormedLine => Settled
    BY <2>1, ParseEnds DEF LineIInv
  <2> QED
    BY <1>k, <2>1, <2>2 DEF LineIInv
<1>6. CASE Check
  <2>1. /\ phase = "check" /\ posArgs' = posArgs /\ settings' = settings
        /\ line.cmd = "scan" => phase' = IF ScanAccepts THEN "run" ELSE "refused"
        /\ line.cmd = "diagnose" => phase' = IF DiagnoseAccepts THEN "build" ELSE "refused"
        /\ line.cmd \in {"scan", "diagnose"}
    BY <1>6 DEF Check, LineIInv, Layout
  <2>2. WellFormedLine => Settled
    BY <2>1 DEF LineIInv
  <2>3. WellFormedLine =>
          /\ phase' \in {"build", "run"} => Sensible /\ ~Taken(UriAt)
          /\ phase' = "refused" => ~Sensible \/ Taken(UriAt)
    BY <2>1, <2>2, AcceptsSensible DEF LineIInv
  <2> QED
    BY <1>0, <1>k, <2>1, <2>2, <2>3 DEF LineIInv
<1>7. CASE Build
  <2>1. /\ phase = "build" /\ phase' = "run" /\ configs' = buildTestConfigs
        /\ posArgs' = posArgs /\ settings' = settings
    BY <1>7 DEF Build
  <2> QED
    BY <1>k, <2>1 DEF LineIInv
<1>8. CASE UNCHANGED lineVars
  <2>1. UNCHANGED <<line, at, flagArgs, posArgs, settings, configs, phase>>
    BY <1>8 DEF lineVars
  <2>2. (SplitInv' <=> SplitInv) /\ (ParseInv' <=> ParseInv)
    <3>1. \A k : ParsedTo(k)' <=> ParsedTo(k)
      BY <2>1, ArgsKept, ParseKept DEF ParsedTo
    <3> QED
      BY <2>1, <3>1, ArgsKept, ParseKept DEF SplitInv, ParseInv
  <2> QED
    BY <1>k, <2>1, <2>2 DEF LineIInv
<1> QED
  BY <1>1, <1>2, <1>3, <1>4, <1>5, <1>6, <1>7, <1>8 DEF LineNext

\* The inductive invariant of a command line.
LEMMA LineInvariant == LineSpec => []LineIInv
BY InitLineIInv, NextLineIInv, PTL DEF LineSpec

\* splitArgs and flag.Parse, that do not know of one another, agree on every
\* well-formed line of scan and diagnose, however long.
THEOREM LineUnderstoodHolds == LineSpec => []LineUnderstood
<1>1. LineIInv => LineUnderstood
  <2> SUFFICES ASSUME LineIInv, WellFormedLine
               PROVE  /\ phase # "exit"
                      /\ phase = "run" =>
                           /\ Sensible /\ ~Swallowed
                           /\ \A n \in DOMAIN settings : settings[n] = MeantSetting(n)
                           /\ posArgs[1].text = MeantUri
                      /\ phase = "refused" => ~Sensible \/ Swallowed
    BY DEF LineUnderstood
  <2>1. Layout
    BY DEF LineIInv
  <2>2. Taken(UriAt) <=> Swallowed
    BY <2>1, TakenIsSwallowed
  <2>3. args[UriAt].text = MeantUri
    BY <2>1, OneUri
  <2>4. phase = "run" => Settled /\ Sensible /\ ~Taken(UriAt)
    BY DEF LineIInv
  <2> QED
    BY <2>2, <2>3, <2>4 DEF LineIInv, Settled
<1> QED
  BY <1>1, LineInvariant, PTL
-----------------------------------------------------------------------------
(* What diagnose tests.                                                    *)

\* The configurations of one baud rate, parity or number of data bits are lists,
\* and so is what the loops around them make of them.
LEMMA CombinedLists ==
  ASSUME NEW B, NEW P, NEW D, NEW S,
         NEW bauds, Lists(bauds, B), NEW parities, Lists(parities, P),
         NEW data, Lists(data, D), NEW stops, Lists(stops, S)
  PROVE  Lists(Combined(bauds, parities, data, stops),
               [baud : B, parity : P, data : D, stop : S])
<1> DEFINE Conf(b, p, d, s) == [baud |-> b, parity |-> p, data |-> d, stop |-> s]
           Inner(b, p, d) == [s \in DOMAIN stops |-> Conf(bauds[b], parities[p], data[d], stops[s])]
           Middle(b, p) == [d \in DOMAIN data |-> Inner(b, p, d)]
           Outer(b) == [p \in DOMAIN parities |-> FlattenSeq(Middle(b, p))]
           All == [b \in DOMAIN bauds |-> FlattenSeq(Outer(b))]
<1>b. /\ DOMAIN bauds = 1 .. Len(bauds) /\ Len(bauds) \in Nat
      /\ \A i \in 1 .. Len(bauds) : bauds[i] \in B
      /\ \A x \in B : \E i \in 1 .. Len(bauds) : x = bauds[i]
      /\ \A i, j \in 1 .. Len(bauds) : i # j => bauds[i] # bauds[j]
  BY ListElements DEF Lists
<1>p. /\ DOMAIN parities = 1 .. Len(parities) /\ Len(parities) \in Nat
      /\ \A i \in 1 .. Len(parities) : parities[i] \in P
      /\ \A x \in P : \E i \in 1 .. Len(parities) : x = parities[i]
      /\ \A i, j \in 1 .. Len(parities) : i # j => parities[i] # parities[j]
  BY ListElements DEF Lists
<1>d. /\ DOMAIN data = 1 .. Len(data) /\ Len(data) \in Nat
      /\ \A i \in 1 .. Len(data) : data[i] \in D
      /\ \A x \in D : \E i \in 1 .. Len(data) : x = data[i]
      /\ \A i, j \in 1 .. Len(data) : i # j => data[i] # data[j]
  BY ListElements DEF Lists
<1>s. /\ DOMAIN stops = 1 .. Len(stops) /\ Len(stops) \in Nat
      /\ \A i \in 1 .. Len(stops) : stops[i] \in S
      /\ \A x \in S : \E i \in 1 .. Len(stops) : x = stops[i]
      /\ \A i, j \in 1 .. Len(stops) : i # j => stops[i] # stops[j]
  BY ListElements DEF Lists
<1>1. ASSUME NEW b \in 1 .. Len(bauds), NEW p \in 1 .. Len(parities), NEW d \in 1 .. Len(data)
      PROVE  Lists(Inner(b, p, d), [baud : {bauds[b]}, parity : {parities[p]},
                                    data : {data[d]}, stop : S])
  <2> DEFINE X == [baud : {bauds[b]}, parity : {parities[p]}, data : {data[d]}, stop : S]
             n == Len(stops)
             Row(x) == Conf(bauds[b], parities[p], data[d], x)
             row == [s \in 1 .. n |-> Row(stops[s])]
  <2>1. Inner(b, p, d) = row
    BY <1>s
  <2>2. \A x \in S : Row(x) \in X
    OBVIOUS
  <2>3. \A x \in X : \E y \in S : x = Row(y)
    <3> SUFFICES ASSUME NEW x \in X PROVE x.stop \in S /\ x = Row(x.stop)
      OBVIOUS
    <3> QED
      OBVIOUS
  <2>4. \A x, y : Row(x) = Row(y) => x = y
    <3> SUFFICES ASSUME NEW x, NEW y, Row(x) = Row(y) PROVE x = y
      OBVIOUS
    <3>1. Row(x).stop = x /\ Row(y).stop = y
      OBVIOUS
    <3> QED
      BY <3>1
  <2> HIDE DEF X, Row
  <2>5. \A s \in 1 .. n : row[s] = Row(stops[s]) /\ row[s] \in X
    <3>1. \A s \in 1 .. n : stops[s] \in S
      BY <1>s
    <3> QED
      BY <2>2, <3>1
  <2>6. row \in Seq(X) /\ Len(row) = n
    BY <1>s, <2>5
  <2>7. ASSUME NEW x \in X PROVE \E s \in 1 .. n : row[s] = x
    <3>1. PICK y \in S : x = Row(y)
      BY <2>3
    <3>2. PICK s \in 1 .. n : y = stops[s]
      BY <1>s
    <3> QED
      BY <2>5, <3>1, <3>2
  <2>8. \A i, j \in 1 .. n : row[i] = row[j] => i = j
    BY <1>s, <2>4, <2>5
  <2> HIDE DEF row, Inner
  <2> QED
    BY <2>1, <2>6, <2>7, <2>8 DEF X, Lists
<1> HIDE DEF Inner
<1>2. ASSUME NEW b \in 1 .. Len(bauds), NEW p \in 1 .. Len(parities)
      PROVE  Lists(FlattenSeq(Middle(b, p)),
                   [baud : {bauds[b]}, parity : {parities[p]}, data : D, stop : S])
  <2> DEFINE n == Len(data)
             sets == [d \in 1 .. n |-> [baud : {bauds[b]}, parity : {parities[p]},
                                        data : {data[d]}, stop : S]]
             parts == Middle(b, p)
             X == [baud : {bauds[b]}, parity : {parities[p]}, data : D, stop : S]
  <2>1. n \in Nat /\ parts = [d \in 1 .. n |-> Inner(b, p, d)]
    BY <1>d
  <2>2. \A d \in 1 .. n : Lists(parts[d], sets[d])
    BY <1>1, <2>1
  <2>3. \A d, e \in 1 .. n : d # e => sets[d] \cap sets[e] = {}
    <3>1. \A d, e \in 1 .. n : d # e => data[d] # data[e]
      BY <1>d
    <3>2. \A d \in 1 .. n : \A x \in sets[d] : x.data = data[d]
      OBVIOUS
    <3> HIDE DEF sets
    <3> QED
      BY <3>1, <3>2
  <2>4. X = UNION {sets[d] : d \in 1 .. n}
    <3>1. ASSUME NEW x \in X PROVE \E d \in 1 .. n : x \in sets[d]
      <4>1. PICK d \in 1 .. n : x.data = data[d]
        BY <1>d
      <4>2. x \in sets[d]
        BY <4>1
      <4> QED
        BY <4>2
    <3>2. ASSUME NEW d \in 1 .. n PROVE sets[d] \subseteq X
      BY <1>d
    <3> HIDE DEF X, sets
    <3> QED
      BY <3>1, <3>2
  <2> HIDE DEF X, sets, n, Middle
  <2>5. DOMAIN parts = 1 .. n /\ parts = [d \in 1 .. n |-> parts[d]]
    BY <2>1
  <2>6. InLists(n, parts, sets, X)
    BY <2>1, <2>2, <2>3, <2>4, <2>5 DEF InLists
  <2> QED
    BY <2>6, FlattenLists DEF X
<1> HIDE DEF Middle
<1>3. ASSUME NEW b \in 1 .. Len(bauds)
      PROVE  Lists(FlattenSeq(Outer(b)), [baud : {bauds[b]}, parity : P, data : D, stop : S])
  <2> DEFINE n == Len(parities)
             sets == [p \in 1 .. n |-> [baud : {bauds[b]}, parity : {parities[p]},
                                        data : D, stop : S]]
             parts == Outer(b)
             X == [baud : {bauds[b]}, parity : P, data : D, stop : S]
  <2>1. n \in Nat /\ parts = [p \in 1 .. n |-> FlattenSeq(Middle(b, p))]
    BY <1>p
  <2>2. \A p \in 1 .. n : Lists(parts[p], sets[p])
    BY <1>2, <2>1
  <2>3. \A p, q \in 1 .. n : p # q => sets[p] \cap sets[q] = {}
    <3>1. \A p, q \in 1 .. n : p # q => parities[p] # parities[q]
      BY <1>p
    <3>2. \A p \in 1 .. n : \A x \in sets[p] : x.parity = parities[p]
      OBVIOUS
    <3> HIDE DEF sets
    <3> QED
      BY <3>1, <3>2
  <2>4. X = UNION {sets[p] : p \in 1 .. n}
    <3>1. ASSUME NEW x \in X PROVE \E p \in 1 .. n : x \in sets[p]
      <4>1. PICK p \in 1 .. n : x.parity = parities[p]
        BY <1>p
      <4>2. x \in sets[p]
        BY <4>1
      <4> QED
        BY <4>2
    <3>2. ASSUME NEW p \in 1 .. n PROVE sets[p] \subseteq X
      BY <1>p
    <3> HIDE DEF X, sets
    <3> QED
      BY <3>1, <3>2
  <2> HIDE DEF X, sets, n, Outer
  <2>5. DOMAIN parts = 1 .. n /\ parts = [p \in 1 .. n |-> parts[p]]
    BY <2>1
  <2>6. InLists(n, parts, sets, X)
    BY <2>1, <2>2, <2>3, <2>4, <2>5 DEF InLists
  <2> QED
    BY <2>6, FlattenLists DEF X
<1> HIDE DEF Outer
<1>4. Lists(FlattenSeq(All), [baud : B, parity : P, data : D, stop : S])
  <2> DEFINE n == Len(bauds)
             sets == [b \in 1 .. n |-> [baud : {bauds[b]}, parity : P, data : D, stop : S]]
             X == [baud : B, parity : P, data : D, stop : S]
  <2>1. n \in Nat /\ All = [b \in 1 .. n |-> FlattenSeq(Outer(b))]
    BY <1>b
  <2>2. \A b \in 1 .. n : Lists(All[b], sets[b])
    BY <1>3, <2>1
  <2>3. \A b, c \in 1 .. n : b # c => sets[b] \cap sets[c] = {}
    <3>1. \A b, c \in 1 .. n : b # c => bauds[b] # bauds[c]
      BY <1>b
    <3>2. \A b \in 1 .. n : \A x \in sets[b] : x.baud = bauds[b]
      OBVIOUS
    <3> HIDE DEF sets
    <3> QED
      BY <3>1, <3>2
  <2>4. X = UNION {sets[b] : b \in 1 .. n}
    <3>1. ASSUME NEW x \in X PROVE \E b \in 1 .. n : x \in sets[b]
      <4>1. PICK b \in 1 .. n : x.baud = bauds[b]
        BY <1>b
      <4>2. x \in sets[b]
        BY <4>1
      <4> QED
        BY <4>2
    <3>2. ASSUME NEW b \in 1 .. n PROVE sets[b] \subseteq X
      BY <1>b
    <3> HIDE DEF X, sets
    <3> QED
      BY <3>1, <3>2
  <2> HIDE DEF X, sets, n, All
  <2>5. DOMAIN All = 1 .. n /\ All = [b \in 1 .. n |-> All[b]]
    BY <2>1
  <2>6. InLists(n, All, sets, X)
    BY <2>1, <2>2, <2>3, <2>4, <2>5 DEF InLists
  <2> QED
    BY <2>6, FlattenLists DEF X
<1>5. Combined(bauds, parities, data, stops) = FlattenSeq(All)
  BY DEF Combined, All, Outer, Middle, Inner
<1> HIDE DEF All
<1> QED
  BY <1>4, <1>5

\* A flag that narrows its values down leaves a list.
LEMMA OnlyLists ==
  ASSUME Layout, Settled, ~Taken(UriAt), NEW n \in Settings, IsInt(n),
         NEW X, NEW all, Lists(all, X)
  PROVE  Lists(Only(n, all), Narrowed(n, X))
<1>1. settings[n] = MeantSetting(n)
  BY DEF Settled
<1>2. IntOf(n, 0) = MeantInt(n, 0)
  BY <1>1 DEF IntOf, MeantInt
<1>3. \A x : Lists(<<x>>, {x})
  BY DEF Lists
<1> QED
  BY <1>2, <1>3 DEF Only, Narrowed

\* The tables of diagnose name every value once.
LEMMA TablesAreLists ==
  /\ Lists(AllBauds, ToSet(AllBauds))
  /\ Lists(<<8, 7>>, {7, 8})
  /\ Lists(<<1, 2>>, {1, 2})
  /\ Lists(<<"E", "N", "O">>, {"E", "N", "O"})
<1>1. Lists(AllBauds, ToSet(AllBauds))
  <2>1. /\ AllBauds \in Seq(Nat) /\ Len(AllBauds) = 10 /\ DOMAIN AllBauds = 1 .. 10
        /\ AllBauds[1] = 300 /\ AllBauds[2] = 600 /\ AllBauds[3] = 1200
        /\ AllBauds[4] = 2400 /\ AllBauds[5] = 4800 /\ AllBauds[6] = 9600
        /\ AllBauds[7] = 19200 /\ AllBauds[8] = 38400 /\ AllBauds[9] = 57600
        /\ AllBauds[10] = 115200
    BY DEF AllBauds
  <2>2. ASSUME NEW i \in 1 .. 10, NEW j \in 1 .. 10, i < j PROVE AllBauds[i] < AllBauds[j]
    <3>1. ASSUME NEW k \in 1 .. 10
          PROVE  \/ (k = 1 /\ AllBauds[k] = 300) \/ (k = 2 /\ AllBauds[k] = 600)
                 \/ (k = 3 /\ AllBauds[k] = 1200) \/ (k = 4 /\ AllBauds[k] = 2400)
                 \/ (k = 5 /\ AllBauds[k] = 4800) \/ (k = 6 /\ AllBauds[k] = 9600)
                 \/ (k = 7 /\ AllBauds[k] = 19200) \/ (k = 8 /\ AllBauds[k] = 38400)
                 \/ (k = 9 /\ AllBauds[k] = 57600) \/ (k = 10 /\ AllBauds[k] = 115200)
      <4>1. k = 1 \/ k = 2 \/ k = 3 \/ k = 4 \/ k = 5 \/ k = 6 \/ k = 7 \/ k = 8 \/ k = 9 \/ k = 10
        OBVIOUS
      <4>2. /\ k = 1 => AllBauds[k] = 300
            /\ k = 2 => AllBauds[k] = 600
            /\ k = 3 => AllBauds[k] = 1200
            /\ k = 4 => AllBauds[k] = 2400
            /\ k = 5 => AllBauds[k] = 4800
            /\ k = 6 => AllBauds[k] = 9600
            /\ k = 7 => AllBauds[k] = 19200
            /\ k = 8 => AllBauds[k] = 38400
            /\ k = 9 => AllBauds[k] = 57600
            /\ k = 10 => AllBauds[k] = 115200
        BY <2>1
      <4> QED
        BY ONLY <4>1, <4>2
    <3>2. PICK a, b \in Nat : a = AllBauds[i] /\ b = AllBauds[j]
      BY <3>1
    <3> QED
      BY <2>2, <3>1, <3>2
  <2>3. \A i \in 1 .. 10 : AllBauds[i] \in ToSet(AllBauds)
    BY <2>1 DEF ToSet
  <2>4. \A x \in ToSet(AllBauds) : \E i \in 1 .. 10 : AllBauds[i] = x
    BY <2>1 DEF ToSet
  <2>5. AllBauds \in Seq(ToSet(AllBauds))
    <3> DEFINE X == ToSet(AllBauds)
    <3>1. \A i \in 1 .. 10 : AllBauds[i] \in X
      BY <2>3
    <3>2. PICK f : f = AllBauds
      OBVIOUS
    <3>3. f = [i \in 1 .. 10 |-> f[i]]
      BY <2>1, <3>2
    <3> HIDE DEF X
    <3>4. f \in Seq(X)
      BY ONLY <3>1, <3>2, <3>3
    <3> QED
      BY <3>2, <3>4 DEF X
  <2>6. \A i, j \in 1 .. 10 : AllBauds[i] = AllBauds[j] => i = j
    <3>1. \A i \in 1 .. 10 : AllBauds[i] \in Nat
      BY SMTT(60), <2>1
    <3> QED
      BY <2>2, <3>1
  <2> QED
    BY <2>1, <2>4, <2>5, <2>6 DEF Lists
<1>2. Lists(<<8, 7>>, {7, 8})
  BY DEF Lists
<1>3. Lists(<<1, 2>>, {1, 2})
  BY DEF Lists
<1>4. Lists(<<"E", "N", "O">>, {"E", "N", "O"})
  BY DEF Lists
<1> QED
  BY <1>1, <1>2, <1>3, <1>4

\* Whatever the arguments of diagnose and their order, it tests every
\* combination of the README's matrix that they leave open, none that they rule
\* out, each once and in the mode it is reported for.
THEOREM ConfigsTestedHolds == LineSpec => []ConfigsTested
<1>1. LineIInv => ConfigsTested
  <2> SUFFICES ASSUME LineIInv, WellFormedLine, line.cmd = "diagnose", phase = "run"
               PROVE  /\ LeftOfMatrix \subseteq ToSet(configs)
                      /\ \A c \in ToSet(configs) : LeftOpen(c)
                      /\ Cardinality(ToSet(configs)) = Len(configs)
                      /\ \A i \in DOMAIN configs :
                           configs[i].parity \in {"E", "N", "O"} /\ configs[i].stop \in {1, 2} =>
                             ModeOf(i) = NamedMode(configs[i])
    BY DEF ConfigsTested
  <2>1. Layout /\ Settled /\ ~Taken(UriAt) /\ configs = buildTestConfigs
    BY DEF LineIInv
  <2>2. /\ {"baud", "data", "stop", "parity"} \subseteq Settings
        /\ IsInt("baud") /\ IsInt("data") /\ IsInt("stop")
    BY DEF Settings, IsInt, Flags, DiagnoseFlags
  <2>3. /\ Lists(Only("baud", AllBauds), Narrowed("baud", ToSet(AllBauds)))
        /\ Lists(Only("data", <<8, 7>>), Narrowed("data", {7, 8}))
        /\ Lists(Only("stop", <<1, 2>>), Narrowed("stop", {1, 2}))
    BY <2>1, <2>2, OnlyLists, TablesAreLists
  <2>4. Lists(Parities, MeantParities)
    <3>1. settings["parity"] = MeantSetting("parity")
      BY <2>1, <2>2 DEF Settled
    <3>2. \A x : Lists(<<x>>, {x})
      BY DEF Lists
    <3> QED
      BY <3>1, <3>2, TablesAreLists DEF Parities, MeantParities
  <2>5. Lists(configs, [baud : Narrowed("baud", ToSet(AllBauds)), parity : MeantParities,
                        data : Narrowed("data", {7, 8}), stop : Narrowed("stop", {1, 2})])
    BY <2>1, <2>3, <2>4, CombinedLists DEF buildTestConfigs
  <2>6. ASSUME NEW i \in DOMAIN configs,
               configs[i].parity \in {"E", "N", "O"}, configs[i].stop \in {1, 2}
        PROVE  ModeOf(i) = NamedMode(configs[i])
    BY <2>6 DEF ModeOf, OpenMode, NamedMode, parityStringToEnum, stopBitsIntToEnum
  <2>7. /\ ToSet(configs) =
             [baud : Narrowed("baud", ToSet(AllBauds)), parity : MeantParities,
              data : Narrowed("data", {7, 8}), stop : Narrowed("stop", {1, 2})]
        /\ Cardinality(ToSet(configs)) = Len(configs)
    BY <2>5, ListCardinality
  <2>8. Narrowed("baud", DocumentedRates) \subseteq Narrowed("baud", ToSet(AllBauds))
    <3>1. DocumentedRates \subseteq ToSet(AllBauds)
      <4>1. /\ AllBauds[1] = 300 /\ AllBauds[2] = 600 /\ AllBauds[3] = 1200
            /\ AllBauds[4] = 2400 /\ AllBauds[5] = 4800 /\ AllBauds[6] = 9600
            /\ DOMAIN AllBauds = 1 .. 10
        BY DEF AllBauds
      <4> QED
        BY <4>1 DEF DocumentedRates, ToSet
    <3> QED
      BY <3>1 DEF Narrowed
  <2>9. LeftOfMatrix \subseteq ToSet(configs)
    BY <2>7, <2>8 DEF LeftOfMatrix
  <2>10. ASSUME NEW c \in ToSet(configs) PROVE LeftOpen(c)
    BY <2>7, <2>10 DEF LeftOpen, Narrowed
  <2> QED
    BY <2>6, <2>7, <2>9, <2>10
<1> QED
  BY <1>1, LineInvariant, PTL
-----------------------------------------------------------------------------
(* Release.                                                                *)

ReleaseTypeOK ==
  /\ sys \in System
  /\ at0 \in System
  /\ nth \in Nat \ {0}
  /\ removed \in Nat
  /\ task \in {"stat", "remove", "open", "procs", "sudo", "services", "done"}
  /\ task \in {"stat", "remove"} => nth <= Len(LockPaths) + 1
  /\ task = "remove" => nth <= Len(LockPaths)
  /\ success \in BOOLEAN

\* Nothing but what is counted on: tools stay, processes and files only go.
OnlyLess ==
  /\ sys.held \subseteq at0.held
  /\ sys.sudo = at0.sudo
  /\ \A f \in Files : at0.locks[f] = "absent" => sys.locks[f] = "absent"

\* What may be left of a file once its name has been dealt with.
OutOfReach(f) == sys.locks[f] \in {"absent", "stuck"} \cup (IF sys.sudo THEN {} ELSE {"root"})

\* The names that have been dealt with, and the count.  A file that vanishes
\* while it is being removed is counted if sudo rm -f says so, and it is among
\* the files gone already.
Counted ==
  /\ \A i \in 1 .. Len(LockPaths) :
       task \notin {"stat", "remove"} \/ i < nth => OutOfReach(FileOf[LockPaths[i]])
  /\ removed <= Cardinality(Gone)
  /\ task = "remove" => /\ at0.locks[File] # "absent"
                        /\ removed < Cardinality(Gone \cup {File})

\* What the steps so far have to say for the summary.
Tools == sys.lsof \/ sys.fuser
Summed ==
  /\ task \notin {"stat", "remove"} /\ ~success => removed = 0
  /\ task \notin {"stat", "remove", "open"} /\ ~success => (sys.opens => at0.held # {})
  /\ task = "done" /\ ~success => sys.active = 0
  /\ named \subseteq at0.held
  /\ task = "sudo" /\ Tools => sys.held \cap sys.seen = {}
  /\ task \in {"services", "done"} =>
       (Tools /\ sys.held \cap (IF sys.sudo THEN Holders ELSE sys.seen) # {} =>
          named # {} /\ success)

ReleaseIInv == ReleaseTypeOK /\ OnlyLess /\ Counted /\ Summed
-----------------------------------------------------------------------------
\* There are only finitely many files, so that those gone can be counted.
LEMMA FilesFinite == IsFiniteSet(Files)
<1> DEFINE I == 1 .. Len(LockPaths)
           g == [i \in I |-> FileOf[LockPaths[i]]]
<1>1. IsFiniteSet(I)
  BY ReleaseAssumption, FS_Interval
<1>2. g \in Surjection(I, Files)
  BY DEF Surjection, Files
<1> QED
  BY <1>1, <1>2, FS_Surjection

\* What is gone is a finite set, with a number of elements.
LEMMA GoneFinite == IsFiniteSet(Gone) /\ Cardinality(Gone) \in Nat
BY FilesFinite, FS_Subset, FS_CardinalityType DEF Gone

\* What a step does to the files: one of them is gone, and the other fields of
\* the system stay.
LEMMA FileGoes ==
  ASSUME ReleaseTypeOK, OnlyLess, NEW f \in Files,
         sys' = [sys EXCEPT !.locks[f] = "absent"], UNCHANGED at0
  PROVE  /\ sys' \in System /\ OnlyLess'
         /\ sys'.locks[f] = "absent"
         /\ \A g \in Files \ {f} : sys'.locks[g] = sys.locks[g]
         /\ sys'.sudo = sys.sudo /\ sys'.held = sys.held /\ sys'.seen = sys.seen
         /\ sys'.opens = sys.opens /\ sys'.lsof = sys.lsof /\ sys'.fuser = sys.fuser
         /\ sys'.active = sys.active
         /\ \A g \in Files : OutOfReach(g) => OutOfReach(g)'
         /\ Gone' = IF at0.locks[f] = "absent" THEN Gone ELSE Gone \cup {f}
<1>1. /\ sys' \in System
      /\ sys'.locks[f] = "absent"
      /\ \A g \in Files \ {f} : sys'.locks[g] = sys.locks[g]
      /\ sys'.sudo = sys.sudo /\ sys'.held = sys.held /\ sys'.seen = sys.seen
      /\ sys'.opens = sys.opens /\ sys'.lsof = sys.lsof /\ sys'.fuser = sys.fuser
      /\ sys'.active = sys.active
  BY DEF ReleaseTypeOK, System
<1>2. OnlyLess'
  BY <1>1 DEF OnlyLess
<1>3. \A g \in Files : OutOfReach(g) => OutOfReach(g)'
  BY <1>1 DEF OutOfReach
<1>4. Gone' = IF at0.locks[f] = "absent" THEN Gone ELSE Gone \cup {f}
  BY <1>1 DEF Gone, OnlyLess
<1> QED
  BY <1>1, <1>2, <1>3, <1>4

\* Nothing has been done at the start.
LEMMA InitReleaseIInv == ReleaseInit => ReleaseIInv
<1> SUFFICES ASSUME ReleaseInit PROVE ReleaseIInv
  OBVIOUS
<1> USE DEF ReleaseInit, ReleaseStart
<1>1. ReleaseTypeOK
  <2>1. sys \in System /\ at0 \in System
    BY ReleaseAssumption
  <2>2. nth \in Nat \ {0} /\ nth <= Len(LockPaths) + 1 /\ removed \in Nat
    BY ReleaseAssumption
  <2> QED
    BY <2>1, <2>2 DEF ReleaseTypeOK
<1>2. OnlyLess
  BY DEF OnlyLess
<1>3. Counted
  BY ReleaseAssumption, GoneFinite DEF Counted
<1>4. Summed
  BY DEF Summed
<1> QED
  BY <1>1, <1>2, <1>3, <1>4 DEF ReleaseIInv

\* Every step of release and of the other programs keeps the invariant.
LEMMA NextReleaseIInv == ReleaseIInv /\ [ReleaseNext]_releaseVars => ReleaseIInv'
<1> SUFFICES ASSUME ReleaseIInv, [ReleaseNext]_releaseVars PROVE ReleaseIInv'
  OBVIOUS
<1> USE ReleaseAssumption DEF ReleaseIInv
<1>0. IsFiniteSet(Gone) /\ Cardinality(Gone) \in Nat
  BY GoneFinite
<1>1. CASE Stat
  <2>1. UNCHANGED <<sys, at0, removed, named, success>> /\ task = "stat" /\ nth <= Len(LockPaths)
    BY <1>1 DEF Stat
  <2>2. Gone' = Gone /\ (\A f \in Files : OutOfReach(f)' = OutOfReach(f))
    BY <2>1 DEF Gone, OutOfReach
  <2>3. File \in Files
    BY <2>1 DEF File, Files, ReleaseTypeOK
  <2>4. ReleaseTypeOK' /\ OnlyLess'
    BY <1>1, <2>1 DEF Stat, ReleaseTypeOK, OnlyLess
  <2>5. Counted'
    <3>1. CASE sys.locks[File] # "absent"
      <4>1. task' = "remove" /\ nth' = nth
        BY <1>1, <3>1 DEF Stat
      <4>2. File' = File
        BY <4>1 DEF File
      <4>3. File \notin Gone /\ at0.locks[File] # "absent"
        BY <2>3, <3>1 DEF Gone, OnlyLess
      <4>4. Cardinality(Gone \cup {File}) = Cardinality(Gone) + 1
        BY <1>0, <4>3, FS_AddElement
      <4> QED
        BY <1>0, <2>1, <2>2, <4>1, <4>2, <4>3, <4>4 DEF Counted, Files, ReleaseTypeOK
    <3>2. CASE sys.locks[File] = "absent"
      <4>1. task' = "stat" /\ nth' = nth + 1
        BY <1>1, <2>1, <3>2 DEF Stat
      <4>2. OutOfReach(FileOf[LockPaths[nth]])
        BY <3>2 DEF OutOfReach, File
      <4> QED
        BY <2>1, <2>2, <4>1, <4>2 DEF Counted, Files, ReleaseTypeOK
    <3> QED
      BY <3>1, <3>2
  <2>6. Summed'
    BY <1>1, <2>1 DEF Stat, Summed, Tools
  <2> QED
    BY <2>4, <2>5, <2>6
<1>2. CASE RemoveLock
  <2>1. /\ task = "remove" /\ task' = "stat" /\ nth' = nth + 1
        /\ UNCHANGED <<at0, named, success>> /\ nth <= Len(LockPaths)
    BY <1>2 DEF RemoveLock, ReleaseTypeOK
  <2>2. File \in Files /\ at0.locks[File] # "absent"
    BY <2>1 DEF File, Files, ReleaseTypeOK, Counted
  <2>3. CASE Removable
    <3>1. removed' = removed + 1 /\ sys' = [sys EXCEPT !.locks[File] = "absent"]
      BY <1>2, <2>3 DEF RemoveLock
    <3>2. /\ sys' \in System /\ OnlyLess'
          /\ sys'.locks[File] = "absent"
          /\ \A g \in Files : OutOfReach(g) => OutOfReach(g)'
          /\ Gone' = Gone \cup {File}
      BY <2>1, <2>2, <3>1, FileGoes
    <3>3. \A i \in 1 .. Len(LockPaths) : i = nth => OutOfReach(FileOf[LockPaths[i]])'
      <4> SUFFICES ASSUME NEW i \in 1 .. Len(LockPaths), i = nth
                   PROVE  OutOfReach(FileOf[LockPaths[i]])'
        OBVIOUS
      <4>1. sys'.locks[FileOf[LockPaths[i]]] = "absent"
        BY <3>2 DEF File
      <4> QED
        BY <4>1 DEF OutOfReach
    <3>4. ReleaseTypeOK'
      BY <2>1, <3>1, <3>2 DEF ReleaseTypeOK
    <3>5. Counted'
      <4>1. Cardinality(Gone \cup {File}) \in Nat
        BY SMTT(60), <1>0, GoneFinite, FS_AddElement
      <4>2. removed' <= Cardinality(Gone')
        BY <2>1, <3>1, <3>2, <4>1 DEF Counted, ReleaseTypeOK
      <4>3. \A i \in 1 .. Len(LockPaths) : i < nth' => OutOfReach(FileOf[LockPaths[i]])'
        <5> SUFFICES ASSUME NEW i \in 1 .. Len(LockPaths), i < nth'
                     PROVE  OutOfReach(FileOf[LockPaths[i]])'
          OBVIOUS
        <5>1. FileOf[LockPaths[i]] \in Files
          BY DEF Files
        <5>2. CASE i < nth
          BY <3>2, <5>1, <5>2 DEF Counted
        <5>3. CASE i = nth
          BY <3>3, <5>3
        <5> QED
          BY <2>1, <5>2, <5>3 DEF ReleaseTypeOK
      <4> QED
        BY <2>1, <4>2, <4>3 DEF Counted
    <3>6. Summed'
      BY <2>1 DEF Summed
    <3> QED
      BY <3>2, <3>4, <3>5, <3>6
  <2>4. CASE ~Removable
    <3>1. UNCHANGED <<sys, removed>>
      BY <1>2, <2>4 DEF RemoveLock
    <3>2. OutOfReach(FileOf[LockPaths[nth]])
      BY <2>2, <2>4 DEF Removable, OutOfReach, File, ReleaseTypeOK, System
    <3>3. Gone' = Gone /\ (\A f : OutOfReach(f)' = OutOfReach(f))
      BY <2>1, <3>1 DEF Gone, OutOfReach
    <3>4. Counted'
      BY <2>1, <3>1, <3>2, <3>3 DEF Counted, ReleaseTypeOK
    <3> QED
      BY <2>1, <3>1, <3>4 DEF ReleaseTypeOK, OnlyLess, Summed
  <2> QED
    BY <2>3, <2>4
<1>3. CASE LocksDone
  <2>1. /\ task = "stat" /\ nth > Len(LockPaths) /\ task' = "open"
        /\ success' = (removed > 0) /\ UNCHANGED <<sys, at0, nth, removed, named>>
    BY <1>3 DEF LocksDone
  <2>2. Gone' = Gone /\ (\A f : OutOfReach(f)' = OutOfReach(f))
    BY <2>1 DEF Gone, OutOfReach
  <2>3. Counted'
    BY <2>1, <2>2 DEF Counted, ReleaseTypeOK
  <2> DEFINE Found == removed > 0
  <2>4. ~Found => removed = 0
    BY DEF ReleaseTypeOK
  <2>5. success' = Found /\ removed' = removed
    BY <2>1
  <2> HIDE DEF Found
  <2>6. ~success' => removed' = 0
    BY <2>4, <2>5
  <2>7. Summed'
    BY <2>1, <2>6 DEF Summed
  <2> QED
    BY <2>1, <2>3, <2>7 DEF ReleaseTypeOK, OnlyLess
<1>4. CASE OpenAndClose \/ FindProcesses \/ FindProcessesWithSudo \/ CheckServices
  <2>1. /\ UNCHANGED <<sys, at0, nth, removed>>
        /\ task \notin {"stat", "remove"} /\ task' \notin {"stat", "remove"}
    BY <1>4 DEF OpenAndClose, FindProcesses, FindProcessesWithSudo, CheckServices
  <2>2. Gone' = Gone /\ (\A f : OutOfReach(f)' = OutOfReach(f))
    BY <2>1 DEF Gone, OutOfReach
  <2>3. Counted' /\ OnlyLess'
    BY <2>1, <2>2 DEF Counted, OnlyLess
  <2>8. Tools' = Tools
    BY <2>1 DEF Tools
  <2>4. CASE OpenAndClose
    <3>1. task = "open" /\ task' = "procs" /\ named' = named
          /\ success' = (success \/ (sys.opens /\ sys.held = {}))
      BY <2>4 DEF OpenAndClose
    <3>2. sys.opens \in BOOLEAN /\ success \in BOOLEAN
      BY DEF ReleaseTypeOK, System
    <3>3. ~success' => ~success /\ (sys.opens => sys.held # {})
      BY <3>1, <3>2
    <3>4. Summed'
      BY <2>1, <3>1, <3>3 DEF OnlyLess, Summed
    <3> QED
      BY <2>1, <2>3, <3>1, <3>2, <3>4 DEF ReleaseTypeOK
  <2>5. CASE FindProcesses
    <3>1. ReleaseTypeOK'
      BY <2>1, <2>5 DEF FindProcesses, ReleaseTypeOK
    <3>2. Summed'
      BY <2>1, <2>5 DEF FindProcesses, Listed, Summed, Tools, OnlyLess, ReleaseTypeOK
    <3> QED
      BY <2>3, <3>1, <3>2
  <2>6. CASE FindProcessesWithSudo
    <3>1. ReleaseTypeOK'
      BY <2>1, <2>6 DEF FindProcessesWithSudo, ReleaseTypeOK
    <3>2. Summed'
      BY <2>1, <2>6 DEF FindProcessesWithSudo, Listed, Summed, Tools, OnlyLess, ReleaseTypeOK
    <3> QED
      BY <2>3, <3>1, <3>2
  <2>7. CASE CheckServices
    <3>1. task = "services" /\ task' = "done" /\ named' = named
      BY <2>1, <2>7 DEF CheckServices
    <3> DEFINE Active == sys.active > 0
    <3>2. ~Active => sys.active = 0
      BY DEF ReleaseTypeOK, System
    <3>3. success' = (success \/ Active)
      BY <2>7 DEF CheckServices
    <3> HIDE DEF Active
    <3>4. (~success' => ~success /\ sys.active = 0) /\ (success => success') /\ success' \in BOOLEAN
      BY <3>2, <3>3
    <3>5. Summed'
      BY <2>8, <2>1, <3>1, <3>4 DEF Summed
    <3> QED
      BY <2>1, <2>3, <3>1, <3>4, <3>5 DEF ReleaseTypeOK
  <2> QED
    BY <1>4, <2>4, <2>5, <2>6, <2>7
<1>5. ASSUME NEW p \in Holders, Quit(p) PROVE ReleaseIInv'
  <2>1. /\ UNCHANGED <<at0, nth, removed, named, task, success>>
        /\ sys' = [sys EXCEPT !.held = @ \ {p}]
    BY <1>5 DEF Quit
  <2>2. /\ sys' \in System /\ sys'.held \subseteq sys.held /\ sys'.locks = sys.locks
        /\ sys'.sudo = sys.sudo /\ sys'.seen = sys.seen
        /\ sys'.opens = sys.opens /\ sys'.lsof = sys.lsof /\ sys'.fuser = sys.fuser
        /\ sys'.active = sys.active
    BY <2>1 DEF ReleaseTypeOK, System
  <2>3. File' = File /\ Gone' = Gone /\ (\A f : OutOfReach(f)' = OutOfReach(f))
    BY <2>1, <2>2 DEF File, Gone, OutOfReach
  <2>4. ReleaseTypeOK' /\ OnlyLess'
    BY <2>1, <2>2 DEF ReleaseTypeOK, OnlyLess
  <2>5. Counted'
    BY <2>1, <2>3 DEF Counted
  <2>6. Summed'
    BY <2>1, <2>2 DEF Summed, Tools
  <2> QED
    BY <2>4, <2>5, <2>6
<1>6. ASSUME NEW f \in Files, Unlock(f) PROVE ReleaseIInv'
  <2>1. /\ UNCHANGED <<at0, nth, removed, named, task, success>>
        /\ sys' = [sys EXCEPT !.locks[f] = "absent"] /\ sys.locks[f] # "absent"
    BY <1>6 DEF Unlock
  <2>2. /\ sys' \in System /\ OnlyLess'
        /\ sys'.sudo = sys.sudo /\ sys'.held = sys.held /\ sys'.seen = sys.seen
        /\ sys'.opens = sys.opens /\ sys'.lsof = sys.lsof /\ sys'.fuser = sys.fuser
        /\ sys'.active = sys.active
        /\ \A g \in Files : OutOfReach(g) => OutOfReach(g)'
        /\ Gone' = Gone \cup {f}
    BY <2>1, FileGoes DEF OnlyLess
  <2>3. ReleaseTypeOK'
    BY <2>1, <2>2 DEF ReleaseTypeOK
  <2>4. Counted'
    <3>1. File' = File
      BY <2>1 DEF File
    <3>2. IsFiniteSet(Gone \cup {f}) /\ IsFiniteSet((Gone \cup {f}) \cup {File})
      BY GoneFinite, FS_AddElement
    <3>3. Cardinality(Gone) <= Cardinality(Gone \cup {f})
      BY <3>2, FS_Subset
    <3>4. Cardinality(Gone \cup {File}) <= Cardinality((Gone \cup {f}) \cup {File})
      BY <3>2, FS_Subset
    <3>5. /\ Cardinality(Gone \cup {f}) \in Nat /\ Cardinality((Gone \cup {f}) \cup {File}) \in Nat
          /\ Cardinality(Gone \cup {File}) \in Nat
      BY <3>2, GoneFinite, FS_AddElement, FS_CardinalityType
    <3>6. removed' <= Cardinality(Gone')
      BY <1>0, <2>1, <2>2, <3>3, <3>5 DEF Counted, ReleaseTypeOK
    <3>7. task' = "remove" => /\ at0'.locks[File'] # "absent"
                              /\ removed' < Cardinality(Gone' \cup {File'})
      BY <2>1, <2>2, <3>1, <3>4, <3>5 DEF Counted, ReleaseTypeOK
    <3>8. \A i \in 1 .. Len(LockPaths) :
            task' \notin {"stat", "remove"} \/ i < nth' => OutOfReach(FileOf[LockPaths[i]])'
      BY <2>1, <2>2 DEF Counted, Files
    <3> QED
      BY <3>6, <3>7, <3>8 DEF Counted
  <2>5. Summed'
    BY <2>1, <2>2 DEF Summed, Tools
  <2> QED
    BY <2>2, <2>3, <2>4, <2>5
<1>7. CASE UNCHANGED releaseVars
  <2>1. Gone' = Gone /\ File' = File /\ (\A f : OutOfReach(f)' = OutOfReach(f))
    BY <1>7 DEF releaseVars, Gone, File, OutOfReach
  <2>2. Counted'
    BY <1>7, <2>1 DEF releaseVars, Counted
  <2> QED
    BY <1>7, <2>2 DEF releaseVars, ReleaseTypeOK, OnlyLess, Summed, Tools
<1> QED
  BY <1>1, <1>2, <1>3, <1>4, <1>5, <1>6, <1>7 DEF ReleaseNext

\* The inductive invariant of release.
LEMMA ReleaseInvariant == ReleaseSpec => []ReleaseIInv
BY InitReleaseIInv, NextReleaseIInv, PTL DEF ReleaseSpec

\* removeLockFiles counts no file that was not there, and none twice, and
\* leaves only what is out of its reach.
THEOREM ReleaseCounts == ReleaseSpec => []LocksAccounted
<1>1. ReleaseIInv => LocksAccounted
  BY DEF ReleaseIInv, Counted, LocksAccounted, OutOfReach, Files
<1> QED
  BY <1>1, ReleaseInvariant, PTL

\* The summary admits failure only with cause, and no process that keeps the
\* port stays unmentioned when a tool shows it.
THEOREM ReleaseVerdict == ReleaseSpec => []VerdictHonest
<1>1. ReleaseIInv => VerdictHonest
  BY DEF ReleaseIInv, Summed, Tools, VerdictHonest
<1> QED
  BY <1>1, ReleaseInvariant, PTL
=============================================================================

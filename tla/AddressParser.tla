---------------------------- MODULE AddressParser ---------------------------
(***************************************************************************)
(* How cat and set read an address, KIND/ADDR[:COUNT][@FORMAT], and set    *)
(* the pair ADDRESS=VALUE around it: runSet and ParseReadSpec.  A text is  *)
(* a sequence of tokens; a separator is a token, and so is a run of        *)
(* digits, of letters.  Blanks around the address are left out.            *)
(***************************************************************************)
EXTENDS Integers, Sequences, SequencesExt

CONSTANTS
  Typed,    \* inputs: records [cmd, tokens]
  Decimals  \* function from tokens that are decimal numbers to their values

\* A separator is no number; and of what was typed, it is known that it is a
\* sequence of tokens.
ASSUME AddressAssumption ==
  /\ Typed \subseteq [cmd : {"cat", "set"}, tokens : Seq(STRING)]
  /\ DOMAIN Decimals \subseteq STRING \ {"/", ":", "@", "$", "="}
  /\ Decimals \in [DOMAIN Decimals -> Nat]

VARIABLES
  typed,      \* what the user typed
  addrText,   \* the part of it that is the address
  valueText,  \* the part of it that is the value, for set
  parsed,     \* the address, or NoSpec
  progress    \* "pair", "address", "done", or "error"

addrVars == <<typed, addrText, valueText, parsed, progress>>

NoSpec == [kind |-> "", addr |-> 0, count |-> 0, format |-> <<>>]

Kinds == {"coil", "discrete", "holding", "input", "mbus"}

\* Where a token first occurs, 0 if it does not.
Index(s, tok) == SelectInSeq(s, LAMBDA t : t = tok)
Before(s, k) == SubSeq(s, 1, k - 1)
After(s, k) == SubSeq(s, k + 1, Len(s))

\* strconv.ParseUint(s, 10, 16)
IsUint16(s) == Len(s) = 1 /\ s[1] \in DOMAIN Decimals /\ Decimals[s[1]] < 65536
-----------------------------------------------------------------------------
\* The format begins after the first @, or else after the first $.
FormatMark(s) == IF Index(s, "@") # 0 THEN Index(s, "@") ELSE Index(s, "$")

\* What is in front of the format, and behind the kind.
Numbers(s) == LET rest == After(s, Index(s, "/"))
                  mark == FormatMark(rest)
              IN IF mark = 0 THEN rest ELSE Before(rest, mark)
Format(s) == LET rest == After(s, Index(s, "/"))
                 mark == FormatMark(rest)
             IN IF mark = 0 THEN <<>> ELSE After(rest, mark)

AddrPart(s) == LET n == Numbers(s)
               IN IF Index(n, ":") = 0 THEN n ELSE Before(n, Index(n, ":"))

\* Variant with a bug: strings.Split, of which only the first two parts count.
CountPart_Split(s) ==
  LET n == Numbers(s)
      rest == After(n, Index(n, ":"))
  IN IF Index(n, ":") = 0 THEN <<>>
     ELSE IF Index(rest, ":") = 0 THEN rest ELSE Before(rest, Index(rest, ":"))

CountPart(s) == LET n == Numbers(s)
                IN IF Index(n, ":") = 0 THEN <<>> ELSE After(n, Index(n, ":"))

AddrStart ==
  /\ progress = IF typed.cmd = "set" THEN "pair" ELSE "address"
  /\ addrText = IF typed.cmd = "set" THEN <<>> ELSE typed.tokens
  /\ valueText = <<>>
  /\ parsed = NoSpec

AddrInit == typed \in Typed /\ AddrStart

\* runSet: the first = ends the address.
SplitPair ==
  /\ progress = "pair"
  /\ LET mark == Index(typed.tokens, "=")
     IN IF mark = 0
        THEN /\ progress' = "error"
             /\ UNCHANGED <<addrText, valueText>>
        ELSE /\ progress' = "address"
             /\ addrText' = Before(typed.tokens, mark)
             /\ valueText' = After(typed.tokens, mark)
  /\ UNCHANGED <<typed, parsed>>

IsReadSpec(s) ==
  /\ Index(s, "/") = 2 /\ s[1] \in Kinds
  /\ Index(Numbers(s), ":") # 0 => IsUint16(CountPart(s))
  /\ IsUint16(AddrPart(s))

ReadSpecOf(s) ==
  [kind |-> s[1],
   addr |-> Decimals[AddrPart(s)[1]],
   count |-> IF CountPart(s) = <<>> THEN 0 ELSE Decimals[CountPart(s)[1]],
   format |-> Format(s)]

ParseReadSpec ==
  /\ progress = "address"
  /\ IsReadSpec(addrText)
  /\ parsed' = ReadSpecOf(addrText)
  /\ progress' = "done"
  /\ UNCHANGED <<typed, addrText, valueText>>

RefuseSpec ==
  /\ progress = "address"
  /\ ~IsReadSpec(addrText)
  /\ progress' = "error"
  /\ UNCHANGED <<typed, addrText, valueText, parsed>>

AddrNext == SplitPair \/ ParseReadSpec \/ RefuseSpec

AddrSpec == AddrInit /\ [][AddrNext]_addrVars
-----------------------------------------------------------------------------
(* Properties.                                                             *)

Tokens(x) == {<<d>> : d \in {d \in DOMAIN Decimals : Decimals[d] = x}}

\* The texts of p by one grammar for all kinds: that of the README for Modbus,
\* KIND/ADDR[:COUNT][@FORMAT], with a $ in place of the @ as a comment in the
\* code has it.  A format that is given after a $ has no @.
CountTexts(p) ==
  {<<":">> \o c : c \in Tokens(p.count)} \cup (IF p.count = 0 THEN {<<>>} ELSE {})
FormatTexts(p) ==
  {<<"@">> \o p.format}
  \cup (IF Index(p.format, "@") = 0 THEN {<<"$">> \o p.format} ELSE {})
  \cup (IF p.format = <<>> THEN {<<>>} ELSE {})
IsTextOf(s, p) ==
  \E a \in Tokens(p.addr), c \in CountTexts(p), f \in FormatTexts(p) :
    s = <<p.kind, "/">> \o a \o c \o f

\* What is typed for p: value is what set writes, and a format that set can be
\* given has no =.
IsTypedFor(s, p, value) ==
  IF typed.cmd = "cat" THEN value = <<>> /\ IsTextOf(s, p)
  ELSE \E k \in DOMAIN s :
         /\ s[k] = "=" /\ value = After(s, k)
         /\ Index(p.format, "=") = 0 /\ IsTextOf(Before(s, k), p)

\* The numbers in a text that an address may hold.
Uint16s(s) == {Decimals[d] : d \in {d \in DOMAIN Decimals \cap ToSet(s) : Decimals[d] < 65536}}

\* ParseReadSpec and the splitting at = read that grammar, all of it and nothing
\* else: what is accepted is the text of what is returned, no token of it left
\* out or counted twice, whatever the order of the separators in it; and what is
\* refused has no reading at all.  (For mbus the README has another grammar, with
\* addresses from 1 to 250 and no count: the code takes mbus/257 and mbus/7:3.)
SpecExact ==
  /\ progress = "done" => IsTypedFor(typed.tokens, parsed, valueText)
  /\ progress = "error" =>
       \A k \in Kinds \cap ToSet(typed.tokens), a \in Uint16s(typed.tokens),
          c \in {0} \cup Uint16s(typed.tokens),
          f \in SubSeqs(typed.tokens), v \in Suffixes(typed.tokens) :
         ~IsTypedFor(typed.tokens, [kind |-> k, addr |-> a, count |-> c, format |-> f], v)
=============================================================================

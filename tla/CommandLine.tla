----------------------------- MODULE CommandLine ----------------------------
(***************************************************************************)
(* How pc scan and pc diagnose read their arguments, and which serial      *)
(* modes diagnose tests because of them.  Go's flag package                *)
(* stops at the first argument that is no flag, so splitArgs of main.go    *)
(* sorts the arguments first, without knowing which flags take a value;    *)
(* then flag.Parse goes over what splitArgs took for flags and values; and *)
(* then the command checks its settings before it opens the port.          *)
(*                                                                         *)
(* An argument is [dash, eq, name, text]: whether it begins with a dash,   *)
(* whether it holds an = as well; the name of the flag; and the text that  *)
(* counts as a value (what follows the =, else the whole argument).        *)
(***************************************************************************)
EXTENDS Integers, Sequences, SequencesExt, FiniteSets

CONSTANTS
  Lines,      \* inputs: records [cmd, items], items as typed by a user:
              \* [form, name, val], with form "uri", "bool", "eq", "sep"
  Ints,       \* the values that are numbers: function from text to number
  Durations,  \* the values that are durations: set of texts
  Uris,       \* function from text to [scheme, path]
  Upper       \* the texts with small letters: function to what they are in capitals

ASSUME LineAssumption ==
  /\ \A l \in Lines :
       /\ l.cmd \in {"scan", "diagnose"}
       /\ l.items \in Seq([form : {"uri", "bool", "eq", "sep"}, name : STRING, val : STRING])
  /\ \A v \in DOMAIN Ints : Ints[v] \in Int

VARIABLES
  line,      \* what the user typed
  at,         \* the next argument
  flagArgs,  \* what splitArgs takes for flags and their values
  posArgs,   \* the other arguments
  settings,  \* the values of the flags, Empty if not given
  configs,   \* what diagnose tests, in order
  phase      \* "split", "parse", "check", "build", or how it ended: "exit" (by
             \* the flag package), "refused" (by the command), "run"

lineVars == <<line, at, flagArgs, posArgs, settings, configs, phase>>

Empty == ""  \* the empty text, which also stands for a flag that is not given

\* The arguments that the shell makes of an item.
Arg(dash, eq, name, text) == [dash |-> dash, eq |-> eq, name |-> name, text |-> text]
ValueArg(v) == Arg(v \in DOMAIN Ints /\ Ints[v] < 0, FALSE, v, v)
ArgsOf(it) == CASE it.form = "uri" -> <<Arg(FALSE, FALSE, Empty, it.val)>>
                [] it.form = "bool" -> <<Arg(TRUE, FALSE, it.name, it.name)>>
                [] it.form = "eq" -> <<Arg(TRUE, TRUE, it.name, it.val)>>
                [] it.form = "sep" -> <<Arg(TRUE, FALSE, it.name, it.name), ValueArg(it.val)>>
args == FlattenSeq([k \in DOMAIN line.items |-> ArgsOf(line.items[k])])
-----------------------------------------------------------------------------
(* The flags of the two commands.  q is another name of quiet.             *)

ScanFlags ==
  [from |-> "int", to |-> "int", timeout |-> "duration",
   json |-> "bool", quiet |-> "bool", q |-> "bool"]
DiagnoseFlags ==
  [address |-> "int", baud |-> "int", parity |-> "string", data |-> "int",
   stop |-> "int", timeout |-> "duration", json |-> "bool", quiet |-> "bool",
   q |-> "bool"]
Flags(cmd) == IF cmd = "scan" THEN ScanFlags ELSE DiagnoseFlags
Setting(name) == IF name = "q" THEN "quiet" ELSE name

IntOf(name, default) == IF settings[name] = Empty THEN default ELSE Ints[settings[name]]

\* What flag.Parse takes for a value of a type.
Parses(type, v) == CASE type = "int" -> v \in DOMAIN Ints
                     [] type = "duration" -> v \in Durations
                     [] type = "bool" -> v \in {"true", "false"}
                     [] type = "string" -> TRUE
-----------------------------------------------------------------------------
LineStart ==
  /\ at = 1
  /\ flagArgs = <<>>
  /\ posArgs = <<>>
  /\ settings = [n \in DOMAIN Flags(line.cmd) \ {"q"} |-> Empty]
  /\ configs = <<>>
  /\ phase = "split"

LineInit == line \in Lines /\ LineStart

(* splitArgs.                                                              *)

Splitting == phase = "split" /\ at <= Len(args)
FollowedByWord == ~args[at].eq /\ at + 1 <= Len(args) /\ ~args[at + 1].dash

SplitPositional ==
  /\ Splitting /\ ~args[at].dash
  /\ posArgs' = Append(posArgs, args[at])
  /\ at' = at + 1
  /\ UNCHANGED <<line, flagArgs, settings, configs, phase>>

\* Variant with a bug: the value is not skipped.
SplitFlagWithWord_Twice ==
  /\ Splitting /\ args[at].dash /\ FollowedByWord
  /\ flagArgs' = flagArgs \o <<args[at], args[at + 1]>>
  /\ at' = at + 1
  /\ UNCHANGED <<line, posArgs, settings, configs, phase>>

\* The word after a flag is taken for its value, whatever the flag.
SplitFlagWithWord ==
  /\ Splitting /\ args[at].dash /\ FollowedByWord
  /\ flagArgs' = flagArgs \o <<args[at], args[at + 1]>>
  /\ at' = at + 2
  /\ UNCHANGED <<line, posArgs, settings, configs, phase>>

SplitFlag ==
  /\ Splitting /\ args[at].dash /\ ~FollowedByWord
  /\ flagArgs' = Append(flagArgs, args[at])
  /\ at' = at + 1
  /\ UNCHANGED <<line, posArgs, settings, configs, phase>>

SplitDone ==
  /\ phase = "split" /\ at > Len(args)
  /\ phase' = "parse"
  /\ at' = 1
  /\ UNCHANGED <<line, flagArgs, posArgs, settings, configs>>

(* flag.Parse, on flagArgs.                                                *)

AtFlag == phase = "parse" /\ at <= Len(flagArgs) /\ flagArgs[at].dash
Known == flagArgs[at].name \in DOMAIN Flags(line.cmd)
Type == Flags(line.cmd)[flagArgs[at].name]
HasNext == at + 1 <= Len(flagArgs)
Set(v) == settings' = [settings EXCEPT ![Setting(flagArgs[at].name)] = v]

ParseBool ==
  /\ AtFlag /\ Known /\ Type = "bool"
  /\ flagArgs[at].eq => Parses("bool", flagArgs[at].text)
  /\ Set(IF flagArgs[at].eq THEN flagArgs[at].text ELSE "true")
  /\ at' = at + 1
  /\ UNCHANGED <<line, flagArgs, posArgs, configs, phase>>

ParseEmbedded ==
  /\ AtFlag /\ Known /\ Type # "bool" /\ flagArgs[at].eq
  /\ Parses(Type, flagArgs[at].text)
  /\ Set(flagArgs[at].text)
  /\ at' = at + 1
  /\ UNCHANGED <<line, flagArgs, posArgs, configs, phase>>

\* The next argument is the value, be it a flag or not.
ParseNext ==
  /\ AtFlag /\ Known /\ Type # "bool" /\ ~flagArgs[at].eq
  /\ HasNext /\ Parses(Type, flagArgs[at + 1].text)
  /\ Set(flagArgs[at + 1].text)
  /\ at' = at + 2
  /\ UNCHANGED <<line, flagArgs, posArgs, configs, phase>>

\* ExitOnError: the program ends here.
ParseError ==
  /\ AtFlag
  /\ \/ ~Known
     \/ Known /\ flagArgs[at].eq /\ ~Parses(Type, flagArgs[at].text)
     \/ /\ Known /\ ~flagArgs[at].eq /\ Type # "bool"
        /\ HasNext => ~Parses(Type, flagArgs[at + 1].text)
  /\ phase' = "exit"
  /\ UNCHANGED <<line, at, flagArgs, posArgs, settings, configs>>

\* At the end, or at the first argument that is no flag.  What comes after it
\* is not looked at.
ParseDone ==
  /\ phase = "parse" /\ ~AtFlag
  /\ phase' = "check"
  /\ UNCHANGED <<line, at, flagArgs, posArgs, settings, configs>>

(* The checks of runScan and runDiagnose.                                  *)

ScanAccepts ==
  /\ IntOf("from", 1) \in 1 .. 250
  /\ IntOf("to", 250) \in 1 .. 250
  /\ IntOf("from", 1) <= IntOf("to", 250)
  /\ posArgs # <<>>

DiagnoseAccepts ==
  /\ IntOf("address", 0) \in 1 .. 250
  /\ posArgs # <<>>
  /\ posArgs[1].text \in DOMAIN Uris
  /\ Uris[posArgs[1].text].scheme = "mbus+rtu"
  /\ Uris[posArgs[1].text].path # Empty

Check ==
  /\ phase = "check"
  /\ phase' = CASE line.cmd = "scan" /\ ScanAccepts -> "run"
                [] line.cmd = "diagnose" /\ DiagnoseAccepts -> "build"
                [] OTHER -> "refused"
  /\ UNCHANGED <<line, at, flagArgs, posArgs, settings, configs>>

(* What diagnose tests.                                                    *)

ToUpper(text) == IF text \in DOMAIN Upper THEN Upper[text] ELSE text

AllBauds == <<300, 600, 1200, 2400, 4800, 9600, 19200, 38400, 57600, 115200>>
Only(name, all) == IF IntOf(name, 0) > 0 THEN <<IntOf(name, 0)>> ELSE all

\* The four loops, the last one innermost.
Combined(bauds, parities, data, stops) ==
  FlattenSeq([b \in DOMAIN bauds |-> FlattenSeq([p \in DOMAIN parities |->
    FlattenSeq([d \in DOMAIN data |-> [s \in DOMAIN stops |->
      [baud |-> bauds[b], parity |-> parities[p], data |-> data[d], stop |-> stops[s]]]])])])

Parities == IF settings["parity"] # Empty THEN <<ToUpper(settings["parity"])>>
            ELSE <<"E", "N", "O">>

\* Variant with a bug: one of the flags does not narrow the test down.
buildTestConfigs_AllStops ==
  Combined(Only("baud", AllBauds), Parities, Only("data", <<8, 7>>), <<1, 2>>)

buildTestConfigs ==
  Combined(Only("baud", AllBauds), Parities, Only("data", <<8, 7>>), Only("stop", <<1, 2>>))

Build ==
  /\ phase = "build"
  /\ configs' = buildTestConfigs
  /\ phase' = "run"
  /\ UNCHANGED <<line, at, flagArgs, posArgs, settings>>

\* The first configuration is set by Open, which is given it as a URI ...
OpenMode(c) ==
  [baud |-> c.baud, data |-> c.data,
   parity |-> CASE c.parity \in {"O", "ODD"} -> "odd"
                [] c.parity \in {"N", "NONE"} -> "none"
                [] OTHER -> "even",
   stop |-> IF c.stop = 2 THEN 2 ELSE 1]

parityStringToEnum(p) ==
  CASE p \in {"E", "EVEN"} -> "even"
    [] p \in {"O", "ODD"} -> "odd"
    [] p \in {"N", "NONE"} -> "none"
    [] OTHER -> "even"
stopBitsIntToEnum(n) == IF n = 2 THEN 2 ELSE 1

\* ... and the others by ReconfigureSerial.
ModeOf(i) ==
  LET c == configs[i]
  IN IF i = 1 THEN OpenMode(c)
     ELSE [baud |-> c.baud, data |-> c.data, parity |-> parityStringToEnum(c.parity),
           stop |-> stopBitsIntToEnum(c.stop)]

LineNext ==
  \/ SplitPositional \/ SplitFlagWithWord \/ SplitFlag \/ SplitDone
  \/ ParseBool \/ ParseEmbedded \/ ParseNext \/ ParseError \/ ParseDone
  \/ Check \/ Build

LineSpec == LineInit /\ [][LineNext]_lineVars
-----------------------------------------------------------------------------
(* Properties.                                                             *)

\* Every flag is known, and has a value of its type, or none if it is boolean.
WellFormed(it) ==
  \/ it.form = "uri"
  \/ /\ it.name \in DOMAIN Flags(line.cmd)
     /\ IF it.form = "bool" THEN Flags(line.cmd)[it.name] = "bool"
        ELSE /\ Parses(Flags(line.cmd)[it.name], it.val)
             /\ it.form = "sep" => Flags(line.cmd)[it.name] # "bool"

UriItems == {k \in DOMAIN line.items : line.items[k].form = "uri"}

WellFormedLine ==
  /\ \A k \in DOMAIN line.items : WellFormed(line.items[k])
  /\ \E k \in UriItems : UriItems = {k}

\* What the user meant: of several values for one flag, the last.
MeantSetting(n) ==
  LET given == {k \in DOMAIN line.items :
                  line.items[k].form # "uri" /\ Setting(line.items[k].name) = n}
  IN IF given = {} THEN Empty
     ELSE LET k == CHOOSE k \in given : \A m \in given : m <= k
          IN IF line.items[k].form = "bool" THEN "true" ELSE line.items[k].val
MeantInt(n, default) == IF MeantSetting(n) = Empty THEN default ELSE Ints[MeantSetting(n)]
MeantUri == line.items[CHOOSE k \in UriItems : TRUE].val

\* What the commands can do.
Sensible ==
  IF line.cmd = "scan"
  THEN 1 <= MeantInt("from", 1) /\ MeantInt("from", 1) <= MeantInt("to", 250)
       /\ MeantInt("to", 250) <= 250
  ELSE /\ MeantInt("address", 0) \in 1 .. 250
       /\ MeantUri \in DOMAIN Uris
       /\ Uris[MeantUri].scheme = "mbus+rtu" /\ Uris[MeantUri].path # Empty

\* The URI stands right after a boolean flag, or after a negative number.
Swallowed ==
  \E k \in UriItems :
    /\ k > 1
    /\ \/ line.items[k - 1].form = "bool"
       \/ line.items[k - 1].form = "sep" /\ ValueArg(line.items[k - 1].val).dash

\* splitArgs and flag.Parse, that do not know of one another, agree on every
\* well-formed line: what runs, runs with the URI and the settings that were
\* typed, all of them; nothing ends in an error of the flag package; and a line
\* that makes sense is refused only if splitArgs has taken its URI for a value.
LineUnderstood ==
  WellFormedLine =>
    /\ phase # "exit"
    /\ phase = "run" =>
         /\ Sensible /\ ~Swallowed
         /\ \A n \in DOMAIN settings : settings[n] = MeantSetting(n)
         /\ posArgs[1].text = MeantUri
    /\ phase = "refused" => ~Sensible \/ Swallowed

\* The comment of splitArgs and an example of usage: flags can appear before or
\* after the URI (main.go:14).
FlagsAnywhere == WellFormedLine /\ Sensible => phase # "refused"

\* What a flag leaves to be tested: nothing but its value, if it is positive.
Narrowed(name, all) == IF MeantInt(name, 0) > 0 THEN {MeantInt(name, 0)} ELSE all
MeantParities == IF MeantSetting("parity") # Empty THEN {ToUpper(MeantSetting("parity"))}
                 ELSE {"E", "N", "O"}

\* The mode that the name of a configuration stands for (README.adoc:205).
NamedMode(c) ==
  [baud |-> c.baud, data |-> c.data, stop |-> c.stop,
   parity |-> CASE c.parity = "E" -> "even" [] c.parity = "O" -> "odd"
                [] c.parity = "N" -> "none"]

\* The rates and the matrix of the README (README.adoc:217-223), and what the
\* flags leave of it.
DocumentedRates == {300, 600, 1200, 2400, 4800, 9600}
LeftOfMatrix ==
  [baud : Narrowed("baud", DocumentedRates), parity : MeantParities,
   data : Narrowed("data", {7, 8}), stop : Narrowed("stop", {1, 2})]

\* Nothing that the flags, or the matrix without them, rule out; for the rates
\* only the flag does: the code tests four rates more than the README has, and
\* so 120 combinations, not 72, if no flag narrows them down.
LeftOpen(c) ==
  /\ MeantInt("baud", 0) > 0 => c.baud = MeantInt("baud", 0)
  /\ c.parity \in MeantParities
  /\ c.data \in Narrowed("data", {7, 8})
  /\ c.stop \in Narrowed("stop", {1, 2})

\* Whatever the order of the arguments, diagnose tests every combination of the
\* README's matrix that the flags leave open, none that the flags rule out and
\* none twice, and each in the mode that is reported for it, though the first is
\* set in another way than the rest.
\* (Values that the README does not list are tested as 1 stop bit and as even
\* parity, under the name that the user gave.)
ConfigsTested ==
  WellFormedLine /\ line.cmd = "diagnose" /\ phase = "run" =>
    /\ LeftOfMatrix \subseteq ToSet(configs)
    /\ \A c \in ToSet(configs) : LeftOpen(c)
    /\ Cardinality(ToSet(configs)) = Len(configs)
    /\ \A i \in DOMAIN configs :
         configs[i].parity \in {"E", "N", "O"} /\ configs[i].stop \in {1, 2} =>
           ModeOf(i) = NamedMode(configs[i])

=============================================================================

------------------------------- MODULE MCText -------------------------------
(* Conversions and searches, for TLC: the inputs of each are its initial   *)
(* states, chosen by the focus; where a module also has processes, their   *)
(* steps follow.                                                           *)
EXTENDS Numbers, Calendar, FormattedText, Strings, CommandLine, Floats,
        FloatText, Unwind, Contexts

VARIABLE focus

textVars == <<sample, printVars, scanVars, optVars>>

(* Calendar: the days around the turns of months, years, leap years and    *)
(* centuries, with days of eight seconds.                                  *)
MCDays == (0..3) \cup (57..61) \cup (364..367) \cup {-1, -4, -5, -400}
          \cup (785..792) \cup (1094..1098) \cup (11015..11018) \cup (10955..10958)
          \cup (11320..11325) \cup (47480..47484) \cup (47538..47544)
          \cup (47845..47850)
MCMoments == {8 * d + s : d \in MCDays, s \in 0..7} \cup (0..40)
             \cup {-3, 8 * 50000 - 1, 8 * 50000}
MCFields == {f \in [sec : {0, 1, 5, 16}, min : {0, 3, 2200}, hour : {0, 1, 2},
                    mday : {1, 29, 32, 367}, mon : {0, 1, 11, 13},
                    year : {1970, 1999, 2000, 2099, 2100, 2200}] :
               f.year = 2200 => f.mon > 11}
MCZone == << <<10, 2>>, <<20, 3>>, <<30, 2>> >>
MCOffsets == <<0, 3, -2>>

MCPrintFormats ==
  {<<"x", "%", "%", "x">>, <<"%", "-", "*", "d", "x">>,
   <<"%", "0", "2", ".", "1", "l", "l", "d">>, <<"%", ".", "*", "s">>,
   <<"%", "l", "s", "%">>, <<"%", "2", ".">>, <<"x", "%", "n", "%", "q">>,
   <<"%", "-", "0", " ", "+", "d">>, <<"%", "%", "%", "d">>,
   <<"%", ".", "0", "c", "%", "l", "c">>, <<"x", "%", "'", "d">>, <<"%", "-", "c">>,
   <<"%", "1", "$", "d">>, <<"%", ".", "*", "0", "$", "d">>, <<"%", "h", "s">>}
MCArguments == <<-2, 0, 3, -1>>

Other(k, w) == [kind |-> k, what |-> w, assign |-> TRUE, width |-> 0]
Conv(w, n) == [kind |-> "conv", what |-> w, assign |-> TRUE, width |-> n]
Skip(w, n) == [kind |-> "conv", what |-> w, assign |-> FALSE, width |-> n]
MCScanFormats ==
  {<<Conv(w, n)>> : w \in {"d", "i", "o", "x", "s", "c", "set"}, n \in {0, 1, 2}}
  \cup {<<Skip("d", 0), Conv("c", 0)>>, <<Conv("c", 0), Conv("c", 2)>>,
        <<Conv("d", 0), Conv("d", 0)>>, <<Conv("d", 1), Other("lit", "-"), Conv("x", 2)>>,
        <<Conv("set", 0), Conv("d", 0)>>, <<Other("percent", "%"), Conv("d", 0)>>,
        <<Other("space", " "), Conv("s", 2), Conv("n", 0), Conv("i", 0)>>,
        <<Conv("d", 0), Other("cut", "d")>>}

MCParts == {<<"a">>, <<"?">>, <<"*">>, <<"/">>, <<"[", "!", "a", "]">>,
            <<"[", "a", "-", "b", "]">>, <<"[", "^", "class", "]">>, <<"[", "!", "a">>}
MCSubjectLetters == <<"a", "b", "/", "c">>

MCArgs == {<<"-", "a">>, <<"-", "a", "a">>, <<"-", "a", "b">>, <<"-", "a", "z">>,
           <<"-", "b">>, <<"-", "b", "a">>, <<"-", "o">>, <<"x">>, <<"y">>, <<"-", "-">>,
           <<"-", "-", "l">>, <<"-", "-", "r">>, <<"-", "-", "r", "=", "x">>}
MCLong == {[name |-> <<"l">>, has_arg |-> "no"], [name |-> <<"r">>, has_arg |-> "required"]}
MCNoArg == <<>>

MCTimeLetters == {"%", "H", "p", "E", "y", "q"}
MCTimeFormats ==
  UNION {[1..n -> MCTimeLetters] : n \in 0..4}
  \cup {<<"%", d, "-">> : d \in Simple \cup Several}
  \cup {<<"%", m, d>> : m \in {"E", "O"}, d \in {"Y", "y", "C", "S", "q"}}
MCTimes == {[sec |-> 5, min |-> 59, hour |-> 0, mday |-> 9, mon |-> 8, year |-> 2024,
             wday |-> 3, yday |-> 252, made |-> 0],
            [sec |-> 59, min |-> 59, hour |-> 23, mday |-> 31, mon |-> 11, year |-> 1969,
             wday |-> 3, yday |-> 364, made |-> -1],
            [sec |-> 60, min |-> 0, hour |-> 23, mday |-> 31, mon |-> 11, year |-> 12024,
             wday |-> 6, yday |-> 365, made |-> 0]}

MCCodes == -128..255

(* Formats: a scaling needs more exponents, or its steps do not reach the  *)
(* end of them; the arguments of fma are the ones at the ends and in the   *)
(* middle of the range.                                                    *)
Format(s, e) == [sig |-> s, exp |-> e]
MCQuad == Format(2, 4)
MCWide == Format(5, 4)
MCNarrow == Format(2, 3)
MCUnaryFormats == {Format(2, 4), Format(3, 4)}
MCPairFormats == {Format(2, 3)}
MCScaleFormats == {Format(2, 5)}
MCScaleSteps == -40..40
MCFmaNumbers == {x \in Floats(MCQuad) : Exponent(MCQuad, x) \in {0, 1, 6, 9} /\ ~Negative(MCQuad, x)}

MCTextFormats == {Format(3, 5)}
MCHexFormats == {Format(4, 4)}

MCWorkingDir == <<"/", "w", "/", "v">>
MCMissing == {<<"b">>, <<"a", "b">>}

-----------------------------------------------------------------------------
Sampled == {"text", "field", "moment", "broken", "buffer", "scan", "wide",
            "bytes", "pattern", "strftime", "move", "strings", "versions", "character",
            "path",
            "arithmetic", "convert",
            "rounding", "scaling", "remainder", "fma", "decimal", "hex", "number",
            "expression", "row", "frame", "leb", "pointer", "cie", "index",
            "jump", "context", "registers"}

SampleInit ==
  \/ focus = "text" /\ TextInit
  \/ focus = "field" /\ FieldInit
  \/ focus = "moment" /\ MomentInit
  \/ focus = "broken" /\ FieldsInit
  \/ focus = "buffer" /\ BufferInit
  \/ focus = "scan" /\ ScanFormatInit
  \/ focus = "wide" /\ WideInit
  \/ focus = "bytes" /\ BytesInit
  \/ focus = "pattern" /\ PatternInit
  \/ focus = "strftime" /\ TimeTextInit
  \/ focus = "move" /\ MoveInit
  \/ focus = "strings" /\ CompareInit
  \/ focus = "versions" /\ VersionInit
  \/ focus = "character" /\ CtypeInit
  \/ focus = "path" /\ PathInit
  \/ focus = "arithmetic" /\ ArithmeticInit
  \/ focus = "convert" /\ ConvertInit
  \/ focus = "rounding" /\ RoundingInit
  \/ focus = "scaling" /\ ScalingInit
  \/ focus = "remainder" /\ RemainderInit
  \/ focus = "fma" /\ FmaInit
  \/ focus = "decimal" /\ DecimalInit
  \/ focus = "hex" /\ HexInit
  \/ focus = "number" /\ NumberInit
  \/ focus = "expression" /\ ExpressionInit
  \/ focus = "row" /\ RowInit
  \/ focus = "frame" /\ FrameInit
  \/ focus = "leb" /\ LebInit
  \/ focus = "pointer" /\ PointerInit
  \/ focus = "cie" /\ CieInit
  \/ focus = "index" /\ IndexInit
  \/ focus = "jump" /\ JumpInit
  \/ focus = "context" /\ ContextInit
  \/ focus = "registers" /\ RegistersInit
  \/ focus \notin Sampled /\ NoSample

MCTextInit ==
  /\ focus \in Sampled \cup {"printf", "scanf", "options"}
  /\ SampleInit
  /\ PrintInit /\ ScanStreamInit
  /\ IF focus = "options" THEN OptInit ELSE OptStart(<<>>, "short")

MCTextNext ==
  /\ UNCHANGED <<focus, sample>>
  /\ \/ focus = "printf" /\ PrintNext /\ UNCHANGED <<scanVars, optVars>>
     \/ focus = "scanf" /\ ScanNext /\ UNCHANGED <<printVars, optVars>>
     \/ focus = "options" /\ OptNext /\ UNCHANGED <<printVars, scanVars>>

MCTextSpec == MCTextInit /\ [][MCTextNext]_<<focus, textVars>>

-----------------------------------------------------------------------------
(* Texts become the numbers, times, characters, options and paths they     *)
(* stand for, and are written back inside the memory that is given         *)
(* (strtol, mktime, strftime, wcsrtombs, getopt_long, realpath, printf,    *)
(* scanf and their relatives).                                             *)
ConversionsRight ==
  NumbersConvert /\ TimesConvert /\ StringsWhole /\ ArgumentsRead /\ TextFormatted

(* Floating-point numbers are computed, written and read with the rounding *)
(* they should have (float_gcc.cpp, musl-math, vfprintf, strtod).          *)
FloatsRight == FloatsRounded /\ FloatsAsText

(* Control gets back where it came from with the registers it had: by the  *)
(* unwinder, by a jump or by a context.                                    *)
ReturnsRight == FramesRecovered /\ ContextsKept
=============================================================================

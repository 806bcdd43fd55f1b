------------------------------ MODULE JsonText ------------------------------
(***************************************************************************)
(* The agent's own JSON helpers (jsonutil.cpp, strutil.h): escaping into a *)
(* buffer of a fixed size, and reading an array of flat objects with a     *)
(* cursor, one call per object.  A text is a sequence of characters, and   *)
(* only the characters the code tells apart have names.                    *)
(***************************************************************************)
EXTENDS Integers, Sequences, SequencesExt

CONSTANTS
    MaxValue,       \* bound: characters of a value
    MaxObjects,     \* bound: objects of the array
    OutSize,        \* size of the buffer a value is escaped into
    ObjSize         \* size of the buffer an object is copied into

\* A caller's buffer has room for the terminator at least.
ASSUME JsonAssumption == {MaxValue, MaxObjects} \subseteq Nat /\ {OutSize, ObjSize} \subseteq Nat \ {0}

\* Quote, backslash, line feed, a control character, a closing brace, the rest.
Chars == {"q", "b", "lf", "ctl", "close", "o"}
Value == SeqOf(Chars, MaxValue)

\* The characters of a response.
Letters == {"[", "]", ",", "open", "close", "key", "q", "b", "n", "u", "0", "1", "f", "o"}

-----------------------------------------------------------------------------
(* Escaping.                                                               *)

\* What one character becomes: an escape of two or of six, or itself.
EscapeOne(c) ==
    CASE c = "q" -> <<"b", "q">>
      [] c = "b" -> <<"b", "b">>
      [] c = "lf" -> <<"b", "n">>
      [] c = "ctl" -> <<"b", "u", "0", "0", "1", "f">>
      [] OTHER -> <<c>>

\* jsonEscape: no limit.
jsonEscape(s) == FlattenSeq([i \in 1..Len(s) |-> EscapeOne(s[i])])

\* json_escape: it stops at the first character that finds fewer than seven
\* bytes and the terminator free, and so do all behind it.
json_escape(s) ==
    LET written[i \in 0..Len(s)] ==
            IF i = 0 THEN << >>
            ELSE LET out == written[i - 1]
                 IN  IF Len(out) + 7 >= OutSize THEN out ELSE out \o EscapeOne(s[i])
    IN  written[Len(s)]

-----------------------------------------------------------------------------
(* Reading.  The cursor machine: one call of json_array_next per step.     *)

VARIABLES
    jtValues,   \* the values the server's objects hold
    jtText,     \* the response
    jtCursor,   \* position of the next character
    jtFound     \* the objects handed out, and the value read from each

jtVars == <<jtValues, jtText, jtCursor, jtFound>>

\* {"k":"<escaped value>"}; a key and its colon are one character here.
ObjectText(v) == <<"open", "key", "q">> \o jsonEscape(v) \o <<"q", "close">>

\* The i-th object, with the comma before it.
Item(vs, i) == (IF i = 1 THEN << >> ELSE <<",">>) \o ObjectText(vs[i])

ArrayText(vs) == <<"[">> \o FlattenSeq([i \in 1..Len(vs) |-> Item(vs, i)]) \o <<"]">>

At(t, p) == IF p <= Len(t) THEN t[p] ELSE "nul"

\* A plausible slip: a backslash inside a string is a character like others.
StepInsideNaive(t, st) ==
    IF st.str THEN [st EXCEPT !.p = @ + 1, !.str = At(t, st.p) # "q"]
    ELSE [p |-> st.p + 1, str |-> At(t, st.p) = "q",
          depth |-> st.depth + (IF At(t, st.p) = "open" THEN 1 ELSE IF At(t, st.p) = "close" THEN -1 ELSE 0)]

\* One turn of the loop over an object: strings are skipped with their escapes,
\* braces outside them are counted.
StepInside(t, st) ==
    IF st.str
    THEN IF At(t, st.p) = "b" /\ At(t, st.p + 1) # "nul" THEN [st EXCEPT !.p = @ + 2]
         ELSE [st EXCEPT !.p = @ + 1, !.str = At(t, st.p) # "q"]
    ELSE [p |-> st.p + 1, str |-> At(t, st.p) = "q",
          depth |-> st.depth + (IF At(t, st.p) = "open" THEN 1 ELSE IF At(t, st.p) = "close" THEN -1 ELSE 0)]

\* The end of the object that begins at p: the position after the brace that
\* closes it, or the end of the text.
ObjectEnd(t, p) ==
    LET scan[k \in 0..Len(t) + 1] ==
            IF k = 0 THEN [p |-> p, str |-> FALSE, depth |-> 0]
            ELSE LET st == scan[k - 1]
                 IN  IF st.p > Len(t) \/ (st.p > p /\ st.depth = 0 /\ ~st.str) THEN st ELSE StepInside(t, st)
    IN  scan[Len(t) + 1].p

\* Blanks, the opening bracket and commas before an object.
SkipSeparators(t, p) == IF At(t, p) \in {"[", ","} THEN p + 1 ELSE p

\* One turn of its loop: a backslash is dropped and what follows it taken.
ReadOne(obj, st) ==
    IF At(obj, st.p) \in {"nul", "q"} THEN st
    ELSE IF At(obj, st.p) = "b" /\ At(obj, st.p + 1) # "nul"
         THEN [p |-> st.p + 2, out |-> Append(st.out, At(obj, st.p + 1))]
         ELSE [p |-> st.p + 1, out |-> Append(st.out, At(obj, st.p))]

\* json_extract_string from an object's text: the characters up to the next
\* quote that no backslash precedes.
json_extract_string(obj) ==
    LET read[k \in 0..Len(obj)] ==
            IF k = 0 THEN [p |-> 4, out |-> << >>] ELSE ReadOne(obj, read[k - 1])
    IN  IF At(obj, 2) = "key" /\ At(obj, 3) = "q" THEN read[Len(obj)].out ELSE << >>

\* json_array_next and the extraction every caller makes from the object; where
\* no object begins the array has ended.
json_array_next ==
    LET p == SkipSeparators(jtText, jtCursor)
        end == ObjectEnd(jtText, p)
        obj == SubSeq(jtText, p, end - 1)
        cut == IF Len(obj) >= ObjSize THEN SubSeq(obj, 1, ObjSize - 1) ELSE obj
    IN  /\ UNCHANGED <<jtValues, jtText>>
        /\ \/ /\ At(jtText, p) = "open" /\ jtCursor' = end
              /\ jtFound' = Append(jtFound, json_extract_string(cut))
           \/ At(jtText, p) # "open" /\ jtCursor' = p /\ UNCHANGED jtFound

jtTypeOK == jtCursor \in 1..Len(jtText) + 1 /\ jtFound \in Seq(Seq(Letters))

jtInit == jtValues = << >> /\ jtText = ArrayText(<< >>) /\ jtCursor = 1 /\ jtFound = << >>

\* A response arrives, and is read from its beginning.
Response ==
    /\ jtValues = << >>
    /\ jtValues' \in SeqOf(Value, MaxObjects)
    /\ jtText' = ArrayText(jtValues')
    /\ jtCursor' = 1 /\ jtFound' = << >>

jtNext == Response \/ json_array_next

-----------------------------------------------------------------------------
\* What a value reads back as: escapes for control characters are not decoded,
\* their letter stays.
Decoded(c) == CASE c = "lf" -> <<"n">> [] c = "ctl" -> <<"u", "0", "0", "1", "f">> [] OTHER -> <<c>>

ReadsAs(v) == FlattenSeq([i \in 1..Len(v) |-> Decoded(v[i])])

\* The objects of a response are found one for one, in order, whatever quotes,
\* backslashes and braces their values hold, and the end of the array is met
\* when all were found and not before (json_array_next skips strings and their
\* escapes).  Objects longer than the caller's buffer are cut.
ArrayIsSplit ==
    /\ Len(jtFound) <= Len(jtValues)
    /\ \A i \in 1..Len(jtFound) :
           Len(ObjectText(jtValues[i])) < ObjSize => jtFound[i] = ReadsAs(jtValues[i])
    /\ At(jtText, SkipSeparators(jtText, jtCursor)) =
           IF Len(jtFound) = Len(jtValues) THEN "]" ELSE "open"

\* json_escape never cuts an escape in two and never fills the buffer beyond
\* its terminator: what it writes is the escape of a beginning of its input.
EscapeIsWhole ==
    \A i \in 1..Len(jtValues) :
        LET out == json_escape(jtValues[i])
        IN  /\ Len(out) < OutSize
            /\ \E n \in 0..Len(jtValues[i]) : out = jsonEscape(SubSeq(jtValues[i], 1, n))

\* Text that goes out and comes back in a response is neither torn nor shifted,
\* whatever it consists of (json_escape, json_array_next).
TextIsFaithful == ArrayIsSplit /\ EscapeIsWhole
=============================================================================

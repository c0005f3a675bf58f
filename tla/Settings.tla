------------------------------ MODULE Settings -----------------------------
(***************************************************************************)
(* Where the configuration comes from: the ini file (src/libs/inih/ini.c), *)
(* Config (src/src/config/Config.cpp) and the command line of nawarun      *)
(* (src/src/nawarun/nawarun.cpp).  A configuration is a function from      *)
(* section and key to value.  --help, --version and --no-config-file are   *)
(* shortened to --h, --v and --n.                                          *)
(***************************************************************************)
EXTENDS Encoding

CONSTANTS
    INI_MAX_LINE,  \* characters that a line may have, the final '\0' included
    MAX_SECTION,   \* the same of the name of a section
    MAX_NAME       \* and of the name that a continuation line continues

ASSUME LineAssumption == INI_MAX_LINE > 2 /\ MAX_SECTION > 1 /\ MAX_NAME > 1

NoSettings == [k \in {} |-> <<>>]

-----------------------------------------------------------------------------
(* Config *)

set(config, key, value) ==
    [k \in DOMAIN config \cup {key} |-> IF k = key THEN value ELSE config[k]]

insert_Overwrite(config, key, value) == set(config, key, value)

\* unordered_map::insert: the value that came first stays.
insert(config, key, value) == IF key \in DOMAIN config THEN config ELSE set(config, key, value)

\* The loop over the overrides, in their order
override(config, overrides) ==
    LET after[n \in 0..Len(overrides)] ==
            IF n = 0 THEN config ELSE set(after[n - 1], overrides[n][1], overrides[n][2])
    IN after[Len(overrides)]

\* operator[]
Value(config, key) == IF key \in DOMAIN config THEN config[key] ELSE <<>>

-----------------------------------------------------------------------------
(* The ini file *)

\* fgets reads at most INI_MAX_LINE - 1 characters: the rest of a longer line
\* is the next one.
Chunks(line) ==
    [k \in 1..((Len(line) + INI_MAX_LINE - 2) \div (INI_MAX_LINE - 1)) |-> Group(line, k, INI_MAX_LINE - 1)]

ini_reader(file) ==
    LET lines == splitString(file, LF, FALSE)
    IN FlattenSeq([i \in 1..Len(lines) |-> Chunks(Append(lines[i], LF))])

\* The first of the characters, or of a comment after a space, Len + 1 if none
find_chars_or_comment(s, i, chars) ==
    LET ends(j) == s[j] \in chars \/ (j > i /\ s[j] = Semicolon /\ s[j - 1] \in Spaces)
        E == {j \in i..Len(s) : ends(j)}
    IN IF E = {} THEN Len(s) + 1 ELSE CHOOSE j \in E : \A k \in E : j <= k

\* A copy that has room for size characters, the final '\0' included
strncpy0(s, size) == SubSeq(s, 1, IF Len(s) < size THEN Len(s) ELSE size - 1)

\* A line without a name and a value, or with a section's name that does not
\* end or that a comment ends, is an error that nothing comes of.
IniLine(st, line) ==
    LET text == trim(line)
        close == find_chars_or_comment(text, 2, {93})
        eq == find_chars_or_comment(text, 1, {Equals, Colon})
        name == trim(SubSeq(text, 1, eq - 1))
        value == SubSeq(text, eq + 1, find_chars_or_comment(text, eq + 1, {}) - 1)
    IN CASE text = <<>> \/ text[1] \in {Semicolon, 35} -> st
         [] text # <<>> /\ text[1] \notin {Semicolon, 35} ->
              IF st.prev_name # <<>> /\ line[1] \in Spaces
              THEN [st EXCEPT !.config = insert(@, <<st.section, st.prev_name>>, text)]
              ELSE IF text[1] = 91
              THEN IF close > Len(text) \/ text[close] # 93 THEN st
                   ELSE [st EXCEPT !.prev_name = <<>>,
                                   !.section = strncpy0(SubSeq(text, 2, close - 1), MAX_SECTION)]
              ELSE IF eq <= Len(text) /\ text[eq] \in {Equals, Colon}
              THEN [st EXCEPT !.prev_name = strncpy0(name, MAX_NAME),
                              !.config = insert(@, <<st.section, name>>, trim(value))]
              ELSE st

ByteOrderMark == <<239, 187, 191>>

\* A byte order mark at the beginning of the file does not count.
LineAt(lines, i) ==
    IF i = 1 /\ IsPrefix(ByteOrderMark, lines[1]) THEN From(lines[1], 4) ELSE lines[i]

\* ini_parse_stream: the reader's state after the first n lines
IniAfter(lines, n) ==
    LET after[i \in 0..Len(lines)] ==
            IF i = 0 THEN [section |-> <<>>, prev_name |-> <<>>, config |-> NoSettings]
            ELSE IniLine(after[i - 1], LineAt(lines, i))
    IN after[n]

\* Config::read; a file that cannot be opened is an exception.
read(file) == LET lines == ini_reader(file) IN IniAfter(lines, Len(lines)).config

-----------------------------------------------------------------------------
(* The command line *)

Option(c) == <<Dash, Dash, c>>

\* --category:key=value
OverrideOf(arg) ==
    LET idAndVal == splitString(From(arg, 3), Equals, TRUE)
        categoryAndKey == splitString(idAndVal[1], Colon, TRUE)
    IN IF IsPrefix(<<Dash, Dash>>, arg) /\ Len(idAndVal) = 2 /\ Len(categoryAndKey) = 2
       THEN <<<<<<categoryAndKey[1], categoryAndKey[2]>>, idAndVal[2]>>>> ELSE <<>>

\* What is not an override is the file if it comes last, and ignored if not.
\* file is <<>> if there is none, <<path>> otherwise.
parseCommandLine(args, configIni) ==
    LET last == args[Len(args)]
        other == args # <<>> /\ OverrideOf(last) = <<>>
    IN [exit |-> args # <<>> /\ args[1] \in {Option(104), Option(118)},
        file |-> IF ~other THEN <<configIni>> ELSE IF last = Option(110) THEN <<>> ELSE <<last>>,
        overrides |-> FlattenSeq([i \in 1..Len(args) |-> OverrideOf(args[i])])]

\* run: the configuration of the first start.  A reload reads the file alone.
StartConfig(text, parameters) ==
    override(IF parameters.file = <<>> THEN NoSettings ELSE read(text), parameters.overrides)
=============================================================================

---------------------------- MODULE ConfigStore ----------------------------
(***************************************************************************)
(* The configuration store of core/ga-conf.cpp: ga_vars, a map from option *)
(* names to gaConfVar (core/ga-confvar.cpp), filled line by line from a    *)
(* file that may include others.  A gaConfVar has a plain value (data), a  *)
(* map from keys to values (mapdata), and one iterator (mi) over that map. *)
(*                                                                         *)
(* A line is a record: what trimming and tokenizing leave of it.  Keys are *)
(* numbers, ordered as std::map orders their names.  Only main touches the *)
(* store while it is filled; every step below is one line.                 *)
(***************************************************************************)
EXTENDS Integers, Sequences, FiniteSets, SequencesExt

CONSTANTS File,       \* names of files
          MainFile,   \* argv[1]
          Option,     \* names of options
          Value,      \* values an option or a key is given
          MaxOpen,    \* files the process can have open, one in the other, before
                      \* no more can be opened or its stack is used up
          Texts,      \* contents of the file system, chosen at the start
          Urls,       \* argv[2] of a client; NoUrl for a server
          NoUrl,
          NoPort,
          strtol,     \* the number that a value begins with, else 0
          TrueWords, FalseWords

ASSUME StoreAssumption ==
    /\ MainFile \in File
    /\ MaxOpen \in Nat
    /\ {"server-port", "server-url", "server-name"} \subseteq Option
    /\ strtol \in [Value -> Int]
    /\ TrueWords \cup FalseWords \subseteq Value /\ TrueWords \cap FalseWords = {}

NoValue == ""       \* the empty string, a member of Value

END == 0            \* mapdata.end(): keys are larger

(* What a line may be.  One with an empty value is skipped.                *)
TextLine ==
    [kind : {"set"}, option : Option, value : Value \ {NoValue}]
    \cup [kind : {"entry"}, option : Option, key : Nat \ {END}, value : Value \ {NoValue}]
    \cup [kind : {"include"}, file : File]
    \cup [kind : {"malformed", "skipped"}]

ASSUME TextAssumption ==
    /\ NoValue \in Value /\ strtol[NoValue] = 0
    /\ \A t \in Texts : \A f \in DOMAIN t : t[f] \in Seq(TextLine)

VARIABLES text,      \* text[f]: the lines of a file that can be opened
          url,       \* constant
          ga_vars,
          reading,   \* the files ga_conf_load has open, the innermost last
          loaded     \* "no", then what the outermost ga_conf_load returned, "yes" or
                     \* "failed", or "overflow" when the stack has been used up

inputs    == <<text, url>>
filevars  == <<inputs, reading, loaded>>
storevars == <<filevars, ga_vars>>

begin(map) == IF DOMAIN map = {} THEN END ELSE Min(DOMAIN map)

after(map, k) ==
    LET rest == {j \in DOMAIN map : j > k}
    IN  IF rest = {} THEN END ELSE Min(rest)

EmptyVar == [data |-> NoValue, mapdata |-> <<>>, mi |-> END]

(* What a gaConfVar tells of the entry under mi.                           *)
mkey(var) == var.mi

mvalue(var) == IF mkey(var) = END THEN NoValue ELSE var.mapdata[mkey(var)]

(* The entry of an option; operator[] of the map makes a fresh one.        *)
VarOf(o) == IF o \in DOMAIN ga_vars THEN ga_vars[o] ELSE EmptyVar

Written(o, var) ==
    [p \in DOMAIN ga_vars \cup {o} |-> IF p = o THEN var ELSE ga_vars[p]]

(* Mutants of the operations below.                                        *)
assign_keeps_map(o, v) == Written(o, [VarOf(o) EXCEPT !.data = v])

(* ga_vars[option] = token: clears the map of the option.                  *)
assign(o, v) == Written(o, [EmptyVar EXCEPT !.data = v])

(* ga_vars[option][key] = token: insertion leaves the iterator where it    *)
(* is, so that of a map that was empty stays at the end.                   *)
assign_entry(o, k, v) ==
    Written(o, [VarOf(o) EXCEPT !.mapdata =
        [j \in DOMAIN @ \cup {k} |-> IF j = k THEN v ELSE @[j]]])

-----------------------------------------------------------------------------
StoreInit ==
    /\ text \in Texts
    /\ url \in Urls
    /\ ga_vars = <<>>
    /\ reading = <<>>
    /\ loaded = "no"

Openable(f) == f \in DOMAIN text /\ Len(reading) < MaxOpen

load_failed ==       \* every ga_conf_load on the way returns -1
    /\ reading' = <<>>
    /\ loaded' = "failed"
    /\ UNCHANGED <<inputs, ga_vars>>

(* The call of ga_conf_load from ga_init.                                  *)
load_main ==
    /\ loaded = "no" /\ reading = <<>>
    /\ IF Openable(MainFile)
       THEN /\ reading' = <<[file |-> MainFile, next |-> 1]>>
            /\ UNCHANGED <<inputs, ga_vars, loaded>>
       ELSE load_failed

AtLine == reading # <<>> /\ Last(reading).next <= Len(text[Last(reading).file])

NextLine == text[Last(reading).file][Last(reading).next]

Advanced == [reading EXCEPT ![Len(reading)].next = @ + 1]

(* ga_conf_parse of one line.                                              *)
parse_assignment ==
    /\ AtLine
    /\ \/ NextLine.kind = "skipped" /\ ga_vars' = ga_vars
       \/ NextLine.kind = "set" /\ ga_vars' = assign(NextLine.option, NextLine.value)
       \/ /\ NextLine.kind = "entry"
          /\ ga_vars' = assign_entry(NextLine.option, NextLine.key, NextLine.value)
    /\ reading' = Advanced
    /\ UNCHANGED <<inputs, loaded>>

(* Each ga_conf_load has a large buffer on the stack.                      *)
stack_overflows ==
    /\ NextLine.file \in DOMAIN text /\ Len(reading) = MaxOpen
    /\ reading' = <<>>
    /\ loaded' = "overflow"
    /\ UNCHANGED <<inputs, ga_vars>>

parse_include ==
    /\ AtLine
    /\ NextLine.kind = "include"
    /\ IF Openable(NextLine.file)
       THEN /\ reading' = Append(Advanced, [file |-> NextLine.file, next |-> 1])
            /\ UNCHANGED <<inputs, ga_vars, loaded>>
       ELSE load_failed \/ stack_overflows

parse_malformed == AtLine /\ NextLine.kind = "malformed" /\ load_failed

end_of_file ==
    /\ reading # <<>> /\ ~AtLine
    /\ reading' = Front(reading)
    /\ loaded' = IF Len(reading) = 1 THEN "yes" ELSE loaded
    /\ UNCHANGED <<inputs, ga_vars>>

LoadStep ==
    \/ load_main \/ parse_assignment \/ parse_include \/ parse_malformed
    \/ end_of_file

-----------------------------------------------------------------------------
(* ga_url_parse, after the file: rtsp://name:port/object.  The port is     *)
(* what digits there are after a colon, which may be none.                 *)
UrlWrites ==
    [o \in {"server-url", "server-name"}
           \cup (IF url.port = NoPort THEN {} ELSE {"server-port"}) |->
        CASE o = "server-url" -> url.all [] o = "server-name" -> url.name
          [] o = "server-port" -> url.port]

ga_conf_writev(writes) ==
    [o \in DOMAIN ga_vars \cup DOMAIN writes |->
        IF o \in DOMAIN writes THEN [EmptyVar EXCEPT !.data = writes[o]] ELSE ga_vars[o]]

ga_url_parse == url.scheme = "rtsp" /\ ga_vars' = ga_conf_writev(UrlWrites)

-----------------------------------------------------------------------------
(* Reading the store.  NoValue stands for the NULL of ga_conf_readv, too:  *)
(* an option that has a map and no plain value reads as the empty string,  *)
(* which the readers below treat alike.                                    *)
readv(o) == VarOf(o).data

INT_MIN == -2147483647 - 1

readint(o) == IF o \notin DOMAIN ga_vars THEN INT_MIN ELSE strtol[readv(o)]

readbool(o, default) ==       \* ga_conf_boolval: any other word is the default
    IF default THEN readv(o) \notin FalseWords ELSE readv(o) \in TrueWords

mapsize(o) == Cardinality(DOMAIN VarOf(o).mapdata)

mapreset(o) ==
    IF o \in DOMAIN ga_vars
    THEN [ga_vars EXCEPT ![o].mi = begin(ga_vars[o].mapdata)]
    ELSE ga_vars

(* ga_conf_mapkey and ga_conf_mapvalue look at the entry under mi, and     *)
(* ga_conf_mapnextkey moves mi on.                                         *)
mapkey(o) == mkey(VarOf(o))

mapvalue(o) == mvalue(VarOf(o))

mapnextkey(o) == [ga_vars EXCEPT ![o].mi = after(ga_vars[o].mapdata, @)]

-----------------------------------------------------------------------------
(***************************************************************************)
(* What a file says, defined without the store: its lines with included    *)
(* files in place (Flat), the value of an option as its last assignment,   *)
(* and its map as what later lines enter.                                  *)
(***************************************************************************)
Flat(t) ==
    LET flat[d \in 0..MaxOpen] ==
            [f \in DOMAIN t |->
                IF d = 0 THEN <<>>
                ELSE FlattenSeq([i \in 1..Len(t[f]) |->
                        IF t[f][i].kind = "include" /\ t[f][i].file \in DOMAIN t
                        THEN flat[d - 1][t[f][i].file]
                        ELSE <<t[f][i]>>])]
    IN  flat[MaxOpen][MainFile]

LastSet(lines, o) ==
    Max({0} \cup {i \in DOMAIN lines : lines[i].kind = "set" /\ lines[i].option = o})

Said(lines, o) ==
    IF LastSet(lines, o) = 0 THEN NoValue ELSE lines[LastSet(lines, o)].value

Entries(lines, o) ==
    {i \in DOMAIN lines :
        i > LastSet(lines, o) /\ lines[i].kind = "entry" /\ lines[i].option = o}

SaidMap(lines, o) ==
    [k \in {lines[i].key : i \in Entries(lines, o)} |->
        lines[Max({i \in Entries(lines, o) : lines[i].key = k})].value]
=============================================================================

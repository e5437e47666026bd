------------------------------- MODULE Config -------------------------------
(***************************************************************************)
(* app/v3/config/basic: BasicConfig.Load finds the configuration file,     *)
(* reads it into the application's struct and then goes through the struct *)
(* by reflection: each leaf gets its default, its environment variable,    *)
(* and, if it is a string, is decoded.                                     *)
(*                                                                         *)
(* A value is a node of a tree: a leaf with the text of its value, or a    *)
(* pointer, slice, array, map (its values in the order of its keys) or     *)
(* struct with its kids.  Fields are exported and of predeclared types.    *)
(* yaml is external: it gives the struct as the file says, or an error.    *)
(***************************************************************************)
EXTENDS Naturals, Sequences, SequencesExt, TLC

VARIABLES
  phase,      \* "new", "loaded", or "failed": Load returned an error
  cfg,        \* the struct
  args,       \* what the arguments cfg= name, in their order, "" for an empty one
  environ,    \* the environment: variable to text, "" if it is not set
  dflt,       \* what the default path leads to
  file        \* what yaml makes of a good file

vars == <<phase, cfg, args, environ, dflt, file>>

----------------------------------------------------------------------------
Leaf(kind, text) == [kind |-> kind, text |-> text, nil |-> FALSE, kids |-> <<>>, tags |-> <<>>]
Node(kind, kids) == [kind |-> kind, text |-> "", nil |-> FALSE, kids |-> kids, tags |-> <<>>]
Struct(kids, tags) == [Node("struct", kids) EXCEPT !.tags = tags]
Nil(kind) == [Node(kind, <<>>) EXCEPT !.nil = TRUE]

(* A tag names a default and a variable, "" standing for no such key. *)
Tag(def, env) == [def |-> def, env |-> env]

Leaves == {"string", "int", "bool"}
Zero == [string |-> "", int |-> "0", bool |-> "false"]

(* Texts that strconv parses, and what they come to in a field of two bits *)
(* (the parser's 64 bits are converted to the field's type without a       *)
(* check); a duration is an int only as a default, of a signed field.      *)
ParseInt == ("0" :> "0") @@ ("1" :> "1") @@ ("4" :> "0") @@ ("7" :> "3")
ParseDuration == "2ns" :> "2"
ParseBool == ("true" :> "true") @@ ("1" :> "true") @@ ("false" :> "false") @@ ("0" :> "false")

(* The decoder: what ENC(...) holds. A text that it refuses is kept. *)
Decode(t) == IF t = "ENC(x)" THEN "x" ELSE t

Parsed(table, t, val) == IF t \in DOMAIN table THEN table[t] ELSE val

(* Fault: a default replaces what the file says. *)
ProcessAnyway(kind, val, tag, env) ==
  LET table == IF kind = "int" THEN ParseInt ELSE ParseBool
      e == IF tag.env = "" THEN "" ELSE env[tag.env]
      d == IF tag.def # "" THEN tag.def ELSE val
  IN IF kind = "string" THEN Decode(IF e # "" THEN e ELSE d)
     ELSE Parsed(table, e, Parsed(IF kind = "int" THEN table @@ ParseDuration ELSE table, d, val))

(* processString, processInt, processUInt, processFloat and processBool:   *)
(* the default, then the variable.                                         *)
Process(kind, val, tag, env) ==
  LET table == IF kind = "int" THEN ParseInt ELSE ParseBool
      defaults == IF kind = "int" THEN table @@ ParseDuration ELSE table
      useDefault == tag.def # "" /\ val = Zero[kind]
      e == IF tag.env = "" THEN "" ELSE env[tag.env]
  IN IF kind = "string" THEN Decode(IF e # "" THEN e ELSE IF useDefault THEN tag.def ELSE val)
     ELSE Parsed(table, e, IF useDefault THEN Parsed(defaults, tag.def, val) ELSE val)

(* modifyValue: what is in a pointer, slice, array or map has the tag of   *)
(* the field that holds it.                                                *)
RECURSIVE ModifyValue(_, _, _)
ModifyValue(v, tag, env) ==
  CASE v.kind \in Leaves -> [v EXCEPT !.text = Process(v.kind, v.text, tag, env)]
    [] v.nil -> v
    [] v.kind = "struct" ->
         [v EXCEPT !.kids = [i \in DOMAIN v.kids |-> ModifyValue(v.kids[i], v.tags[i], env)]]
    [] v.kind \in {"ptr", "slice", "array", "map"} ->
         [v EXCEPT !.kids = [i \in DOMAIN v.kids |-> ModifyValue(v.kids[i], tag, env)]]
    [] OTHER -> v

----------------------------------------------------------------------------
(* The values that are checked: a struct with a field of every kind. *)
Tags == <<Tag("d", "S"), Tag("2ns", "I"), Tag("", ""), Tag("ENC(x)", "S"), Tag("", "I"), Tag("d", "")>>
SubTags == <<Tag("true", "B"), Tag("7", "")>>

Sub(b, n) == Struct(<<Leaf("bool", b), Leaf("int", n)>>, SubTags)
Example(s, i, p, l, m) ==
  Struct(<<Leaf("string", s), Leaf("int", i), p, l, m, Node("func", <<>>)>>, Tags)

Subs == {Sub(b, n) : b \in {"true", "false"}, n \in {"0", "1"}}
Files ==
  {Example(s, i, p, l, m) :
     s \in {"", "f", "ENC(x)", "ENC(bad)"}, i \in {"0", "1"},
     p \in {Nil("ptr")} \cup {Node("ptr", <<u>>) : u \in Subs},
     l \in {Nil("slice"), Node("slice", <<Leaf("string", "f"), Leaf("string", "")>>),
            Node("array", <<Leaf("string", ""), Leaf("string", "f")>>)},
     m \in {Nil("map"), Node("map", <<Leaf("int", "1")>>), Node("map", <<Sub("false", "0"), Sub("true", "1")>>)}}

Empty == Example("", "0", Nil("ptr"), Nil("slice"), Nil("map"))
Environments ==
  [S : {"", "e", "ENC(x)", "ENC(bad)"}, I : {"", "1", "4", "7", "2ns"}, B : {"", "0", "true", "no"}, cfg : {""}]

(* What a path leads to: a file that yaml takes, one that it refuses or    *)
(* that cannot be read, or nothing.                                        *)
Paths == {"good", "bad", "missing"}

Init ==
  /\ phase = "new" /\ cfg = Empty
  /\ \/ file \in Files /\ environ \in Environments /\ args = <<>> /\ dflt = "good"
     \/ /\ file = Example("f", "1", Nil("ptr"), Nil("slice"), Nil("map"))
        /\ environ \in [S : {"", "e"}, I : {""}, B : {""}, cfg : Paths \cup {""}]
        /\ args \in BoundedSeq(Paths \cup {""}, 2) /\ dflt \in Paths

(* The first argument, also an empty one, or else the variable cfg. *)
getEnvCfgVariable == IF args # <<>> THEN Head(args) ELSE environ.cfg

(* If that is empty, config.yml beside the executable. *)
FileName == IF getEnvCfgVariable = "" THEN dflt ELSE getEnvCfgVariable

(* Load: a file that is missing is passed over, also one that was named;   *)
(* of one that is wrong yaml may have taken what it could.                 *)
Load ==
  /\ phase = "new"
  /\ IF FileName = "bad"
     THEN phase' = "failed" /\ cfg' \in {cfg, file}
     ELSE /\ phase' = "loaded"
          /\ cfg' = ModifyValue(IF FileName = "good" THEN file ELSE cfg, Tag("", ""), environ)
  /\ UNCHANGED <<args, environ, dflt, file>>

Next == Load

----------------------------------------------------------------------------
(* The reference: leaves by their paths. *)
RECURSIVE LeafPaths(_)
LeafPaths(v) ==
  IF v.kind \in Leaves THEN {<<>>}
  ELSE UNION {{<<i>> \o p : p \in LeafPaths(v.kids[i])} : i \in DOMAIN v.kids}

At(v, path) == FoldLeft(LAMBDA u, i : u.kids[i], v, path)

(* The field that a path is in: the last struct on it says which. *)
FieldTag(v, path) ==
  LET structs == {n \in DOMAIN path : At(v, SubSeq(path, 1, n - 1)).kind = "struct"}
      n == CHOOSE n \in structs : \A m \in structs : m <= n
  IN At(v, SubSeq(path, 1, n - 1)).tags[path[n]]

(* What a leaf may come from, the first that counts: the environment, what *)
(* the file says unless it is zero, the default, zero.                     *)
Sources(kind, text, tag) ==
  LET env == IF tag.env = "" \/ environ[tag.env] = "" THEN <<>> ELSE <<environ[tag.env]>>
      def == IF tag.def = "" THEN <<>> ELSE <<tag.def>>
      known(s, table) == SelectSeq(s, LAMBDA t : t \in DOMAIN table)
      read(s, table) == [i \in DOMAIN known(s, table) |-> table[known(s, table)[i]]]
      set == IF text = Zero[kind] THEN <<>> ELSE <<text>>
  IN CASE kind = "string" -> env \o set \o def
       [] kind = "int" -> read(env, ParseInt) \o set \o read(def, ParseInt @@ ParseDuration)
       [] kind = "bool" -> read(env, ParseBool) \o set \o read(def, ParseBool)

Wanted(kind, text, tag) ==
  LET found == Append(Sources(kind, text, tag), Zero[kind])[1]
  IN IF kind = "string" THEN Decode(found) ELSE found

(* The first path that is not empty, of those that are asked for and then  *)
(* the default; the variable is not asked for beside an argument.          *)
ChosenFile ==
  LET asked == Append(args, environ.cfg)[1]
  IN SelectSeq(<<asked, dflt>>, LAMBDA path : path # "")[1]

(* Every leaf of the loaded struct, however deep, has the value of the     *)
(* environment, else of the chosen file, else the default of the field     *)
(* that it is in, and nothing else has changed: no element is lost, added  *)
(* or moved, and what was nil is nil. A chosen file that is wrong leaves   *)
(* the struct without defaults, and Load says so (config.go:50-99,         *)
(* 101-330).                                                               *)
LoadedByPrecedence ==
  LET from == IF ChosenFile = "good" THEN file ELSE Empty IN
    CASE phase = "new" -> cfg = Empty
      [] phase = "failed" -> cfg \in {Empty, file} /\ ChosenFile = "bad"
      [] phase = "loaded" ->
           /\ ChosenFile # "bad"
           /\ LeafPaths(cfg) = LeafPaths(from)
           /\ \A p \in LeafPaths(from) :
                At(cfg, p).text = Wanted(At(from, p).kind, At(from, p).text, FieldTag(from, p))
           /\ \A i \in DOMAIN from.kids : cfg.kids[i].nil = from.kids[i].nil
=============================================================================

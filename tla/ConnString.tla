----------------------------- MODULE ConnString -----------------------------
(***************************************************************************)
(* connection::connection_string() (connection.cxx): the options PQconninfo *)
(* reports for the connection, rendered as "keyword=value" pairs separated *)
(* by blanks, leaving out every option whose value equals its prevailing   *)
(* default (get_default: the environment variable when the option has one *)
(* and it is set, else the compiled-in default).  Text is a sequence of    *)
(* tokens: a keyword, "=", a value and the blank are one token each.  The *)
(* value is written as it is, without the quoting libpq's conninfo syntax *)
(* needs for an empty value or one with blanks, quotes or backslashes; at *)
(* this level of detail that loss cannot be seen, so no property is       *)
(* stated over the text (README, "Not modelled").                          *)
(***************************************************************************)
EXTENDS Integers, Sequences, SequencesExt

CONSTANTS
  Options,   \* the keywords of PQconninfo's array, in its order
  Value,     \* values an option, its variable or its compiled default has
  Null       \* a null pointer: no value, no variable, no default

ASSUME Null \notin Value

(* One entry of the PQconninfoOption array: the connection's value, the    *)
(* name of the environment variable (or none), what that variable holds   *)
(* now (Null when unset), and the compiled-in default.                     *)
Option == {o \in [val : Value \cup {Null}, envvar : BOOLEAN,
                 env : Value \cup {Null}, compiled : Value \cup {Null}] :
             ~o.envvar => o.env = Null}

(* get_default(opt). *)
GetDefault(opt) ==
  IF ~opt.envvar \/ opt.env = Null THEN opt.compiled ELSE opt.env

(* The options connection_string writes: a value, and no default or a    *)
(* default it differs from (strcmp).                                        *)
Listed(params) ==
  SelectSeq(Options, LAMBDA k : /\ params[k].val # Null
                                /\ \/ GetDefault(params[k]) = Null
                                   \/ params[k].val # GetDefault(params[k]))

(* connection_string(): usage_error without m_conn; else every listed     *)
(* option as keyword, '=', value, a blank before every one but the first.  *)
ConnectionString(open, params) ==
  IF ~open THEN [thrown |-> TRUE, value |-> <<>>]
  ELSE [thrown |-> FALSE,
        value |-> FoldLeft(LAMBDA buf, k :
                             (IF buf = <<>> THEN <<>> ELSE buf \o <<" ">>)
                             \o <<k, "=", params[k].val>>,
                           <<>>, Listed(params))]

(***************************************************************************)
(* Each state is one call: whether the connection is open, and for every  *)
(* option its value, variable, environment and compiled default.          *)
(***************************************************************************)
Calls == [op : {"connection_string"}, open : BOOLEAN,
          params : [Range(Options) -> Option]]

VARIABLE call

Init == call \in Calls

Render == \E c \in Calls : call' = c

Next == Render

Spec == Init /\ [][Next]_call
=============================================================================

----------------------------- MODULE MCOptions -----------------------------
(* An instance of Options for TLC: the three options that the code treats   *)
(* in a way of its own and one without a default value, three values.       *)
EXTENDS Options

CONSTANTS config, includepath, rootpath, randomseed, help, invalid,
          empty, x, y, none

Defaults == [o \in Option |-> IF o \in {config, rootpath} THEN x ELSE none]

\* At most one variable is set.
OneEnv == {[o \in Option |-> none]} \cup
          {[[o \in Option |-> none] EXCEPT ![p] = y] : p \in Option}

AnArg == [opt : Option, val : {x, y}] \cup [opt : {help, invalid}, val : {x}]
UpToTwo == {<<>>} \cup {<<s>> : s \in AnArg} \cup {<<s, t>> : s, t \in AnArg}

\* File x sets everything but `config' or nothing; y may be missing.
SomeDisks ==
    {[readable |-> r,
      says |-> [v \in Value |-> [o \in Option |->
                  IF v = x /\ o \in S THEN y ELSE
                  IF v = y /\ o \in S THEN empty ELSE none]]] :
        r \in {{x}, {x, y}}, S \in {{}, {randomseed}, {rootpath, includepath}}}
=============================================================================

------------------------------ MODULE MCSigning -----------------------------
(* Instances of Signing for TLC: pairs of signed images that share data,     *)
(* keys and the names of their files in tmppath.                             *)
EXTENDS Signing

x == <<"x">>
y == <<"y">>
z == <<"z">>
U == <<<<"pkcs11:u">>>>         \* a key or a certificate in a token
V == <<<<"pkcs11:v">>>>
Tokens == {U, V}

data == <<<<"data">>>>
key == <<<<"ca">>, <<"key">>>>
cert == <<<<"ca">>, <<"cert">>>>

Input(n) == [kind |-> "file", name |-> n, copy |-> FALSE]
Names == {data, key, cert, <<<<"old">>>>}
Missing == <<<<"missing">>>>

\* The images that no section describes are input files.
With(s, o) ==
    [order |-> o,
     sec |-> [i \in ToSet(o) |-> IF i \in DOMAIN s THEN s[i] ELSE Input(i)],
     input |-> Names]

Data == {[kind |-> "made"], [kind |-> "file", name |-> <<<<"old">>>>, copy |-> TRUE],
         [kind |-> "file", name |-> Missing, copy |-> TRUE]}

\* Two hash trees and a signature of one of them, of a name like it, or of data.
Trees ==
    {With([i \in {<<x, z>>, v, <<y>>, data} |->
              CASE i = <<x, z>> -> [kind |-> "verity", image |-> data, long |-> l]
                [] i = v -> [kind |-> "verity", image |-> key, long |-> FALSE]
                [] i = <<y>> -> [kind |-> "verity-sig", image |-> of, cert |-> c, key |-> k]
                [] i = data -> d],
          <<<<x, z>>, v, <<y>>, data, key, cert>>) :
        v \in {<<y, z>>, <<<<"x", "z">>>>}, l \in BOOLEAN, of \in {<<x, z>>, <<<<"x", "z">>>>, data},
        c \in {cert, U}, k \in {key, V}, d \in Data}

File1(t, i, o) == [target |-> t, image |-> i, offset |-> o]

Bundle(k, c, r, m, f, lines) ==
    [kind |-> "rauc", key |-> k, cert |-> c, keyring |-> r, intermediate |-> m,
     content |-> f, manifest |-> lines]

Contents1 ==
    {<<>>, <<File1(<<>>, data, 0)>>, <<File1(<<x, y>>, data, 1), File1(<<>>, data, 0)>>,
     <<File1(<<x, y>>, data, 0), File1(<<x>>, data, 0)>>,
     <<File1(<<x>>, data, 0), File1(<<x, y>>, data, 0)>>,
     <<File1(<<x, y>>, data, 0), File1(<<x>>, data, 1)>>}

\* Two bundles, the second one with a shorter manifest.
Bundles ==
    {With([i \in {<<x, z>>, v, data} |->
              CASE i = <<x, z>> -> Bundle(k, c, r, m, f, <<"m1", "m2">>)
                [] i = v -> Bundle(U, cert, <<>>, <<>>, <<File1(<<y>>, data, 0)>>, <<"m3">>)
                [] i = data -> [kind |-> "made"]],
          <<<<x, z>>, v, data, key, cert>>) :
        v \in {<<y, z>>, <<<<"x", "z">>>>}, k \in {key, V}, c \in {cert, U},
        r \in {<<>>, <<cert>>}, m \in {<<>>, <<cert, U>>, <<V, U>>}, f \in Contents1}

SomeConfigs == Trees \cup Bundles
=============================================================================

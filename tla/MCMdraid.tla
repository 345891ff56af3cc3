------------------------------ MODULE MCMdraid ------------------------------
(* Instances of Mdraid for TLC: up to four members.                          *)
EXTENDS Mdraid

MB == 1024 * 1024

Alone == [parent |-> 0, level |-> 1, size |-> 0, devices |-> 3, role |-> -1, data |-> 1]
Sized(m, bytes) == [m EXCEPT !.size = bytes]
Child(p) == [Alone EXCEPT !.parent = p, !.devices = 1, !.data = 0]

\* Data whose size is known at setup, a large one, and one known too late
Images == <<[setup |-> 5000, done |-> 5000], [setup |-> 2 * MB, done |-> 2 * MB],
            [setup |-> 0, done |-> 6000]>>

Parents ==
    {Sized([Alone EXCEPT !.data = d], s) : d \in 0..3, s \in {0, 2 * MB, 2 * MB + 512}}
      \cup {[Alone EXCEPT !.devices = n] : n \in {1, 2, TwoTo16 + 2}}
      \cup {[Alone EXCEPT !.role = 2], [Alone EXCEPT !.level = 5]}

\* A child of the first member, one with options of its own that it should
\* not have, one with a role, one of the second member, one of its own.
Options ==
    {Child(1), [Child(1) EXCEPT !.data = 2, !.size = 3 * MB],
     [Child(1) EXCEPT !.role = 2], [Child(1) EXCEPT !.role = TwoTo16 + 1],
     Child(2), Child(3), Alone}

Arrays(n) == {<<p>> \o c : p \in Parents, c \in [1..n -> Options]}
SomeConfigs ==
    {[members |-> m, images |-> Images] : m \in Arrays(0) \cup Arrays(1) \cup Arrays(2)}
      \cup {[members |-> <<Alone>> \o c, images |-> Images] :
              c \in [1..3 -> {Child(1), Child(2), Alone}]}
=============================================================================

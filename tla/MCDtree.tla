------------------------------ MODULE MCDtree ------------------------------
(***************************************************************************)
(* Instances of Dtree for TLC.                                             *)
(***************************************************************************)
EXTENDS Dtree

Dir(p, n) == [parent |-> p, name |-> n]

\* x/x, or x/x/x, below the root path x, and the root paths x and y/x, where y
\* is not watched.
Two == <<Dir(Top, "x"), Dir(1, "x")>>
Nested == <<Dir(Top, "x"), Dir(1, "x"), Dir(2, "x")>>
Pair == <<Dir(Top, "x"), Dir(Top, "y"), Dir(2, "x")>>

Setup(start, paths, changes, lines) ==
    [tree |-> start, roots |-> paths, ops |-> changes, commands |-> lines]

MCSetups == { Setup(Two, << <<"x">> >>, 3, 0),
              Setup(Two, << <<"x">> >>, 2, 1),
              Setup(Nested, << <<"x">> >>, 2, 0),
              Setup(Pair, << <<"x">>, <<"y", "x">> >>, 2, 0) }

\* For Follows: two changes, and no command.
FollowsSetups == {Setup(Nested, << <<"x">> >>, 2, 0)}
=============================================================================

---------------------------- MODULE MCConnections ----------------------------
(***************************************************************************)
(* Instances of module Connections for TLC.                                *)
(***************************************************************************)
EXTENDS Connections, TLC

\* A Kiwi user with both streams and an extension, a recorder and an autorun.
McUsers == {<<"s1", "SND">>, <<"s1", "WF">>, <<"s1", "EXT">>, <<"s2", "SND">>, <<"a", "SND">>}

\* A user with a waterfall and an extension, and an autorun.
McFails == {<<"s1", "SND">>, <<"s1", "WF">>, <<"s1", "EXT">>, <<"a", "SND">>}

\* Two users, one of them with a waterfall, and an autorun.
McVictim == {<<"s1", "SND">>, <<"s1", "WF">>, <<"s2", "SND">>, <<"a", "SND">>}

\* Two users with waterfalls.
McPairs == {<<"s1", "SND">>, <<"s1", "WF">>, <<"s2", "SND">>, <<"s2", "WF">>}
=============================================================================

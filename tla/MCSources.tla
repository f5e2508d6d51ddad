------------------------------ MODULE MCSources ------------------------------
(***************************************************************************)
(* What the adapters of SourceProjection are asked for and may find: each  *)
(* format well formed, cut short and malformed, and for each something     *)
(* else that other programs write over it or put in its place.             *)
(***************************************************************************)
EXTENDS Integers, Sequences

\* Metadata of the two dialects; segments are pairs of a start and a frequency.
Core(order, segments) ==
  [dialect |-> "core", order |-> order, declared |-> 0, fit |-> TRUE, segments |-> segments]
Osu(samples, segments) ==
  [dialect |-> "osu", order |-> "none", declared |-> samples, fit |-> TRUE, segments |-> segments]

Array(rank, says) == [rank |-> rank, says |-> says]
Row(source, mark) == [source |-> source, mark |-> mark]
Version(v) == [version |-> v]

MCRequests ==
  [npy     |-> [first : 0 .. 2, count : {1, 2}, rank : {1, 2}],
   sigmf   |-> [first : 0 .. 2, count : {1, 2}, dialect : {"auto"}, order : {"none"}]
               \cup [first : {1}, count : {1}, dialect : {"core", "osu"}, order : {"le"}],
   zeek    |-> [rows : {1, 2}],
   sdr4iot |-> [rows : {1, 2}],
   kismet  |-> [rows : {1, 2}, source : {"any", "a"}]]

\* Samples of two bytes, the last one cut in the second core recording.
MCStanding ==
  [npy     |-> [array : {<<Array(1, 1), 1>>, <<Array(1, 2), 1, 1>>, <<Array(2, 2), 2, 2>>,
                         <<Array(1, 2), 1>>}],
   sigmf   |-> [meta : {<<Core("le", <<<<0, 5>>>>)>>, <<Core("be", <<<<0, 5>>, <<2, 6>>>>)>>,
                        <<[Core("le", <<>>) EXCEPT !.fit = FALSE]>>, <<Core("be", <<<<1, 5>>>>)>>,
                        <<Osu(1, <<<<0, 5>>, <<1, 5>>>>)>>},
                core : {<<1, 1, 1, 1>>, <<2, 2, 2>>}, osu : {<<3, 3, 3, 3>>}]
               \cup [meta : {<<Osu(2, <<<<0, 5>>>>)>>}, core : {<<1, 1>>}, osu : {<<>>}],
   zeek    |-> [log : {<<"open", 2, 1, -1>>, <<"plain", 2, 1>>, <<"plain", 2, -1>>, <<"bad", 1>>,
                       <<"open", 3, 0, 1>>, <<"open", -1, 1>>, <<"open", -2>>, <<"open", 1, -3>>,
                       <<"open", 2, 1, 2>>}],
   sdr4iot |-> [csv : {<<"csv", 2, 1>>, <<"csv", 0, 3, 3, 0>>, <<"csv", -3>>, <<"csv", 1, 2, 3>>,
                       <<"bad", 1>>}],
   kismet  |-> [db : {<<Version(8)>>, <<Version(10)>>,
                      <<Version(10), Row("a", "good"), Row("a", "error")>>,
                      <<Version(9), Row("b", "good"), Row("a", "good")>>,
                      <<Version(9), Row("a", "good"), Row("a", "good"), Row("a", "invalid")>>}]]

MCOthers ==
  [npy     |-> [array |-> {<<Array(1, 2), 3, 3>>}],
   sigmf   |-> [meta |-> {<<Core("be", <<<<0, 7>>, <<1, 8>>>>)>>}, core |-> {<<4, 4, 4, 4>>},
                osu |-> {}],
   zeek    |-> [log |-> {<<"open", 5, 1, -1>>}],
   sdr4iot |-> [csv |-> {<<"csv", 4, 4>>}],
   kismet  |-> [db |-> {<<Version(10), Row("a", "error"), Row("a", "good")>>}]]

=============================================================================

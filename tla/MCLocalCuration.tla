--------------------------- MODULE MCLocalCuration ---------------------------
EXTENDS LocalCuration, TLC

CONSTANTS night, other, procA, procB

MCTopics   == {1, 2}
MCSizes    == {1, 3}
MCMentions == {<<1, 2>>}
MCFolder   == <<1, Container, Container>>

Curating(curators, sessions, silent, pages, updates, writes) ==
  [parts |-> {"curator"}, curators |-> curators, sessions |-> sessions, silent |-> silent,
   runners |-> {}, lock |-> "lease", pages |-> pages, updates |-> updates, writes |-> writes,
   stops |-> 0]
Maintaining(runners, lock, pages, mayStop) ==
  [parts |-> {"automation"}, curators |-> {}, sessions |-> {}, silent |-> {}, runners |-> runners,
   lock |-> lock, pages |-> pages, updates |-> 0, writes |-> 2 - Cardinality(pages),
   stops |-> mayStop]

MCSettings ==
  {Curating({night}, {1, 2}, {}, {}, 2, 0), Curating({night}, {1, 2}, {1}, {}, 2, 0),
   Curating({night}, {2, 3}, {}, {}, 2, 0),
   Curating({night}, {1}, {}, {1}, 2, 1), Curating({night, other}, {2}, {}, {}, 1, 0),
   Curating({night, other}, {1}, {}, {1}, 1, 0),
   Maintaining({procA, procB}, "lease", {1, 2}, 1), Maintaining({procA, Operator}, "lease", {1}, 0),
   Maintaining({procA, procB}, "advisory", {1}, 1)}
=============================================================================

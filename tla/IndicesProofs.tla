---------------------------- MODULE IndicesProofs ----------------------------
(***************************************************************************)
(* What module Indices keeps for every set of documents and requests and   *)
(* every value of the bounds: once it is set the alias names one index,    *)
(* and that index holds what was written through it.                       *)
(***************************************************************************)
EXTENDS Indices, FiniteSetTheorems, TLAPS

\* A reindex that owns the index it made, and one whose copy is complete.
Owns(r) == req[r].op = "reindex" /\ req[r].at \in {"copy", "get", "update"}
HasCopied(r) == req[r].op = "reindex" /\ req[r].at \in {"get", "update"}

\* Every reindex makes an index of its own, younger than the one it copies; a deletion
\* did not see its index behind the alias.
RequestsInv ==
    /\ \A i \in exists : i <= made
    /\ \A r \in Requests :
        /\ req[r].at = "copy" => req[r].op = "reindex" /\ req[r].new # req[r].target
        /\ req[r].at = "create" => req[r].target <= made
        /\ Owns(r) => req[r].new \in 1..made
        /\ req[r].at = "delete" => req[r].target \notin req[r].seen
    /\ \A r, o \in Requests : Owns(r) /\ Owns(o) /\ req[r].new = req[o].new => r = o

\* The alias has no index before it is set, one afterwards.
AliasInv ==
    /\ ~established => alias = {}
    /\ established /\ ~astray => \E i \in alias : alias = {i}

\* The store's clock does not run backwards.
DatesInv ==
    \A d \in Docs : \A v, w \in 0..MaxVersion : v <= w => dates[d][v] <= dates[d][w]

\* What the indices hold of a document that nobody put at risk. A copy is as good as
\* the index it was made from, for whoever writes meanwhile excuses his document; and
\* before the alias is set nothing is acknowledged but by the index of its name.
ContentInv(d) ==
    /\ \A i \in Index : Target = {i} => content[i][d].ver = acked[d]
    /\ \A r \in Requests :
          HasCopied(r) /\ req[r].new \in exists => content[req[r].new][d].ver = acked[d]
    /\ established => alias # {}
    /\ ~established /\ AliasName \notin exists =>
          acked[d] = 0 /\ \A i \in Index : content[i][d].ver = 0

IdxInv ==
    /\ IdxTypeOK /\ RequestsInv /\ AliasInv /\ DatesInv
    /\ \A d \in Docs : d \notin excused => ContentInv(d)

-----------------------------------------------------------------------------
(* Types.                                                                  *)

LEMMA Bounds ==
    /\ MaxIndices \in Nat /\ MaxVersion \in Nat /\ MaxFaults \in Nat /\ MaxStarts \in Nat
    /\ LastSecond \in Nat /\ FirstSecond = 2 /\ FirstSecond \in Second /\ Second \subseteq Nat
    /\ AliasName = 0 /\ 0 \in Index /\ Index \subseteq Nat
  BY IndicesAssumption DEF Index, AliasName, FirstSecond, Second

LEMMA Typed ==
    ASSUME IdxTypeOK
    PROVE  /\ alias \subseteq exists /\ exists \subseteq Index /\ AliasName \notin alias
           /\ content \in [Index -> [Docs -> Document]]
           /\ \A i \in Index, d \in Docs : content[i][d] \in Document
           /\ made \in Index /\ req \in [Requests -> Request]
           /\ \A r \in Requests : req[r] \in Request
           /\ acked \in [Docs -> 0..MaxVersion] /\ \A d \in Docs : acked[d] \in 0..MaxVersion
           /\ scope \in Scopes /\ scope.faults \in 0..MaxFaults /\ scope.indices \in 0..MaxIndices
           /\ scope.versions \in 0..MaxVersion
           /\ faults \in 0..scope.faults /\ starts \in 0..MaxStarts
           /\ tasks \subseteq Task /\ source \in [Docs -> 0..MaxVersion]
           /\ dates \in [Docs -> [0..MaxVersion -> Second]]
           /\ established \in BOOLEAN /\ astray \in BOOLEAN /\ excused \subseteq Docs
  <1>1. /\ scope.faults \in 0..MaxFaults /\ scope.indices \in 0..MaxIndices
        /\ scope.versions \in 0..MaxVersion
    BY IndicesAssumption DEF IdxTypeOK
  <1> QED
    BY <1>1 DEF IdxTypeOK

LEMMA DocumentFields ==
    ASSUME NEW doc \in Document
    PROVE  doc.ver \in 0..MaxVersion /\ doc.guard \in 0..(LastSecond + 1)
           /\ doc.shown \in 0..MaxVersion
  BY DEF Document

LEMMA DocumentMade ==
    ASSUME NEW v \in 0..MaxVersion, NEW g \in 0..(LastSecond + 1), NEW w \in 0..MaxVersion
    PROVE  LET doc == [ver |-> v, guard |-> g, shown |-> w]
           IN doc \in Document /\ doc.ver = v /\ doc.guard = g /\ doc.shown = w
  BY DEF Document

LEMMA FreshIsDocument == Fresh \in Document /\ Fresh.ver = 0 /\ Fresh.guard = 0
  BY Bounds DEF Document, Fresh

LEMMA EmptyIndex == Empty \in [Docs -> Document] /\ \A d \in Docs : Empty[d].ver = 0
  BY FreshIsDocument DEF Empty

LEMMA RequestFields ==
    ASSUME NEW q \in Request
    PROVE  /\ q.op \in Ops /\ q.at \in Steps /\ q.target \in Index /\ q.new \in Index
           /\ q.seen \subseteq Index /\ q.failed \in BOOLEAN
  BY DEF Request

LEMMA RequestMade ==
    ASSUME NEW o \in Ops, NEW a \in Steps, NEW t \in Index, NEW n \in Index,
           NEW s \in SUBSET Index, NEW f \in BOOLEAN
    PROVE  LET q == [op |-> o, at |-> a, target |-> t, new |-> n, seen |-> s, failed |-> f]
           IN /\ q \in Request /\ q.op = o /\ q.at = a /\ q.target = t /\ q.new = n
              /\ q.seen = s
  BY DEF Request

LEMMA IdleIsRequest ==
    /\ Idle \in Request /\ Idle.op = "idle" /\ Idle.at = "idle" /\ Idle.target = 0
    /\ Idle.new = 0
  BY Bounds DEF Idle, Request, Ops, Steps

-----------------------------------------------------------------------------
(* Requests that only read, begin or end.                                  *)

\* r goes from step to step beside which nothing moves.
Continues(r) ==
    /\ UNCHANGED <<exists, alias, content, made, outside, tasks, acked, established, astray,
                   excused>>
    /\ faults' \in 0..scope.faults /\ starts' \in 0..MaxStarts
    /\ req' \in [Requests -> Request]
    /\ \A o \in Requests \ {r} : req'[o] = req[o]
    /\ req'[r].at = "create" => req'[r].target <= made
    /\ req'[r].at # "copy"
    /\ req'[r].op = "reindex" /\ req'[r].at \in {"get", "update"} =>
          HasCopied(r) /\ req'[r].new = req[r].new
    /\ req'[r].at = "delete" => req'[r].target \notin req'[r].seen

LEMMA DatesKept ==
    ASSUME IdxInv, UNCHANGED outside
    PROVE  DatesInv' /\ UNCHANGED <<scope, source, dates>>
  <1>1. UNCHANGED <<scope, source, dates>>
    BY DEF outside
  <1> QED
    BY <1>1 DEF IdxInv, DatesInv

LEMMA ContinuesKeeps ==
    ASSUME IdxInv, NEW r \in Requests, Continues(r)
    PROVE  IdxInv'
  <1>1. IdxTypeOK'
    BY DEF IdxInv, IdxTypeOK, Continues, outside
  <1>2. \A o \in Requests : /\ HasCopied(o)' => HasCopied(o) /\ req'[o].new = req[o].new
                            /\ Owns(o)' => Owns(o) /\ req'[o].new = req[o].new
    BY DEF Continues, HasCopied, Owns
  <1>3. RequestsInv'
    <2>1. \A i \in exists' : i <= made'
      BY DEF IdxInv, RequestsInv, Continues
    <2>2. \A o \in Requests :
            /\ req'[o].at = "copy" => req'[o].op = "reindex" /\ req'[o].new # req'[o].target
            /\ req'[o].at = "create" => req'[o].target <= made'
            /\ req'[o].at = "delete" => req'[o].target \notin req'[o].seen
      BY DEF IdxInv, RequestsInv, Continues
    <2>3. \A o \in Requests : Owns(o)' => req'[o].new \in 1..made'
      BY <1>2 DEF IdxInv, RequestsInv, Continues
    <2>4. \A o, p \in Requests :
            Owns(o)' /\ Owns(p)' /\ req'[o].new = req'[p].new => o = p
      BY <1>2 DEF IdxInv, RequestsInv
    <2> QED
      BY <2>1, <2>2, <2>3, <2>4 DEF RequestsInv
  <1>4. AliasInv'
    BY DEF IdxInv, AliasInv, Continues
  <1>5. ASSUME NEW d \in Docs, d \notin excused'
        PROVE  ContentInv(d)'
    <2>1. ContentInv(d)
      BY <1>5 DEF IdxInv, Continues
    <2>2. \A o \in Requests :
            HasCopied(o)' /\ req'[o].new \in exists' => content'[req'[o].new][d].ver = acked'[d]
      BY <1>2, <2>1 DEF ContentInv, Continues
    <2> QED
      BY <2>1, <2>2 DEF ContentInv, Continues, Target
  <1> QED
    BY <1>1, <1>3, <1>4, <1>5, DatesKept DEF IdxInv, Continues

\* A request that begins.
LEMMA BeginsContinues ==
    ASSUME IdxInv, NEW r \in Requests, NEW q \in Request, Begin(r, q),
           UNCHANGED <<esVars, outside, tasks, history>>, faults' \in 0..scope.faults,
           q.at = "create" => q.target <= made,
           q.at # "copy", ~(q.op = "reindex" /\ q.at \in {"get", "update"}),
           q.at = "delete" => q.target \notin q.seen
    PROVE  Continues(r)
  <1>1. req \in [Requests -> Request] /\ starts \in 0..MaxStarts
    BY Typed DEF IdxInv
  <1>2. starts' \in 0..MaxStarts
    BY <1>1, Bounds DEF Begin
  <1>3. /\ req' \in [Requests -> Request] /\ req'[r] = q
        /\ \A o \in Requests \ {r} : req'[o] = req[o]
    BY <1>1 DEF Begin
  <1> QED
    BY <1>2, <1>3 DEF Continues, esVars, history

LEMMA ReadsOfTheAlias ==
    ASSUME IdxInv, NEW read \in AliasReads
    PROVE  /\ read.seen \subseteq Index /\ read.failed \in BOOLEAN
           /\ Charged(read) => faults' \in 0..scope.faults
  <1>1. faults \in 0..scope.faults /\ scope.faults \in Nat /\ alias \subseteq Index
    BY Typed, Bounds DEF IdxInv
  <1>2. CASE read = [seen |-> alias, failed |-> FALSE]
    <2>1. read.seen = alias /\ read.failed = FALSE
      BY <1>2
    <2>2. Charged(read) => faults' = faults
      BY <1>1, <2>1 DEF Charged
    <2> QED
      BY <1>1, <2>1, <2>2
  <1>3. CASE \E fault \in (faults + 1)..scope.faults : read = [seen |-> {}, failed |-> TRUE]
    <2>1. read.seen = {} /\ read.failed = TRUE /\ faults + 1 <= scope.faults
      BY <1>1, <1>3, Bounds
    <2>2. Charged(read) => faults' = faults + 1
      BY <1>1, <2>1 DEF Charged
    <2>3. faults + 1 \in 0..scope.faults
      BY <1>1, <2>1, Bounds
    <2> QED
      BY <2>1, <2>2, <2>3
  <1> QED
    BY <1>2, <1>3 DEF AliasReads

LEMMA EnsureStartsKeeps ==
    ASSUME IdxInv, NEW r \in Requests, EnsureStarts(r)
    PROVE  IdxInv'
  <1> DEFINE q == [Idle EXCEPT !.op = "ensure", !.at = "create"]
  <1>1. q \in Request /\ q.op = "ensure" /\ q.at = "create" /\ q.target = 0
    BY IdleIsRequest DEF Request, Ops, Steps
  <1>2. Begin(r, q) /\ UNCHANGED <<esVars, outside, tasks, history>> /\ faults' \in 0..scope.faults
    BY ReadsOfTheAlias DEF EnsureStarts
  <1>3. 0 <= made
    BY Typed DEF IdxInv, Index
  <1> HIDE DEF q
  <1> QED
    BY <1>1, <1>2, <1>3, BeginsContinues, ContinuesKeeps

LEMMA ReindexStartsKeeps ==
    ASSUME IdxInv, NEW r \in Requests, NEW i \in exists, ReindexStarts(r, i)
    PROVE  IdxInv'
  <1> DEFINE q == [Idle EXCEPT !.op = "reindex", !.at = "create", !.target = i]
  <1>1. i \in Index /\ i <= made /\ faults \in 0..scope.faults
    BY Typed DEF IdxInv, RequestsInv
  <1>2. q \in Request /\ q.op = "reindex" /\ q.at = "create" /\ q.target = i
    BY <1>1, IdleIsRequest DEF Request, Ops, Steps
  <1>3. Begin(r, q) /\ UNCHANGED <<esVars, outside, tasks, history>> /\ faults' \in 0..scope.faults
    BY <1>1 DEF ReindexStarts
  <1> HIDE DEF q
  <1> QED
    BY <1>1, <1>2, <1>3, BeginsContinues, ContinuesKeeps

LEMMA PointStartsKeeps ==
    ASSUME IdxInv, NEW r \in Requests, NEW i \in exists, PointStarts(r, i)
    PROVE  IdxInv'
  <1> DEFINE q == [Idle EXCEPT !.op = "point", !.at = "get", !.new = i]
  <1>1. i \in Index /\ faults \in 0..scope.faults
    BY Typed DEF IdxInv
  <1>2. q \in Request /\ q.op = "point" /\ q.at = "get"
    BY <1>1, IdleIsRequest DEF Request, Ops, Steps
  <1>3. Begin(r, q) /\ UNCHANGED <<esVars, outside, tasks, history>> /\ faults' \in 0..scope.faults
    BY <1>1 DEF PointStarts
  <1> HIDE DEF q
  <1> QED
    BY <1>2, <1>3, BeginsContinues, ContinuesKeeps

LEMMA DeleteStartsKeeps ==
    ASSUME IdxInv, NEW r \in Requests, NEW i \in exists, DeleteStarts(r, i)
    PROVE  IdxInv'
  <1>1. PICK read \in AliasReads :
          /\ i \notin read.seen /\ Charged(read)
          /\ Begin(r, [op |-> "delete", at |-> "delete", target |-> i, new |-> 0,
                       seen |-> read.seen, failed |-> read.failed])
    BY DEF DeleteStarts
  <1> DEFINE q == [op |-> "delete", at |-> "delete", target |-> i, new |-> 0,
                   seen |-> read.seen, failed |-> read.failed]
  <1>2. i \in Index /\ read.seen \subseteq Index /\ read.failed \in BOOLEAN
        /\ faults' \in 0..scope.faults
    BY <1>1, Typed, ReadsOfTheAlias DEF IdxInv
  <1>3. q \in Request /\ q.op = "delete" /\ q.at = "delete" /\ q.target = i
        /\ q.seen = read.seen
    BY <1>2, Bounds DEF Request, Ops, Steps
  <1>4. Begin(r, q) /\ UNCHANGED <<esVars, outside, tasks, history>>
    BY <1>1 DEF DeleteStarts
  <1> HIDE DEF q
  <1> QED
    BY <1>1, <1>2, <1>3, <1>4, BeginsContinues, ContinuesKeeps

\* A request that ends, refused or failed.
LEMMA EndsKeeps ==
    ASSUME IdxInv, NEW r \in Requests,
           CreateRefused(r) \/ CopyFails(r) \/ UpdateRefused(r)
    PROVE  IdxInv'
  <1>1. /\ UNCHANGED <<exists, alias, content, made, outside, tasks, faults, acked, established,
                       astray, excused, starts>>
        /\ req' = [req EXCEPT ![r] = Idle]
    BY DEF CreateRefused, CopyFails, UpdateRefused, Done, esVars, history
  <1>2. /\ req' \in [Requests -> Request] /\ req'[r] = Idle
        /\ \A o \in Requests \ {r} : req'[o] = req[o]
        /\ faults' \in 0..scope.faults /\ starts' \in 0..MaxStarts
    BY <1>1, Typed, IdleIsRequest DEF IdxInv
  <1>3. Continues(r)
    BY <1>1, <1>2, IdleIsRequest DEF Continues
  <1> QED
    BY <1>3, ContinuesKeeps

LEMMA GetAliasKeeps ==
    ASSUME IdxInv, NEW r \in Requests, GetAlias(r)
    PROVE  IdxInv'
  <1>1. PICK read \in AliasReads :
          /\ Charged(read)
          /\ req' = [req EXCEPT ![r].at = "update", ![r].seen = read.seen,
                                ![r].failed = read.failed]
    BY DEF GetAlias
  <1> DEFINE q == [req[r] EXCEPT !.at = "update", !.seen = read.seen, !.failed = read.failed]
  <1>2. /\ req \in [Requests -> Request] /\ req[r] \in Request /\ starts \in 0..MaxStarts
        /\ read.seen \subseteq Index /\ read.failed \in BOOLEAN /\ faults' \in 0..scope.faults
    BY <1>1, Typed, ReadsOfTheAlias DEF IdxInv
  <1>3. q \in Request /\ q.at = "update" /\ q.op = req[r].op /\ q.new = req[r].new
    BY <1>2 DEF Request, Steps
  <1>4. req' = [req EXCEPT ![r] = q]
    BY <1>1, <1>2 DEF Request
  <1> HIDE DEF q
  <1>5. /\ req' \in [Requests -> Request] /\ req'[r] = q
        /\ \A o \in Requests \ {r} : req'[o] = req[o]
    BY <1>2, <1>3, <1>4
  <1>6. /\ UNCHANGED <<exists, alias, content, made, outside, tasks, acked, established,
                       astray, excused, starts>>
        /\ req[r].at = "get"
    BY DEF GetAlias, esVars, history
  <1>7. Continues(r)
    BY <1>2, <1>3, <1>5, <1>6 DEF Continues, HasCopied
  <1> QED
    BY <1>7, ContinuesKeeps

-----------------------------------------------------------------------------
(* Requests that change the indices.                                       *)

LEMMA RequestMoves ==
    ASSUME IdxInv, NEW r \in Requests, NEW q \in Request, req' = [req EXCEPT ![r] = q]
    PROVE  /\ req' \in [Requests -> Request] /\ req'[r] = q
           /\ \A o \in Requests \ {r} : req'[o] = req[o]
  BY Typed DEF IdxInv

\* The documents of one index are replaced.
LEMMA IndexReplaced ==
    ASSUME IdxInv, NEW n \in Index, NEW docs \in [Docs -> Document],
           content' = [content EXCEPT ![n] = docs]
    PROVE  /\ content' \in [Index -> [Docs -> Document]] /\ content'[n] = docs
           /\ \A i \in Index \ {n} : content'[i] = content[i]
  BY Typed DEF IdxInv

LEMMA CreateIndexKeeps ==
    ASSUME IdxInv, NEW r \in Requests, CreateIndex(r)
    PROVE  IdxInv'
  <1> DEFINE n == made + 1
             q == [req[r] EXCEPT !.new = n,
                                 !.at = IF req[r].op = "reindex" THEN "copy" ELSE "get"]
  <1>1. /\ UNCHANGED <<alias, outside, tasks, faults, acked, established, astray, excused, starts>>
        /\ req[r].at = "create" /\ made < scope.indices /\ made' = n /\ exists' = exists \cup {n}
        /\ content' = [content EXCEPT ![n] = Empty]
    BY DEF CreateIndex, history
  <1>2. /\ made \in Nat /\ req \in [Requests -> Request] /\ req[r] \in Request
        /\ exists \subseteq Index /\ alias \subseteq exists
        /\ \A i \in exists : i <= made
    BY Typed DEF IdxInv, Index, RequestsInv
  <1>3. n \in Index /\ n \in Nat /\ n # 0 /\ n \notin exists
    <2>1. made < MaxIndices
      BY <1>1, <1>2, Typed, Bounds DEF IdxInv
    <2> QED
      BY <1>2, <2>1, Bounds DEF Index
  <1>4. req' = [req EXCEPT ![r] = q]
    BY <1>2 DEF CreateIndex, Request
  <1>5. /\ q \in Request /\ q.op = req[r].op /\ q.new = n /\ q.target = req[r].target
        /\ q.op = "reindex" => q.at = "copy"
        /\ q.op # "reindex" => q.at = "get"
    BY <1>2, <1>3 DEF Request, Steps
  <1>6. /\ content' \in [Index -> [Docs -> Document]] /\ content'[n] = Empty
        /\ \A i \in Index \ {n} : content'[i] = content[i]
        /\ \A d \in Docs : Empty[d].ver = 0
    BY <1>1, <1>3, EmptyIndex, IndexReplaced
  <1> HIDE DEF q
  <1>7. /\ req' \in [Requests -> Request] /\ req'[r] = q
        /\ \A o \in Requests \ {r} : req'[o] = req[o]
    BY <1>4, <1>5, RequestMoves
  <1>8. Target' = Target
    BY <1>1, <1>3, Bounds DEF Target
  <1>9. IdxTypeOK'
    BY <1>1, <1>3, <1>6, <1>7 DEF IdxInv, IdxTypeOK, outside
  <1>10. \A o \in Requests :
           /\ HasCopied(o)' => HasCopied(o) /\ req'[o].new = req[o].new /\ req[o].new # n
           /\ Owns(o)' => \/ o = r /\ req'[o].new = n
                          \/ o # r /\ Owns(o) /\ req'[o].new = req[o].new
    BY <1>2, <1>5, <1>7 DEF IdxInv, RequestsInv, HasCopied, Owns
  <1>11. RequestsInv'
    <2>1. \A i \in exists' : i <= made'
      BY <1>1, <1>2, <1>3, Bounds
    <2>2. \A o \in Requests :
            /\ req'[o].at = "copy" => req'[o].op = "reindex" /\ req'[o].new # req'[o].target
            /\ req'[o].at = "delete" => req'[o].target \notin req'[o].seen
      BY <1>1, <1>2, <1>5, <1>7 DEF IdxInv, RequestsInv
    <2>3. \A o \in Requests : req'[o].at = "create" => req'[o].target <= made'
      <3> SUFFICES ASSUME NEW o \in Requests, req'[o].at = "create"
                   PROVE  req'[o].target <= made'
        OBVIOUS
      <3>1. o # r /\ req'[o] = req[o]
        BY <1>5, <1>7
      <3>2. req[o].target <= made /\ req[o].target \in Nat
        BY <3>1, Typed, RequestFields, Bounds DEF IdxInv, RequestsInv
      <3> QED
        BY <1>1, <1>2, <3>1, <3>2
    <2>4. \A o \in Requests : Owns(o) => req[o].new \in 1..made
      BY DEF IdxInv, RequestsInv
    <2>5. \A o \in Requests : Owns(o)' => req'[o].new \in 1..made'
      BY <1>1, <1>2, <1>10, <2>4
    <2>6. \A o, p \in Requests :
            Owns(o)' /\ Owns(p)' /\ req'[o].new = req'[p].new => o = p
      <3>1. \A o \in Requests : Owns(o) => req[o].new # n
        BY <1>2, <2>4
      <3> QED
        BY <1>10, <3>1 DEF IdxInv, RequestsInv
    <2> QED
      BY <2>1, <2>2, <2>3, <2>5, <2>6 DEF RequestsInv
  <1>12. AliasInv'
    BY <1>1 DEF IdxInv, AliasInv
  <1>13. ASSUME NEW d \in Docs, d \notin excused'
         PROVE  ContentInv(d)'
    <2>1. ContentInv(d)
      BY <1>1, <1>13 DEF IdxInv
    <2>2. n \notin Target
      BY <1>2, <1>3, Bounds DEF Target
    <2>3. \A i \in Index : Target' = {i} => content'[i][d].ver = acked'[d]
      <3> SUFFICES ASSUME NEW i \in Index
                   PROVE  Target' = {i} => content'[i][d].ver = acked'[d]
        OBVIOUS
      <3>1. CASE i = n
        BY <1>6, <1>8, <2>2, <3>1
      <3>2. CASE i # n
        BY <1>1, <1>6, <1>8, <2>1, <3>2 DEF ContentInv
      <3> QED
        BY <3>1, <3>2
    <2>4. \A o \in Requests : HasCopied(o)' /\ req'[o].new \in exists' =>
                                content'[req'[o].new][d].ver = acked'[d]
      <3> SUFFICES ASSUME NEW o \in Requests, HasCopied(o)', req'[o].new \in exists'
                   PROVE  content'[req'[o].new][d].ver = acked'[d]
        OBVIOUS
      <3>1. HasCopied(o) /\ req'[o].new = req[o].new /\ req[o].new # n
        BY <1>10
      <3>2. req[o].new \in exists /\ req[o].new \in Index
        BY <1>1, <1>2, <3>1
      <3> QED
        BY <1>1, <1>6, <2>1, <3>1, <3>2 DEF ContentInv
    <2>5. established' => alias' # {}
      BY <1>1, <2>1 DEF ContentInv
    <2>6. ~established' /\ AliasName \notin exists' =>
             acked'[d] = 0 /\ \A i \in Index : content'[i][d].ver = 0
      BY <1>1, <1>6, <2>1 DEF ContentInv
    <2> QED
      BY <2>3, <2>4, <2>5, <2>6 DEF ContentInv
  <1> QED
    BY <1>1, <1>9, <1>11, <1>12, <1>13, DatesKept DEF IdxInv

\* A copy of a document that no refresh is still to show is as good as the document.
LEMMA CopiesAreGood ==
    ASSUME IdxInv, NEW i \in Index
    PROVE  /\ Copies(i) \in [Docs -> Document]
           /\ \A d \in Docs \ Unrefreshed(i) : Copies(i)[d].ver = content[i][d].ver
  <1> DEFINE guard(d) == IF content[i][d].shown = 0 THEN 0 ELSE 1
             copy(d) == [ver |-> content[i][d].shown, guard |-> guard(d), shown |-> 0]
  <1>1. ASSUME NEW d \in Docs
        PROVE  copy(d) \in Document /\ copy(d).ver = content[i][d].shown
    <2>1. content[i][d].shown \in 0..MaxVersion
      BY Typed, DocumentFields DEF IdxInv
    <2>2. guard(d) \in 0..(LastSecond + 1) /\ 0 \in 0..MaxVersion
      BY Bounds
    <2> QED
      BY <2>1, <2>2, DocumentMade
  <1>2. Copies(i) = [d \in Docs |-> copy(d)]
    BY DEF Copies
  <1> HIDE DEF copy
  <1> QED
    BY <1>1, <1>2 DEF Unrefreshed

LEMMA CopyKeeps ==
    ASSUME IdxInv, NEW r \in Requests, Copy(r)
    PROVE  IdxInv'
  <1> DEFINE q == [req[r] EXCEPT !.at = "get"]
             n == req[r].new
             docs == Copies(req[r].target)
  <1>1. /\ UNCHANGED <<alias, made, outside, tasks, faults, acked, established, astray, starts>>
        /\ req[r].at = "copy" /\ req[r].target \in exists
        /\ content' = [content EXCEPT ![n] = docs]
        /\ exists' \subseteq exists \cup {n} /\ exists \subseteq exists'
        /\ excused' = IF Target = {req[r].target}
                        THEN excused \cup Unrefreshed(req[r].target) ELSE Docs
    BY DEF Copy
  <1>2. /\ made \in Nat /\ req \in [Requests -> Request] /\ req[r] \in Request
        /\ exists \subseteq Index /\ alias \subseteq exists /\ n \in Index
        /\ req[r].target \in Index
    BY Typed, RequestFields DEF IdxInv, Index
  <1>3. /\ req[r].op = "reindex" /\ n # req[r].target /\ n \in 1..made /\ Owns(r)
        /\ n # AliasName
    BY <1>1, <1>2, Bounds DEF IdxInv, RequestsInv, Owns
  <1>4. q \in Request /\ q.op = req[r].op /\ q.new = n /\ q.at = "get"
    BY <1>2 DEF Request, Steps
  <1>5. req' = [req EXCEPT ![r] = q]
    BY <1>2 DEF Copy, Goto, Request
  <1>6. /\ content' \in [Index -> [Docs -> Document]] /\ content'[n] = docs
        /\ \A i \in Index \ {n} : content'[i] = content[i]
        /\ \A d \in Docs \ Unrefreshed(req[r].target) :
              docs[d].ver = content[req[r].target][d].ver
    BY <1>1, <1>2, CopiesAreGood, IndexReplaced
  <1> HIDE DEF q, docs
  <1>7. /\ req' \in [Requests -> Request] /\ req'[r] = q
        /\ \A o \in Requests \ {r} : req'[o] = req[o]
    BY <1>4, <1>5, RequestMoves
  <1>8. Target' = Target
    BY <1>1, <1>3 DEF Target
  <1>9. IdxTypeOK'
    <2>1. excused' \subseteq Docs
      BY <1>1, Typed DEF IdxInv, Unrefreshed
    <2>2. scope' = scope /\ source' = source /\ dates' = dates
      BY <1>1, DatesKept
    <2> QED
      BY <1>1, <1>2, <1>6, <1>7, <2>1, <2>2 DEF IdxInv, IdxTypeOK
  <1>10. \A o \in Requests :
           /\ Owns(o)' => Owns(o) /\ req'[o].new = req[o].new
           /\ HasCopied(o)' /\ o # r => HasCopied(o) /\ req[o].new # n
    <2>1. \A o \in Requests : Owns(o)' => Owns(o) /\ req'[o].new = req[o].new
      BY <1>3, <1>4, <1>7 DEF Owns
    <2>2. \A o \in Requests : HasCopied(o)' /\ o # r => HasCopied(o)
      BY <1>7 DEF HasCopied
    <2>3. \A o \in Requests : HasCopied(o) => Owns(o)
      BY DEF HasCopied, Owns
    <2> QED
      BY <1>3, <2>1, <2>2, <2>3 DEF IdxInv, RequestsInv
  <1>11. RequestsInv'
    <2>1. \A i \in exists' : i <= made'
      BY <1>1, <1>2, <1>3 DEF IdxInv, RequestsInv
    <2>2. \A o \in Requests :
            /\ req'[o].at = "copy" => req'[o].op = "reindex" /\ req'[o].new # req'[o].target
            /\ req'[o].at = "create" => req'[o].target <= made'
            /\ req'[o].at = "delete" => req'[o].target \notin req'[o].seen
      BY <1>1, <1>4, <1>7 DEF IdxInv, RequestsInv
    <2>3. \A o \in Requests : Owns(o)' => req'[o].new \in 1..made'
      BY <1>1, <1>10 DEF IdxInv, RequestsInv
    <2>4. \A o, p \in Requests :
            Owns(o)' /\ Owns(p)' /\ req'[o].new = req'[p].new => o = p
      BY <1>10 DEF IdxInv, RequestsInv
    <2> QED
      BY <2>1, <2>2, <2>3, <2>4 DEF RequestsInv
  <1>12. AliasInv'
    BY <1>1 DEF IdxInv, AliasInv
  <1>13. ASSUME NEW d \in Docs, d \notin excused'
         PROVE  ContentInv(d)'
    <2>1. Target = {req[r].target} /\ ContentInv(d) /\ d \notin Unrefreshed(req[r].target)
      BY <1>1, <1>13 DEF IdxInv
    <2>2. content[req[r].target][d].ver = acked[d]
      BY <1>2, <2>1 DEF ContentInv
    <2>3. \A i \in Index : Target' = {i} => content'[i][d].ver = acked'[d]
      <3> SUFFICES ASSUME NEW i \in Index
                   PROVE  Target' = {i} => content'[i][d].ver = acked'[d]
        OBVIOUS
      <3>1. CASE i = n
        BY <1>3, <1>8, <2>1, <3>1
      <3>2. CASE i # n
        BY <1>1, <1>6, <1>8, <2>1, <3>2 DEF ContentInv
      <3> QED
        BY <3>1, <3>2
    <2>4. \A o \in Requests : HasCopied(o)' /\ req'[o].new \in exists' =>
                                content'[req'[o].new][d].ver = acked'[d]
      <3> SUFFICES ASSUME NEW o \in Requests, HasCopied(o)', req'[o].new \in exists'
                   PROVE  content'[req'[o].new][d].ver = acked'[d]
        OBVIOUS
      <3>1. CASE o = r
        <4>1. req'[o].new = n /\ content'[n][d].ver = content[req[r].target][d].ver
          BY <1>4, <1>6, <1>7, <2>1, <3>1
        <4> QED
          BY <1>1, <2>2, <4>1
      <3>2. CASE o # r
        <4>1. HasCopied(o) /\ req[o].new # n /\ req'[o] = req[o]
          BY <1>7, <1>10, <3>2
        <4>2. req[o].new \in exists /\ req[o].new \in Index
          BY <1>1, <1>2, <4>1
        <4> QED
          BY <1>1, <1>6, <2>1, <4>1, <4>2 DEF ContentInv
      <3> QED
        BY <3>1, <3>2
    <2>5. established' => alias' # {}
      BY <1>1, <2>1 DEF ContentInv
    <2>6. ~(~established' /\ AliasName \notin exists')
      BY <1>1, <2>1, Bounds DEF IdxInv, AliasInv, Target
    <2> QED
      BY <2>3, <2>4, <2>5, <2>6 DEF ContentInv
  <1> QED
    BY <1>1, <1>9, <1>11, <1>12, <1>13, DatesKept DEF IdxInv

LEMMA UpdateAliasesKeeps ==
    ASSUME IdxInv, NEW r \in Requests, UpdateAliases(r)
    PROVE  IdxInv'
  <1> DEFINE n == req[r].new
  <1>1. /\ UNCHANGED <<exists, content, made, outside, tasks, faults, acked, starts>>
        /\ req[r].at = "update" /\ n \in exists /\ AliasName \notin exists
        /\ alias' = (alias \ Replaced(r)) \cup {n}
        /\ established' = TRUE
        /\ astray' \in BOOLEAN /\ (~astray' => ~astray /\ alias = req[r].seen)
        /\ excused' = IF ~established \/ req[r].op = "reindex" \/ alias = {n}
                      THEN excused ELSE Docs
        /\ req' = [req EXCEPT ![r] = Idle]
    BY Typed DEF UpdateAliases, Done, IdxInv
  <1>2. n \in Index /\ n # AliasName /\ alias' \subseteq exists /\ AliasName \notin alias'
    BY <1>1, Typed DEF IdxInv
  <1>3. /\ req' \in [Requests -> Request] /\ req'[r] = Idle
        /\ \A o \in Requests \ {r} : req'[o] = req[o]
    BY <1>1, IdleIsRequest, RequestMoves
  <1>4. \A o \in Requests : /\ HasCopied(o)' => HasCopied(o) /\ req'[o].new = req[o].new
                            /\ Owns(o)' => Owns(o) /\ req'[o].new = req[o].new
    BY <1>3, IdleIsRequest DEF HasCopied, Owns
  <1>5. IdxTypeOK'
    BY <1>1, <1>2, <1>3 DEF IdxInv, IdxTypeOK, outside
  <1>6. RequestsInv'
    <2>1. \A i \in exists' : i <= made'
      BY <1>1 DEF IdxInv, RequestsInv
    <2>2. \A o \in Requests :
            /\ req'[o].at = "copy" => req'[o].op = "reindex" /\ req'[o].new # req'[o].target
            /\ req'[o].at = "create" => req'[o].target <= made'
            /\ req'[o].at = "delete" => req'[o].target \notin req'[o].seen
      BY <1>1, <1>3, IdleIsRequest DEF IdxInv, RequestsInv
    <2>3. \A o \in Requests : Owns(o)' => req'[o].new \in 1..made'
      BY <1>1, <1>4 DEF IdxInv, RequestsInv
    <2>4. \A o, p \in Requests :
            Owns(o)' /\ Owns(p)' /\ req'[o].new = req'[p].new => o = p
      BY <1>4 DEF IdxInv, RequestsInv
    <2> QED
      BY <2>1, <2>2, <2>3, <2>4 DEF RequestsInv
  <1>7. AliasInv'
    <2>1. ~astray' => alias' = {n}
      BY <1>1 DEF Replaced
    <2> QED
      BY <1>1, <2>1 DEF AliasInv
  <1>8. ASSUME NEW d \in Docs, d \notin excused'
        PROVE  ContentInv(d)'
    <2>1. ContentInv(d) /\ (~established \/ req[r].op = "reindex" \/ alias = {n})
      BY <1>1, <1>8 DEF IdxInv
    <2>2. n \in alias' /\ Target' = alias'
      BY <1>1 DEF Target
    <2>3. content[n][d].ver = acked[d]
      <3>1. CASE ~established
        BY <1>1, <1>2, <2>1, <3>1 DEF ContentInv
      <3>2. CASE req[r].op = "reindex"
        BY <1>1, <2>1, <3>2 DEF ContentInv, HasCopied
      <3>3. CASE alias = {n}
        BY <1>2, <2>1, <3>3 DEF ContentInv, Target
      <3> QED
        BY <2>1, <3>1, <3>2, <3>3
    <2>4. \A i \in Index : Target' = {i} => content'[i][d].ver = acked'[d]
      BY <1>1, <2>1, <2>2, <2>3 DEF ContentInv
    <2>5. \A o \in Requests : HasCopied(o)' /\ req'[o].new \in exists' =>
                                content'[req'[o].new][d].ver = acked'[d]
      BY <1>1, <1>4, <2>1 DEF ContentInv
    <2> QED
      BY <1>1, <2>2, <2>4, <2>5 DEF ContentInv
  <1> QED
    BY <1>1, <1>5, <1>6, <1>7, <1>8, DatesKept DEF IdxInv

LEMMA DeleteIndexKeeps ==
    ASSUME IdxInv, NEW r \in Requests, DeleteIndex(r)
    PROVE  IdxInv'
  <1> DEFINE n == req[r].target
  <1>1. /\ UNCHANGED <<made, outside, tasks, faults, acked, established, starts>>
        /\ req[r].at = "delete" /\ exists' = exists \ {n} /\ alias' = alias \ {n}
        /\ content' = [content EXCEPT ![n] = Empty]
        /\ astray' \in BOOLEAN
        /\ ~astray' => ~astray /\ ~(n \in alias /\ (req[r].failed \/ n \notin req[r].seen))
        /\ excused' = IF n \in Target THEN Docs ELSE excused
        /\ req' = [req EXCEPT ![r] = Idle]
    BY Typed DEF DeleteIndex, Done, Unaliased, IdxInv
  <1>2. n \in Index /\ alias \subseteq exists /\ exists \subseteq Index
    BY Typed, RequestFields DEF IdxInv
  <1>3. /\ req' \in [Requests -> Request] /\ req'[r] = Idle
        /\ \A o \in Requests \ {r} : req'[o] = req[o]
    BY <1>1, IdleIsRequest, RequestMoves
  <1>4. /\ content' \in [Index -> [Docs -> Document]] /\ content'[n] = Empty
        /\ \A i \in Index \ {n} : content'[i] = content[i]
        /\ \A d \in Docs : Empty[d].ver = 0
    BY <1>1, <1>2, EmptyIndex, IndexReplaced
  <1>5. \A o \in Requests : /\ HasCopied(o)' => HasCopied(o) /\ req'[o].new = req[o].new
                            /\ Owns(o)' => Owns(o) /\ req'[o].new = req[o].new
    BY <1>3, IdleIsRequest DEF HasCopied, Owns
  <1>6. IdxTypeOK'
    BY <1>1, <1>3, <1>4 DEF IdxInv, IdxTypeOK, outside
  <1>7. RequestsInv'
    <2>1. \A i \in exists' : i <= made'
      BY <1>1 DEF IdxInv, RequestsInv
    <2>2. \A o \in Requests :
            /\ req'[o].at = "copy" => req'[o].op = "reindex" /\ req'[o].new # req'[o].target
            /\ req'[o].at = "create" => req'[o].target <= made'
            /\ req'[o].at = "delete" => req'[o].target \notin req'[o].seen
      BY <1>1, <1>3, IdleIsRequest DEF IdxInv, RequestsInv
    <2>3. \A o \in Requests : Owns(o)' => req'[o].new \in 1..made'
      BY <1>1, <1>5 DEF IdxInv, RequestsInv
    <2>4. \A o, p \in Requests :
            Owns(o)' /\ Owns(p)' /\ req'[o].new = req'[p].new => o = p
      BY <1>5 DEF IdxInv, RequestsInv
    <2> QED
      BY <2>1, <2>2, <2>3, <2>4 DEF RequestsInv
  <1>8. AliasInv'
    <2>1. n \notin req[r].seen
      BY <1>1 DEF IdxInv, RequestsInv
    <2>2. ~astray' => n \notin alias /\ alias' = alias
      BY <1>1, <2>1
    <2> QED
      BY <1>1, <2>2 DEF IdxInv, AliasInv
  <1>9. ASSUME NEW d \in Docs, d \notin excused'
        PROVE  ContentInv(d)'
    <2>1. n \notin Target /\ ContentInv(d)
      BY <1>1, <1>9 DEF IdxInv
    <2>2. n \notin alias /\ alias' = alias /\ Target' = Target
      BY <1>1, <2>1 DEF Target
    <2>3. \A i \in Index : Target' = {i} => content'[i][d].ver = acked'[d]
      <3> SUFFICES ASSUME NEW i \in Index
                   PROVE  Target' = {i} => content'[i][d].ver = acked'[d]
        OBVIOUS
      <3>1. CASE i = n
        BY <1>4, <2>1, <2>2, <3>1
      <3>2. CASE i # n
        BY <1>1, <1>4, <2>1, <2>2, <3>2 DEF ContentInv
      <3> QED
        BY <3>1, <3>2
    <2>4. \A o \in Requests : HasCopied(o)' /\ req'[o].new \in exists' =>
                                content'[req'[o].new][d].ver = acked'[d]
      BY <1>1, <1>2, <1>4, <1>5, <2>1 DEF ContentInv
    <2>5. established' => alias' # {}
      BY <1>1, <2>1, <2>2 DEF ContentInv
    <2>6. ASSUME ~established', AliasName \notin exists'
          PROVE  acked'[d] = 0 /\ \A i \in Index : content'[i][d].ver = 0
      <3>1. alias = {}
        BY <1>1, <2>6 DEF IdxInv, AliasInv
      <3>2. AliasName \notin exists
        BY <1>1, <2>1, <2>6, <3>1 DEF Target
      <3> QED
        BY <1>1, <1>4, <2>1, <2>6, <3>2 DEF ContentInv
    <2> QED
      BY <2>3, <2>4, <2>5, <2>6 DEF ContentInv
  <1> QED
    BY <1>1, <1>6, <1>7, <1>8, <1>9, DatesKept DEF IdxInv

-----------------------------------------------------------------------------
(* The store and its tasks.                                                *)

\* Only the store, its tasks or the set of indices move.
LEMMA RequestsKept ==
    ASSUME IdxInv, UNCHANGED <<made, req>>, exists' \subseteq exists \cup {AliasName}
    PROVE  RequestsInv'
  <1>1. \A i \in exists' : i <= made'
    BY Typed, Bounds DEF IdxInv, RequestsInv, Index
  <1> QED
    BY <1>1 DEF IdxInv, RequestsInv, Owns

LEMMA StoreKeeps ==
    ASSUME IdxInv, UNCHANGED <<esVars, scope, req, faults, starts, history>>, tasks' \subseteq Task,
           source' \in [Docs -> 0..MaxVersion], dates' \in [Docs -> [0..MaxVersion -> Second]],
           DatesInv'
    PROVE  IdxInv'
  <1>1. UNCHANGED <<exists, alias, content, made, acked, established, astray, excused>>
    BY DEF esVars, history
  <1>2. IdxTypeOK'
    BY <1>1 DEF IdxInv, IdxTypeOK, outside
  <1>3. RequestsInv'
    BY <1>1, RequestsKept
  <1>4. AliasInv'
    BY <1>1 DEF IdxInv, AliasInv
  <1>5. \A d \in Docs : d \notin excused' => ContentInv(d)'
    BY <1>1 DEF IdxInv, ContentInv, Target, HasCopied
  <1> QED
    BY <1>1, <1>2, <1>3, <1>4, <1>5, DatesKept DEF IdxInv

LEMMA StoreStays ==
    ASSUME IdxInv, UNCHANGED <<esVars, scope, source, dates, req, faults, starts, history>>,
           tasks' \subseteq Task
    PROVE  IdxInv'
  <1>1. /\ source' \in [Docs -> 0..MaxVersion] /\ dates' \in [Docs -> [0..MaxVersion -> Second]]
        /\ UNCHANGED <<esVars, scope, req, faults, starts, history>> /\ dates' = dates
    BY Typed DEF IdxInv
  <1>2. DatesInv'
    BY <1>1 DEF IdxInv, DatesInv
  <1> QED
    BY <1>1, <1>2, StoreKeeps

LEMMA PushIsTask ==
    ASSUME IdxInv, NEW d \in Docs, NEW ver \in 0..MaxVersion, Push(d, ver)
    PROVE  tasks' \subseteq Task
  <1>1. PICK dated \in BOOLEAN :
           tasks' = tasks \cup {[doc |-> d, ver |-> ver, dated |-> dated]}
    BY DEF Push
  <1> QED
    BY <1>1, Typed DEF IdxInv, Task

\* Every later version has the second of the change, none before the last one's.
LEMMA ClockAdvances ==
    ASSUME IdxInv, NEW d \in Docs, NEW last \in 0..MaxVersion,
           NEW second \in dates[d][last]..(IF last = 0 THEN FirstSecond ELSE LastSecond),
           dates' = [dates EXCEPT ![d] =
                      [v \in 0..MaxVersion |-> IF v <= last THEN dates[d][v] ELSE second]]
    PROVE  dates' \in [Docs -> [0..MaxVersion -> Second]] /\ DatesInv'
  <1>1. /\ dates \in [Docs -> [0..MaxVersion -> Second]] /\ dates[d] \in [0..MaxVersion -> Second]
        /\ \A v \in 0..MaxVersion : dates[d][v] \in Second
    BY Typed DEF IdxInv
  <1>2. second \in Second /\ dates[d][last] <= second
    BY <1>1, IndicesAssumption DEF Second, FirstSecond
  <1> DEFINE row == [v \in 0..MaxVersion |-> IF v <= last THEN dates[d][v] ELSE second]
  <1>3. row \in [0..MaxVersion -> Second]
    BY <1>1, <1>2
  <1>4. ASSUME NEW v \in 0..MaxVersion, NEW w \in 0..MaxVersion, v <= w
        PROVE  row[v] <= row[w]
    <2>1. /\ v <= last => dates[d][v] <= dates[d][last] /\ dates[d][v] \in Nat
          /\ w <= last => dates[d][v] <= dates[d][w]
      BY <1>1, <1>4, Bounds DEF IdxInv, DatesInv
    <2>2. dates[d][last] \in Nat /\ second \in Nat
      BY <1>1, <1>2, Bounds
    <2> QED
      BY <1>2, <1>4, <2>1, <2>2, Bounds
  <1> HIDE DEF row
  <1>5. dates' = [dates EXCEPT ![d] = row]
    BY DEF row
  <1>6. dates' \in [Docs -> [0..MaxVersion -> Second]]
    BY <1>1, <1>3, <1>5
  <1>7. dates'[d] = row /\ \A o \in Docs \ {d} : dates'[o] = dates[o]
    BY <1>1, <1>5
  <1>8. DatesInv'
    BY <1>4, <1>7 DEF IdxInv, DatesInv
  <1> QED
    BY <1>6, <1>8

LEMMA ChangeKeeps ==
    ASSUME IdxInv, NEW d \in Docs, Change(d) \/ Backfill(d)
    PROVE  IdxInv'
  <1>1. source \in [Docs -> 0..MaxVersion] /\ source[d] \in 0..MaxVersion /\ 0 \in 0..MaxVersion
    BY Typed, Bounds DEF IdxInv
  <1>2. CASE Change(d)
    <2>1. source[d] < MaxVersion /\ source' = [source EXCEPT ![d] = source[d] + 1]
      <3>1. source[d] < scope.versions /\ scope.versions \in 0..MaxVersion
        BY <1>2, Typed DEF Change, IdxInv
      <3> QED
        BY <1>1, <1>2, <3>1, Bounds DEF Change
    <2>2. source[d] + 1 \in 0..MaxVersion
      BY <1>1, <2>1, Bounds
    <2>3. tasks' \subseteq Task
      BY <1>1, <1>2, <2>2, PushIsTask DEF Change
    <2>4. source' \in [Docs -> 0..MaxVersion]
      BY <1>1, <2>1, <2>2
    <2>5. UNCHANGED <<esVars, scope, req, faults, starts, history>>
      BY <1>2 DEF Change
    <2>6. PICK second \in dates[d][source[d]]..(IF source[d] = 0 THEN FirstSecond ELSE LastSecond) :
             dates' = [dates EXCEPT ![d] =
                        [v \in 0..MaxVersion |-> IF v <= source[d] THEN dates[d][v] ELSE second]]
      <3>1. dates[d] \in [0..MaxVersion -> Second]
        BY Typed DEF IdxInv
      <3> QED
        BY <1>2, <3>1 DEF Change
    <2>7. dates' \in [Docs -> [0..MaxVersion -> Second]] /\ DatesInv'
      BY <1>1, <2>6, ClockAdvances
    <2> QED
      BY <2>3, <2>4, <2>5, <2>7, StoreKeeps
  <1>3. CASE Backfill(d)
    <2>1. UNCHANGED <<esVars, outside, req, faults, starts, history>> /\ Push(d, source[d])
      BY <1>3 DEF Backfill
    <2>2. tasks' \subseteq Task
      BY <1>1, <2>1, PushIsTask
    <2>3. UNCHANGED <<scope, source, dates>>
      BY <2>1 DEF outside
    <2> QED
      BY <2>1, <2>2, <2>3, StoreStays
  <1> QED
    BY <1>2, <1>3

LEMMA TaskGivenUpKeeps ==
    ASSUME IdxInv, NEW t \in tasks, TaskGivenUp(t)
    PROVE  IdxInv'
  <1>1. tasks' \subseteq Task
    BY Typed DEF IdxInv, TaskGivenUp
  <1>2. UNCHANGED <<esVars, scope, source, dates, req, faults, starts, history>>
    BY DEF TaskGivenUp, outside
  <1> QED
    BY <1>1, <1>2, StoreStays

LEMMA TaskMakesIndexKeeps ==
    ASSUME IdxInv, NEW t \in tasks, TaskMakesIndex(t)
    PROVE  IdxInv'
  <1>1. /\ UNCHANGED <<alias, content, made, outside, tasks, req, faults, starts, acked,
                       established, astray, excused>>
        /\ Target = {} /\ exists' = exists \cup {AliasName}
    BY DEF TaskMakesIndex, history
  <1>2. alias = {} /\ AliasName \notin exists
    BY <1>1 DEF Target
  <1>3. IdxTypeOK'
    BY <1>1, Bounds DEF IdxInv, IdxTypeOK, outside
  <1>4. RequestsInv'
    BY <1>1, RequestsKept
  <1>5. AliasInv'
    BY <1>1 DEF IdxInv, AliasInv
  <1>6. ASSUME NEW d \in Docs, d \notin excused'
        PROVE  ContentInv(d)'
    <2>1. ContentInv(d)
      BY <1>1, <1>6 DEF IdxInv
    <2>2. ~established /\ acked[d] = 0 /\ \A i \in Index : content[i][d].ver = 0
      BY <1>2, <2>1 DEF ContentInv
    <2>3. \A o \in Requests : HasCopied(o) => Owns(o) /\ req[o].new \in Index
      BY Typed, RequestFields DEF HasCopied, Owns, IdxInv
    <2> QED
      BY <1>1, <2>1, <2>2, <2>3 DEF ContentInv, HasCopied
  <1> QED
    BY <1>1, <1>3, <1>4, <1>5, <1>6, DatesKept DEF IdxInv

LEMMA SecondsOfTasks ==
    ASSUME IdxInv, NEW t \in tasks
    PROVE  /\ t \in Task /\ t.doc \in Docs /\ t.ver \in 0..MaxVersion /\ SecondOf(t) \in Second
           /\ acked[t.doc] \in 0..MaxVersion /\ dates[t.doc][acked[t.doc]] \in Second
           /\ t.ver <= acked[t.doc] => SecondOf(t) <= dates[t.doc][acked[t.doc]]
           /\ acked[t.doc] <= t.ver => dates[t.doc][acked[t.doc]] <= SecondOf(t)
  <1>1. t \in Task /\ t.doc \in Docs /\ t.ver \in 0..MaxVersion
    BY Typed DEF IdxInv, Task
  <1>2. /\ acked[t.doc] \in 0..MaxVersion /\ dates[t.doc] \in [0..MaxVersion -> Second]
    BY <1>1, Typed DEF IdxInv
  <1>3. SecondOf(t) \in Second /\ dates[t.doc][acked[t.doc]] \in Second
    BY <1>1, <1>2 DEF SecondOf
  <1> QED
    BY <1>1, <1>2, <1>3 DEF IdxInv, DatesInv, SecondOf

LEMMA WrittenIsDocument ==
    ASSUME IdxInv, NEW old \in Document, NEW t \in tasks
    PROVE  Written(old, t) \in Document
  <1>1. /\ t.ver \in 0..MaxVersion /\ SecondOf(t) \in Second
        /\ old.guard \in 0..(LastSecond + 1) /\ old.shown \in 0..MaxVersion
    BY SecondsOfTasks, DocumentFields
  <1>2. SecondOf(t) \in 0..(LastSecond + 1)
    BY <1>1, Bounds DEF Second
  <1>3. CountedUp(old.guard) \in 0..(LastSecond + 1)
    BY <1>1, Bounds DEF CountedUp
  <1>4. [Fresh EXCEPT !.shown = old.shown] \in Document
    BY <1>1, FreshIsDocument DEF Document
  <1>5. \A g \in 0..(LastSecond + 1) : [old EXCEPT !.ver = t.ver, !.guard = g] \in Document
    BY <1>1 DEF Document
  <1> QED
    BY <1>2, <1>3, <1>4, <1>5 DEF Written

\* A refresh leaves what the index holds.
LEMMA RefreshKeeps ==
    ASSUME IdxInv, NEW i \in exists, Refresh(i)
    PROVE  IdxInv'
  <1> DEFINE docs == [d \in Docs |-> [content[i][d] EXCEPT !.shown = content[i][d].ver]]
  <1>1. /\ UNCHANGED <<exists, alias, made, outside, tasks, req, faults, acked, established,
                       astray, excused, starts>>
        /\ i \in Index /\ content \in [Index -> [Docs -> Document]]
    BY Typed DEF IdxInv, Refresh, history
  <1>2. content' = [content EXCEPT ![i] = docs]
    BY <1>1 DEF Refresh
  <1>3. docs \in [Docs -> Document] /\ \A d \in Docs : docs[d].ver = content[i][d].ver
    BY <1>1 DEF Document
  <1> HIDE DEF docs
  <1>4. /\ content' \in [Index -> [Docs -> Document]]
        /\ \A j \in Index, d \in Docs : content'[j][d].ver = content[j][d].ver
    BY <1>1, <1>2, <1>3, IndexReplaced
  <1>5. IdxTypeOK'
    BY <1>1, <1>4 DEF IdxInv, IdxTypeOK, outside
  <1>6. RequestsInv'
    BY <1>1, RequestsKept
  <1>7. AliasInv'
    BY <1>1 DEF IdxInv, AliasInv
  <1>8. ASSUME NEW d \in Docs, d \notin excused'
        PROVE  ContentInv(d)'
    <2>1. ContentInv(d) /\ \A o \in Requests : req[o].new \in Index
      BY <1>1, <1>8, Typed, RequestFields DEF IdxInv
    <2> QED
      BY <1>1, <1>4, <2>1 DEF ContentInv, Target, HasCopied
  <1> QED
    BY <1>1, <1>5, <1>6, <1>7, <1>8, DatesKept DEF IdxInv

\* A write that the guard does not misjudge leaves the newer of the two versions.
LEMMA WrittenHolds ==
    ASSUME IdxInv, NEW i \in Index, NEW t \in tasks,
           content[i][t.doc].ver = acked[t.doc], ~Misjudged(i, t)
    PROVE  Written(content[i][t.doc], t).ver =
             IF t.ver = 0 \/ t.ver >= acked[t.doc] THEN t.ver ELSE acked[t.doc]
  <1> DEFINE old == content[i][t.doc]
             a == acked[t.doc]
             newest == dates[t.doc][acked[t.doc]]
  <1>1. /\ t.ver \in Nat /\ a \in Nat /\ SecondOf(t) \in Nat /\ newest \in Nat
        /\ t.ver <= a => SecondOf(t) <= newest
        /\ a <= t.ver => newest <= SecondOf(t)
        /\ t.dated \in BOOLEAN
    BY SecondsOfTasks, Bounds DEF Task
  <1>2. old \in Document /\ old.guard \in Nat /\ old.ver = a
    BY SecondsOfTasks, Typed, DocumentFields, Bounds DEF IdxInv
  <1>3. /\ t.ver \in 1..(a - 1) => t.dated /\ newest <= old.guard /\ SecondOf(t) # newest
        /\ t.ver > a /\ t.dated => old.guard <= newest
    BY <1>1, <1>2 DEF Misjudged
  <1>4. /\ [Fresh EXCEPT !.shown = old.shown].ver = 0
        /\ \A g : [old EXCEPT !.ver = t.ver, !.guard = g].ver = t.ver
    BY <1>2 DEF Document, Fresh
  <1> HIDE DEF old, newest
  <1>5. CASE t.ver = 0
    BY <1>4, <1>5 DEF Written, old
  <1>6. CASE t.ver # 0 /\ ~t.dated
    <2>1. t.ver >= a
      BY <1>1, <1>3, <1>6
    <2>2. Written(old, t).ver = t.ver
      BY <1>4, <1>6 DEF Written
    <2> QED
      BY <2>1, <2>2 DEF old
  <1>7. CASE t.ver # 0 /\ t.dated /\ SecondOf(t) < old.guard
    <2>1. Written(old, t) = old
      BY <1>7 DEF Written
    <2>2. t.ver <= a
      BY <1>1, <1>2, <1>3, <1>7
    <2>3. a = IF t.ver = 0 \/ t.ver >= a THEN t.ver ELSE a
      BY <1>1, <1>7, <2>2
    <2> QED
      BY <1>2, <2>1, <2>3 DEF old
  <1>8. CASE t.ver # 0 /\ t.dated /\ ~(SecondOf(t) < old.guard)
    <2>1. Written(old, t).ver = t.ver
      BY <1>4, <1>8 DEF Written
    <2>2. t.ver >= a
      BY <1>1, <1>2, <1>3, <1>8
    <2> QED
      BY <2>1, <2>2 DEF old
  <1> QED
    BY <1>1, <1>5, <1>6, <1>7, <1>8

LEMMA TaskWritesKeeps ==
    ASSUME IdxInv, NEW t \in tasks, TaskWrites(t)
    PROVE  IdxInv'
  <1>1. PICK j \in Index, again \in BOOLEAN :
          /\ Target = {j}
          /\ content' = [content EXCEPT ![j][t.doc] = Written(@, t)]
          /\ acked' = [acked EXCEPT ![t.doc] = IF t.ver = 0 \/ t.ver >= @ THEN t.ver ELSE @]
          /\ excused' = IF Copied \/ Misjudged(j, t) THEN excused \cup {t.doc} ELSE excused
          /\ tasks' = IF again THEN tasks ELSE tasks \ {t}
    BY DEF TaskWrites
  <1>2. UNCHANGED <<exists, alias, made, outside, req, faults, established, astray, starts>>
    BY DEF TaskWrites
  <1> DEFINE b == t.doc
             old == content[j][b]
             now == IF t.ver = 0 \/ t.ver >= acked[b] THEN t.ver ELSE acked[b]
             docs == [content[j] EXCEPT ![b] = Written(old, t)]
  <1>3. /\ t \in Task /\ b \in Docs /\ t.ver \in 0..MaxVersion
        /\ content \in [Index -> [Docs -> Document]] /\ content[j] \in [Docs -> Document]
        /\ old \in Document /\ acked \in [Docs -> 0..MaxVersion] /\ acked[b] \in 0..MaxVersion
    BY Typed DEF IdxInv, Task
  <1>4. content' = [content EXCEPT ![j] = docs] /\ acked' = [acked EXCEPT ![b] = now]
    BY <1>1, <1>3
  <1>5. /\ docs \in [Docs -> Document] /\ docs[b] = Written(old, t)
        /\ \A d \in Docs \ {b} : docs[d] = content[j][d]
    BY <1>3, WrittenIsDocument
  <1>6. now \in 0..MaxVersion
    BY <1>3
  <1> HIDE DEF docs
  <1>7. /\ content' \in [Index -> [Docs -> Document]] /\ content'[j] = docs
        /\ \A i \in Index \ {j} : content'[i] = content[i]
    BY <1>4, <1>5, IndexReplaced
  <1>8. /\ acked' \in [Docs -> 0..MaxVersion] /\ acked'[b] = now
        /\ \A d \in Docs \ {b} : acked'[d] = acked[d]
    BY <1>3, <1>4, <1>6
  <1>9. excused' \subseteq Docs /\ excused \subseteq excused' /\ tasks' \subseteq Task
    BY <1>1, <1>3, Typed DEF IdxInv
  <1>10. IdxTypeOK'
    BY <1>2, <1>7, <1>8, <1>9 DEF IdxInv, IdxTypeOK, outside
  <1>11. RequestsInv'
    BY <1>2, RequestsKept
  <1>12. AliasInv'
    BY <1>2 DEF IdxInv, AliasInv
  <1>13. ASSUME NEW d \in Docs, d \notin excused'
         PROVE  ContentInv(d)'
    <2>1. ContentInv(d) /\ Target' = Target
      BY <1>2, <1>9, <1>13 DEF IdxInv, Target
    <2>2. established' => alias' # {}
      BY <1>2, <2>1 DEF ContentInv
    <2>3. ~(~established' /\ AliasName \notin exists')
      BY <1>1, <1>2 DEF Target, IdxInv, AliasInv
    <2>4. CASE d # b
      <3>1. acked'[d] = acked[d] /\ \A i \in Index : content'[i][d] = content[i][d]
        BY <1>5, <1>7, <1>8, <2>4
      <3>2. \A o \in Requests : req[o].new \in Index
        BY Typed, RequestFields DEF IdxInv
      <3> QED
        BY <1>2, <2>1, <2>2, <2>3, <3>1, <3>2 DEF ContentInv, HasCopied
    <2>5. CASE d = b
      <3>1. /\ ~Copied
            /\ ~Misjudged(j, t)
        BY <1>1, <1>13, <2>5
      <3>2. old.ver = acked[b]
        BY <1>1, <2>1, <2>5 DEF ContentInv
      <3>3. docs[b].ver = now
        BY <1>3, <1>5, <3>1, <3>2, WrittenHolds
      <3>4. \A i \in Index : Target' = {i} => content'[i][d].ver = acked'[d]
        <4> SUFFICES ASSUME NEW i \in Index
                     PROVE  Target' = {i} => content'[i][d].ver = acked'[d]
          OBVIOUS
        <4>1. CASE i = j
          BY <1>7, <1>8, <2>5, <3>3, <4>1
        <4>2. CASE i # j
          BY <1>1, <1>7, <2>1, <4>2 DEF ContentInv
        <4> QED
          BY <4>1, <4>2
      <3>5. \A o \in Requests : ~HasCopied(o)'
        BY <1>2, <3>1 DEF HasCopied, Copied
      <3> QED
        BY <2>2, <2>3, <3>4, <3>5 DEF ContentInv
    <2> QED
      BY <2>4, <2>5
  <1> QED
    BY <1>2, <1>10, <1>11, <1>12, <1>13, DatesKept DEF IdxInv

-----------------------------------------------------------------------------
LEMMA IdxInitInv == IdxInit => IdxInv
  <1> SUFFICES ASSUME IdxInit PROVE IdxInv
    OBVIOUS
  <1>1. /\ exists = {} /\ alias = {} /\ made = 0 /\ tasks = {} /\ starts = 0 /\ faults = 0
        /\ scope \in Scopes /\ content = [i \in Index |-> Empty]
        /\ dates = [d \in Docs |-> [v \in 0..MaxVersion |-> FirstSecond]]
        /\ source = [d \in Docs |-> 0] /\ acked = [d \in Docs |-> 0]
        /\ req = [r \in Requests |-> Idle]
        /\ ~established /\ ~astray /\ excused = {}
    BY DEF IdxInit
  <1>2. IdxTypeOK
    <2>1. content \in [Index -> [Docs -> Document]] /\ req \in [Requests -> Request]
      BY <1>1, EmptyIndex, IdleIsRequest
    <2>2. /\ source \in [Docs -> 0..MaxVersion] /\ acked \in [Docs -> 0..MaxVersion]
          /\ dates \in [Docs -> [0..MaxVersion -> Second]]
      BY <1>1, Bounds
    <2>3. made \in Index /\ starts \in 0..MaxStarts /\ faults \in 0..scope.faults
      BY <1>1, Bounds, IndicesAssumption
    <2>4. established \in BOOLEAN /\ astray \in BOOLEAN
      BY DEF IdxInit
    <2> QED
      BY <1>1, <2>1, <2>2, <2>3, <2>4 DEF IdxTypeOK
  <1>3. RequestsInv
    BY <1>1, IdleIsRequest DEF RequestsInv, Owns
  <1>4. AliasInv
    BY <1>1 DEF AliasInv
  <1>5. ASSUME NEW d \in Docs PROVE ContentInv(d)
    <2>1. \A i \in Index : content[i][d].ver = 0
      BY <1>1, EmptyIndex
    <2> QED
      BY <1>1, <2>1 DEF ContentInv, Target
  <1>6. DatesInv
    BY <1>1, Bounds DEF DatesInv
  <1> QED
    BY <1>2, <1>3, <1>4, <1>5, <1>6 DEF IdxInv

LEMMA IdxStepInv == IdxInv /\ [IdxNext]_idxVars => IdxInv'
  <1> SUFFICES ASSUME IdxInv, [IdxNext]_idxVars PROVE IdxInv'
    OBVIOUS
  <1>1. ASSUME NEW r \in Requests, RequestStep(r) PROVE IdxInv'
    BY <1>1, EnsureStartsKeeps, ReindexStartsKeeps, PointStartsKeeps, DeleteStartsKeeps,
       CreateIndexKeeps, EndsKeeps, CopyKeeps, GetAliasKeeps, UpdateAliasesKeeps,
       DeleteIndexKeeps DEF RequestStep
  <1>2. ASSUME NEW d \in Docs, Change(d) \/ Backfill(d) PROVE IdxInv'
    BY <1>2, ChangeKeeps
  <1>5. ASSUME NEW i \in exists, Refresh(i) PROVE IdxInv'
    BY <1>5, RefreshKeeps
  <1>3. ASSUME NEW t \in tasks, TaskWrites(t) \/ TaskMakesIndex(t) \/ TaskGivenUp(t)
        PROVE  IdxInv'
    BY <1>3, TaskWritesKeeps, TaskMakesIndexKeeps, TaskGivenUpKeeps
  <1>4. CASE UNCHANGED idxVars
    <2>1. UNCHANGED <<esVars, scope, source, dates, tasks, req, starts, faults, history>>
      BY <1>4 DEF idxVars, outside
    <2>2. tasks' \subseteq Task
      BY <2>1, Typed DEF IdxInv
    <2> QED
      BY <2>1, <2>2, StoreStays
  <1> QED
    BY <1>1, <1>2, <1>3, <1>4, <1>5 DEF IdxNext

THEOREM IdxInvariance == IdxSpec => []IdxInv
  BY IdxInitInv, IdxStepInv, PTL DEF IdxSpec

\* Indices, aliases, documents, tasks and requests keep their types.
THEOREM IndicesAreTyped == IdxSpec => []IdxTypeOK
  <1>1. IdxInv => IdxTypeOK
    BY DEF IdxInv
  <1> QED
    BY <1>1, IdxInvariance, PTL

\* point_alias and delete_index: while no operation acts on a reading of the alias that
\* failed or that another outdated, the alias names one index from when it is set.
THEOREM AliasHasOneIndex == IdxSpec => []AliasNamesOneIndex
  <1>1. ASSUME IdxInv PROVE AliasNamesOneIndex
    <2> SUFFICES ASSUME established, ~astray PROVE Cardinality(alias) = 1
      BY DEF AliasNamesOneIndex
    <2>1. PICK i \in alias : alias = {i}
      BY <1>1 DEF IdxInv, AliasInv
    <2> QED
      BY <2>1, FS_Singleton
  <1> QED
    BY <1>1, IdxInvariance, PTL

\* upsert_order, upsert_product and reindex_and_swap: the live index holds the newest
\* version of every document that nobody put at risk, through reindexes and swaps,
\* redeliveries and writes out of order.
THEOREM LiveIndexIsComplete == IdxSpec => []LiveHasEverything
  <1>1. IdxInv => LiveHasEverything
    BY DEF IdxInv, ContentInv, LiveHasEverything
  <1> QED
    BY <1>1, IdxInvariance, PTL

=============================================================================

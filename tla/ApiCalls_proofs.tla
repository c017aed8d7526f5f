--------------------------- MODULE ApiCalls_proofs ---------------------------
(***************************************************************************)
(* A call that stays on one network has everything from it, returns no     *)
(* Goose Egg, and sends its requests where they belong: for all networks,  *)
(* any number of calls, and all of the programs.                           *)
(*                                                                         *)
(* A call runs over several steps at once, a fold over its program.  What  *)
(* one step does is shown step by step (BeginStep), carried through the    *)
(* fold by induction (RunFits), and the invariant says what holds of a     *)
(* call that awaits something: what it knows, and what it still may ask.   *)
(***************************************************************************)
EXTENDS ApiCalls, SumTheorems, SequenceTheorems

-----------------------------------------------------------------------------
\* What the variables range over.

Known == Network \cup {Unset}

\* What an object remembers, and what a call does.
Fields == {"alias", "asset", "txFee", "creationTxFee", "mintTxFee", "minStake"}

Registers == {"networkID", "fee", "assetID", "minStake", "utxos", "creationFee", "checked"}

Apis == {"P", "X", "C"}

Urls == {"", "P", "X", "C"}

ApiObject == [made : Network, url : Urls, alias : Known, asset : Known, txFee : Known,
              creationTxFee : Known, mintTxFee : Known, minStake : Known]

RequestRecord == [url : {"", "P", "X", "C", "C/rpc"}, node : Known]

Flaw == {"none"} \cup UNION {FlawsOf[s] : s \in Slot}

Programs == ProgramsOf["P"] \cup ProgramsOf["X"] \cup ProgramsOf["C"]

CallRecord ==
    [at : {"idle", "running", "awaiting", "returned", "failed"}, program : Programs \cup {<<>>},
     object : Nat, begun : Nat, request : RequestRecord, flaw : Flaw, steady : BOOLEAN,
     saved : Urls, networkID : Known, fee : Known, assetID : Known, minStake : Known,
     utxos : Known, creationFee : Known, checked : Known]

TypeOK ==
    /\ api \in Apis
    /\ node \in Network
    /\ network \in {Unset, node}
    /\ objects \in Seq(ApiObject) /\ objects # <<>>
    /\ calls \in [Slot -> CallRecord]

-----------------------------------------------------------------------------
\* An object and a call that are of the network of now alone.

Pure(o) == o.made = node /\ \A f \in Fields : o[f] \in {Unset, node}

Current(c) == c.request.node \in {Unset, node} /\ \A r \in Registers : c[r] \in {Unset, node}

\* The first n steps are over, those that find the asset among them.
AssetKnown(c, n) ==
    \A k \in 1..n : c.program[k] \in {"AssetID", "NetworkAssetID"} => c.assetID # Unset

GooseMatters(step) == step \in {"Goose", "GooseCreation", "GooseOfFee"}

\* All steps that were begun are over.
Completed(c) ==
    /\ c.begun \in 0..Len(c.program)
    /\ AssetKnown(c, c.begun)
    /\ c.begun > 0 /\ GooseMatters(Bearing(c)) => c.checked # Unset /\ PassesGooseCheck(c)

\* The last one waits: for an answer, or with what it needs already there.
Awaits(c) ==
    /\ c.begun \in 1..Len(c.program)
    /\ AssetKnown(c, c.begun - 1)
    /\ Bearing(c) # "NetworkAssetID"
    /\ c.request # NoRequest => c.request.node # Unset
    /\ c.request = NoRequest =>
           /\ Bearing(c) # "Describe"
           /\ Bearing(c) = "AssetID" => c.assetID # Unset
           /\ IsGoose(Bearing(c)) => c.checked # Unset

CallFits(c) ==
    /\ c.object \in 1..Len(objects)
    /\ c.at # "running"
    /\ c.steady => /\ c.at \in {"awaiting", "returned"}
                   /\ network = node
                   /\ c.object = Len(objects)
                   /\ Current(c)
    /\ c.at = "awaiting" /\ network # Unset /\ c.object = Len(objects) => c.steady
    /\ c.at = "awaiting" => c.program \in ProgramsOf[api] /\ Awaits(c)
    /\ c.at = "returned" /\ c.steady =>
           /\ c.program \in ProgramsOf[api]
           /\ Completed(c)
           /\ c.begun = Len(c.program)

\* The newest object knows nothing of another network.
NewestIsPure == network # Unset => Pure(objects[Len(objects)])

\* An object that is not adrift has its own URL, or one call that describes an
\* asset and will put it back.
UrlsFit ==
    \A o \in 1..Len(objects) : o \notin adrift =>
        /\ DescribingOn(o) = {} => objects[o].url = api
        /\ \A s \in DescribingOn(o) : DescribingOn(o) = {s} /\ calls[s].saved = api

Inv == TypeOK /\ (\A s \in Slot : CallFits(calls[s])) /\ NewestIsPure /\ UrlsFit

-----------------------------------------------------------------------------
\* Writing a field of an object, a register of a call.

Pair == [o : ApiObject, c : CallRecord]

LEMMA FieldWritten ==
    ASSUME NEW o \in ApiObject, NEW f \in Fields, NEW v \in Known
    PROVE  LET p == [o EXCEPT ![f] = v]
           IN /\ p \in ApiObject /\ p.made = o.made /\ p.url = o.url
              /\ \A g \in Fields : p[g] = IF g = f THEN v ELSE o[g]
  BY DEF ApiObject, Fields

LEMMA FieldsKnown ==
    ASSUME NEW o \in ApiObject, NEW f \in Fields
    PROVE  o[f] \in Known
  BY DEF ApiObject, Fields

LEMMA RegistersKnown ==
    ASSUME NEW c \in CallRecord, NEW r \in Registers
    PROVE  c[r] \in Known
  BY DEF CallRecord, Registers

\* What writing a register leaves alone.
Alike(c, d) ==
    /\ d.program = c.program /\ d.object = c.object /\ d.begun = c.begun
    /\ d.flaw = c.flaw /\ d.steady = c.steady

LEMMA RegisterWritten ==
    ASSUME NEW c \in CallRecord, NEW r \in Registers, NEW v \in Known
    PROVE  LET d == [c EXCEPT ![r] = v]
           IN /\ d \in CallRecord /\ Alike(c, d) /\ d.at = c.at /\ d.request = c.request
              /\ d.saved = c.saved
              /\ \A q \in Registers : d[q] = IF q = r THEN v ELSE c[q]
  BY DEF CallRecord, Registers, Alike

LEMMA Asked ==
    ASSUME NEW c \in CallRecord, NEW request \in RequestRecord
    PROVE  LET d == [c EXCEPT !.request = request]
           IN /\ d \in CallRecord /\ Alike(c, d) /\ d.at = c.at /\ d.request = request
              /\ d.saved = c.saved
              /\ \A q \in Registers : d[q] = c[q]
  BY DEF CallRecord, Registers, Alike

-----------------------------------------------------------------------------
\* What a call does before its next await, operator by operator.

World == api \in Apis /\ node \in Network /\ network \in {Unset, node}

\* A steady call is of one network, and so is its object.
Fits(a) ==
    /\ a \in Pair
    /\ a.c.steady => network = node /\ Pure(a.o) /\ Current(a.c)

\* Between a and b nothing happens to the program and the network of the object, ...
Carries(a, b) ==
    /\ Fits(b)
    /\ Alike(a.c, b.c)
    /\ b.o.made = a.o.made

\* ... nor to its URL.
Stays(a, b) == Carries(a, b) /\ b.o.url = a.o.url /\ b.c.saved = a.c.saved

LEMMA WorldFacts ==
    ASSUME World
    PROVE  /\ node \in Known /\ network \in Known /\ node # Unset
           /\ network # Unset => network = node /\ network \in Network
  BY NetworkAssumption DEF World, Known, Unset

LEMMA PairParts ==
    ASSUME NEW a \in Pair
    PROVE  a.o \in ApiObject /\ a.c \in CallRecord
  BY DEF Pair

\* The call changes and the object does not.
LEMMA NewCall ==
    ASSUME NEW a, Fits(a), NEW b, NEW d \in CallRecord, b = [a EXCEPT !.c = d],
           Alike(a.c, d), d.saved = a.c.saved, a.c.steady => Current(d)
    PROVE  b.c = d /\ b.o = a.o /\ Stays(a, b)
  <1>1. b.c = d /\ b.o = a.o /\ b \in Pair
    BY DEF Fits, Pair
  <1>2. Fits(b)
    BY <1>1 DEF Fits, Alike
  <1>3. QED
    BY <1>1, <1>2 DEF Stays, Carries

\* The object changes and the call does not.
LEMMA NewObjectState ==
    ASSUME NEW a, Fits(a), NEW b, NEW p \in ApiObject, b = [a EXCEPT !.o = p],
           p.made = a.o.made, p.url = a.o.url, a.c.steady => Pure(p)
    PROVE  b.c = a.c /\ b.o = p /\ Stays(a, b)
  <1>1. b.c = a.c /\ b.o = p /\ b \in Pair
    BY DEF Fits, Pair
  <1>2. Fits(b)
    BY <1>1 DEF Fits
  <1>3. QED
    BY <1>1, <1>2 DEF Stays, Carries, Alike

LEMMA MovedTo ==
    ASSUME NEW a, Fits(a), NEW b, NEW at \in {"awaiting", "running", "returned", "failed"},
           b = [a EXCEPT !.c.at = at]
    PROVE  /\ Stays(a, b) /\ b.o = a.o /\ b.c.at = at /\ b.c.request = a.c.request
           /\ \A r \in Registers : b.c[r] = a.c[r]
  <1> DEFINE d == [a.c EXCEPT !.at = at]
  <1>1. a.c \in CallRecord
    BY DEF Fits, Pair
  <1>2. /\ d \in CallRecord /\ Alike(a.c, d) /\ d.at = at /\ d.request = a.c.request
        /\ d.saved = a.c.saved
        /\ \A q \in Registers : d[q] = a.c[q]
    BY <1>1 DEF CallRecord, Registers, Alike
  <1>3. b = [a EXCEPT !.c = d]
    OBVIOUS
  <1> HIDE DEF d
  <1>4. a.c.steady => Current(d)
    BY <1>2 DEF Fits, Current
  <1>5. b.c = d /\ b.o = a.o /\ Stays(a, b)
    BY <1>2, <1>3, <1>4, NewCall
  <1>6. QED
    BY <1>2, <1>5

LEMMA Throws ==
    ASSUME NEW a, Fits(a)
    PROVE  /\ Stays(a, Throw(a)) /\ Throw(a).o = a.o /\ Throw(a).c.at = "failed"
           /\ Throw(a).c.request = a.c.request
           /\ \A r \in Registers : Throw(a).c[r] = a.c[r]
  BY MovedTo DEF Throw

LEMMA AwaitsTurn ==
    ASSUME NEW a, Fits(a)
    PROVE  /\ Stays(a, Await(a)) /\ Await(a).o = a.o /\ Await(a).c.request = a.c.request
           /\ Await(a).c.at = IF a.c.at = "failed" THEN "failed" ELSE "awaiting"
           /\ \A r \in Registers : Await(a).c[r] = a.c[r]
  <1>1. CASE a.c.at = "failed"
    BY <1>1 DEF Await, Stays, Carries, Alike
  <1>2. CASE a.c.at # "failed"
    BY <1>2, MovedTo DEF Await
  <1>3. QED
    BY <1>1, <1>2

LEMMA Requests ==
    ASSUME NEW a, Fits(a), World, NEW url \in {"", "P", "X", "C", "C/rpc"}, a.c.at # "failed"
    PROVE  LET b == CallMethod(a, url)
           IN /\ Stays(a, b) /\ b.o = a.o /\ b.c.at = "awaiting"
              /\ b.c.request # NoRequest /\ b.c.request.url = url /\ b.c.request.node = node
              /\ \A r \in Registers : b.c[r] = a.c[r]
  <1> DEFINE w == Await(a)
             request == [url |-> url, node |-> node]
             d == [w.c EXCEPT !.request = request]
             b == [w EXCEPT !.c = d]
  <1>1. /\ Stays(a, w) /\ w.o = a.o /\ w.c.at = "awaiting"
        /\ \A r \in Registers : w.c[r] = a.c[r]
    BY AwaitsTurn
  <1>2. request \in RequestRecord /\ request # NoRequest
    BY WorldFacts DEF RequestRecord, NoRequest
  <1>3. CallMethod(a, url) = b
    BY DEF CallMethod
  <1> HIDE DEF w
  <1>4. w.c \in CallRecord /\ Fits(w)
    BY <1>1 DEF Stays, Carries, Fits, Pair
  <1>5. /\ d \in CallRecord /\ Alike(w.c, d) /\ d.at = w.c.at /\ d.request = request
        /\ d.saved = w.c.saved
        /\ \A q \in Registers : d[q] = w.c[q]
    BY <1>2, <1>4, Asked
  <1>6. request.url = url /\ request.node = node
    OBVIOUS
  <1> HIDE DEF d, request
  <1>7. w.c.steady => Current(d)
    BY <1>4, <1>5, <1>6 DEF Fits, Current
  <1>8. b.c = d /\ b.o = w.o /\ Stays(w, b)
    BY <1>4, <1>5, <1>7, NewCall
  <1> HIDE DEF b
  <1>9. Stays(a, b)
    BY <1>1, <1>8 DEF Stays, Carries, Alike
  <1>10. QED
    BY <1>1, <1>2, <1>3, <1>5, <1>6, <1>8, <1>9

\* A register takes the network, or what is remembered of it.
WithRegister(a, r, v) == [a EXCEPT !.c[r] = v]

LEMMA Registered ==
    ASSUME NEW a, Fits(a), NEW r \in Registers, NEW v \in Known,
           a.c.steady => v \in {Unset, node},
           NEW b, b = WithRegister(a, r, v)
    PROVE  /\ Stays(a, b) /\ b.o = a.o /\ b.c.at = a.c.at /\ b.c.request = a.c.request
           /\ \A q \in Registers : b.c[q] = IF q = r THEN v ELSE a.c[q]
  <1> DEFINE d == [a.c EXCEPT ![r] = v]
  <1>1. a.c \in CallRecord
    BY DEF Fits, Pair
  <1>2. /\ d \in CallRecord /\ Alike(a.c, d) /\ d.at = a.c.at /\ d.request = a.c.request
        /\ d.saved = a.c.saved
        /\ \A q \in Registers : d[q] = IF q = r THEN v ELSE a.c[q]
    BY <1>1, RegisterWritten
  <1>3. b = [a EXCEPT !.c = d]
    BY DEF WithRegister
  <1> HIDE DEF d
  <1>4. a.c.steady => Current(d)
    BY <1>2 DEF Fits, Current
  <1>5. b.c = d /\ b.o = a.o /\ Stays(a, b)
    BY <1>2, <1>3, <1>4, NewCall
  <1>6. QED
    BY <1>2, <1>5

\* A field of the object does.
WithField(a, f, v) == [a EXCEPT !.o[f] = v]

LEMMA Remembered ==
    ASSUME NEW a, Fits(a), NEW f \in Fields, NEW v \in Known,
           a.c.steady => v \in {Unset, node},
           NEW b, b = WithField(a, f, v)
    PROVE  Stays(a, b) /\ b.c = a.c /\ \A g \in Fields : b.o[g] = IF g = f THEN v ELSE a.o[g]
  <1> DEFINE p == [a.o EXCEPT ![f] = v]
  <1>1. a.o \in ApiObject
    BY DEF Fits, Pair
  <1>2. /\ p \in ApiObject /\ p.made = a.o.made /\ p.url = a.o.url
        /\ \A g \in Fields : p[g] = IF g = f THEN v ELSE a.o[g]
    BY <1>1, FieldWritten
  <1>3. b = [a EXCEPT !.o = p]
    BY DEF WithField
  <1> HIDE DEF p
  <1>4. a.c.steady => Pure(p)
    BY <1>2 DEF Fits, Pure
  <1>5. b.c = a.c /\ b.o = p /\ Stays(a, b)
    BY <1>2, <1>3, <1>4, NewObjectState
  <1>6. QED
    BY <1>2, <1>5

LEMMA StaysOn ==
    ASSUME NEW a, NEW b, Stays(a, b), NEW c, Stays(b, c)
    PROVE  Stays(a, c)
  BY DEF Stays, Carries, Alike

\* What is read once and kept: now it is there, or the network is not known.
LEMMA CachedIsThere ==
    ASSUME World, NEW a, Fits(a), a.c.at = "running", NEW f \in Fields
    PROVE  LET b == Cached(a, f)
           IN /\ Stays(a, b) /\ b.c.request = a.c.request
              /\ \A r \in Registers : b.c[r] = a.c[r]
              /\ b.c.at \in {"running", "failed"}
              /\ b.c.at = "running" => b.o[f] # Unset
  <1>1. CASE a.o[f] # Unset
    BY <1>1 DEF Cached, Stays, Carries, Alike
  <1>2. CASE a.o[f] = Unset /\ network = Unset
    <2>1. Cached(a, f) = Throw(a)
      BY <1>2 DEF Cached
    <2>2. QED
      BY <2>1, Throws
  <1>3. CASE a.o[f] = Unset /\ network # Unset
    <2> DEFINE b == WithField(a, f, network)
    <2>1. Cached(a, f) = b
      BY <1>3 DEF Cached, WithField
    <2>2. network \in Known /\ network = node
      BY <1>3, WorldFacts
    <2>3. Stays(a, b) /\ b.c = a.c /\ \A g \in Fields : b.o[g] = IF g = f THEN network ELSE a.o[g]
      BY <2>2, Remembered
    <2> HIDE DEF b
    <2>4. QED
      BY <1>3, <2>1, <2>3
  <1>4. QED
    BY <1>1, <1>2, <1>3

LEMMA FeeIsThere ==
    ASSUME World, NEW a, Fits(a), a.c.at = "running", NEW f \in Fields, NEW r \in Registers
    PROVE  LET b == GetFee(a, f, r)
           IN /\ Stays(a, b) /\ b.c.request = a.c.request
              /\ \A q \in Registers : q # r => b.c[q] = a.c[q]
              /\ b.c.at \in {"running", "failed"}
              /\ b.c.at = "running" => b.c[r] # Unset
  <1> DEFINE m == Cached(a, f)
             v == m.o[f]
             b == WithRegister(m, r, v)
  <1>1. /\ Stays(a, m) /\ m.c.request = a.c.request
        /\ \A q \in Registers : m.c[q] = a.c[q]
        /\ m.c.at \in {"running", "failed"}
        /\ m.c.at = "running" => m.o[f] # Unset
    BY CachedIsThere
  <1>2. GetFee(a, f, r) = b
    BY DEF GetFee, WithRegister
  <1> HIDE DEF m
  <1>3. Fits(m) /\ m.o \in ApiObject
    BY <1>1 DEF Stays, Carries, Fits, Pair
  <1>4. v \in Known
    BY <1>3, FieldsKnown
  <1>5. m.c.steady => v \in {Unset, node}
    BY <1>3 DEF Fits, Pure
  <1>6. /\ Stays(m, b) /\ b.o = m.o /\ b.c.at = m.c.at /\ b.c.request = m.c.request
        /\ \A q \in Registers : b.c[q] = IF q = r THEN v ELSE m.c[q]
    <2> HIDE DEF v
    <2>1. QED
      BY <1>3, <1>4, <1>5, Registered
  <1> HIDE DEF b
  <1>7. Stays(a, b)
    BY <1>1, <1>6, StaysOn
  <1>8. QED
    BY <1>1, <1>2, <1>6, <1>7

LEMMA DefaultIsThere ==
    ASSUME World, NEW a, Fits(a), a.c.at = "running", NEW r \in Registers
    PROVE  LET b == GetDefault(a, r)
           IN /\ Stays(a, b) /\ b.c.request = a.c.request
              /\ \A q \in Registers : q # r => b.c[q] = a.c[q]
              /\ b.c.at \in {"running", "failed"}
              /\ b.c.at = "running" => b.c[r] # Unset
  <1>1. CASE network = Unset
    <2>1. GetDefault(a, r) = Throw(a)
      BY <1>1 DEF GetDefault
    <2>2. QED
      BY <2>1, Throws
  <1>2. CASE network # Unset
    <2> DEFINE b == WithRegister(a, r, network)
    <2>1. GetDefault(a, r) = b
      BY <1>2 DEF GetDefault, WithRegister
    <2>2. network \in Known /\ network = node
      BY <1>2, WorldFacts
    <2>3. /\ Stays(a, b) /\ b.c.at = a.c.at /\ b.c.request = a.c.request
          /\ \A q \in Registers : b.c[q] = IF q = r THEN network ELSE a.c[q]
      BY <2>2, Registered
    <2> HIDE DEF b
    <2>4. QED
      BY <1>2, <2>1, <2>3
  <1>3. QED
    BY <1>1, <1>2

\* Where a call has sent a request in a step: to the URL of its object, to the one
\* of getBaseFee, or for a description, with the URL set to that of the X-chain.
Directed(a, b, step) ==
    \/ b.o.url = a.o.url /\ b.c.request = NoRequest
    \/ b.o.url = a.o.url /\ b.c.request.url \in {a.o.url, "C/rpc"}
    \/ /\ api = "C" /\ step \in {"AssetID", "Describe"}
       /\ b.c.at = "awaiting" /\ b.c.request.url = "X"
       /\ b.c.saved = a.o.url

\* A request is on its way.
Sent(a, b, step) ==
    /\ Carries(a, b) /\ Directed(a, b, step)
    /\ b.c.at = "awaiting"
    /\ b.c.request # NoRequest /\ b.c.request.node # Unset
    /\ \A r \in Registers : b.c[r] = a.c[r]

LEMMA SentHome ==
    ASSUME World, NEW a, Fits(a), a.c.at # "failed", NEW step
    PROVE  Sent(a, CallMethod(a, a.o.url), step)
  <1>1. a.o.url \in {"", "P", "X", "C", "C/rpc"}
    BY DEF Fits, Pair, ApiObject, Urls
  <1> DEFINE b == CallMethod(a, a.o.url)
  <1>2. /\ Stays(a, b) /\ b.o = a.o /\ b.c.at = "awaiting"
        /\ b.c.request # NoRequest /\ b.c.request.url = a.o.url /\ b.c.request.node = node
        /\ \A r \in Registers : b.c[r] = a.c[r]
    BY <1>1, Requests
  <1> HIDE DEF b
  <1>3. Sent(a, b, step)
    BY <1>2, WorldFacts DEF Sent, Directed, Stays
  <1>4. QED
    BY <1>3 DEF b

LEMMA SentRpc ==
    ASSUME World, NEW a, Fits(a), a.c.at # "failed", NEW step
    PROVE  Sent(a, CallMethod(a, "C/rpc"), step)
  <1> DEFINE b == CallMethod(a, "C/rpc")
  <1>2. /\ Stays(a, b) /\ b.o = a.o /\ b.c.at = "awaiting"
        /\ b.c.request # NoRequest /\ b.c.request.url = "C/rpc" /\ b.c.request.node = node
        /\ \A r \in Registers : b.c[r] = a.c[r]
    BY Requests
  <1> HIDE DEF b
  <1>3. Sent(a, b, step)
    BY <1>2, WorldFacts DEF Sent, Directed, Stays
  <1>4. QED
    BY <1>3 DEF b

LEMMA DescriptionSent ==
    ASSUME World, NEW a, Fits(a), a.c.at # "failed", NEW step \in {"AssetID", "Describe"}
    PROVE  Sent(a, GetAssetDescription(a), step)
  <1>1. CASE api # "C"
    BY <1>1, SentHome DEF GetAssetDescription
  <1>2. CASE api = "C"
    <2> DEFINE d == [a.c EXCEPT !.saved = a.o.url]
               p == [a.o EXCEPT !.url = "X"]
               m == [a EXCEPT !.c.saved = a.o.url, !.o.url = "X"]
               b == CallMethod(m, "X")
    <2>1. a.o \in ApiObject /\ a.c \in CallRecord /\ a.o.url \in Urls
      BY DEF Fits, Pair, ApiObject
    <2>2. /\ d \in CallRecord /\ Alike(a.c, d) /\ d.at = a.c.at /\ d.request = a.c.request
          /\ d.saved = a.o.url
          /\ \A q \in Registers : d[q] = a.c[q]
      BY <2>1 DEF CallRecord, Registers, Alike, Urls
    <2>3. /\ p \in ApiObject /\ p.made = a.o.made
          /\ \A g \in Fields : p[g] = a.o[g]
      BY <2>1 DEF ApiObject, Fields, Urls
    <2>4. m.c = d /\ m.o = p /\ m \in Pair
      BY <2>1, <2>2, <2>3 DEF Fits, Pair
    <2>5. GetAssetDescription(a) = b
      BY <1>2 DEF GetAssetDescription, DescribeAt
    <2> HIDE DEF d, p, m
    <2>6. m.c.steady => Pure(m.o) /\ Current(m.c) /\ network = node
      BY <2>2, <2>3, <2>4 DEF Fits, Pure, Current, Alike
    <2>7. Fits(m) /\ m.c.at # "failed"
      BY <2>2, <2>4, <2>6 DEF Fits
    <2>8. /\ Stays(m, b) /\ b.o = m.o /\ b.c.at = "awaiting"
          /\ b.c.request # NoRequest /\ b.c.request.url = "X" /\ b.c.request.node = node
          /\ \A r \in Registers : b.c[r] = m.c[r]
      BY <2>7, Requests
    <2> HIDE DEF b
    <2>9. Carries(a, b)
      BY <2>2, <2>3, <2>4, <2>8 DEF Stays, Carries, Alike
    <2>10. b.c.saved = a.o.url
      BY <2>2, <2>4, <2>8 DEF Stays
    <2>11. Directed(a, b, step)
      BY <1>2, <2>8, <2>10 DEF Directed
    <2>12. Sent(a, b, step)
      BY <2>2, <2>4, <2>8, <2>9, <2>11, WorldFacts DEF Sent
    <2>13. QED
      BY <2>5, <2>12
  <1>3. QED
    BY <1>1, <1>2

-----------------------------------------------------------------------------
\* The first part of a step, up to its await or to its end.

Ready(a) == Fits(a) /\ a.c.at = "running" /\ a.c.request = NoRequest

Begun(a, b, step) ==
    /\ Carries(a, b) /\ Directed(a, b, step)
    /\ b.c.at \in {"running", "awaiting", "failed"}
    /\ b.c.at = "running" =>
           /\ b.c.request = NoRequest
           /\ step # "AssetID" /\ ~IsGoose(step)
           /\ step = "NetworkAssetID" => b.c.assetID # Unset
    /\ b.c.at = "awaiting" =>
           /\ step # "NetworkAssetID"
           /\ b.c.request # NoRequest => b.c.request.node # Unset
           /\ b.c.request = NoRequest =>
                  /\ step # "Describe"
                  /\ step = "AssetID" => b.c.assetID # Unset
                  /\ IsGoose(step) => b.c.checked # Unset
    /\ b.c.at # "failed" /\ a.c.assetID # Unset => b.c.assetID # Unset

LEMMA SentBegins ==
    ASSUME NEW a, NEW b, NEW step, Sent(a, b, step), step # "NetworkAssetID"
    PROVE  Begun(a, b, step)
  BY DEF Sent, Begun, Registers

LEMMA ThrowBegins ==
    ASSUME NEW a, Ready(a), NEW step
    PROVE  Begun(a, Throw(a), step)
  <1> DEFINE b == Throw(a)
  <1>1. Stays(a, b) /\ b.c.at = "failed" /\ b.c.request = NoRequest
    BY Throws DEF Ready
  <1> HIDE DEF b
  <1>2. Begun(a, b, step)
    BY <1>1 DEF Begun, Stays, Directed
  <1>3. QED
    BY <1>2 DEF b

\* A step that is over at once, and does not find the asset.
Plain(step) == step \notin {"AssetID", "NetworkAssetID"} /\ ~IsGoose(step)

LEMMA StaysBegins ==
    ASSUME NEW a, Ready(a), NEW step, NEW b, Stays(a, b), b.c.request = a.c.request,
           b.c.at \in {"running", "failed"},
           Plain(step) \/ step = "NetworkAssetID",
           b.c.at = "running" =>
               /\ step = "NetworkAssetID" => b.c.assetID # Unset
               /\ b.c.assetID = a.c.assetID \/ b.c.assetID # Unset
    PROVE  Begun(a, b, step)
  BY DEF Ready, Begun, Stays, Directed, Plain, IsGoose

LEMMA SameBegins ==
    ASSUME NEW a, Ready(a), NEW step, Plain(step)
    PROVE  Begun(a, a, step)
  <1>1. Stays(a, a)
    BY DEF Ready, Stays, Carries, Alike
  <1>2. QED
    BY <1>1, StaysBegins DEF Ready, Plain

LEMMA FeeBegins ==
    ASSUME World, NEW a, Ready(a), NEW step, Plain(step), NEW f \in Fields, NEW r \in Registers
    PROVE  Begun(a, GetFee(a, f, r), step)
  <1> DEFINE b == GetFee(a, f, r)
  <1>1. /\ Stays(a, b) /\ b.c.request = a.c.request
        /\ \A q \in Registers : q # r => b.c[q] = a.c[q]
        /\ b.c.at \in {"running", "failed"}
        /\ b.c.at = "running" => b.c[r] # Unset
    BY FeeIsThere DEF Ready
  <1> HIDE DEF b
  <1>2. b.c.at = "running" => b.c.assetID = a.c.assetID \/ b.c.assetID # Unset
    BY <1>1 DEF Registers
  <1>3. Begun(a, b, step)
    BY <1>1, <1>2, StaysBegins DEF Plain
  <1>4. QED
    BY <1>3 DEF b

LEMMA DefaultBegins ==
    ASSUME World, NEW a, Ready(a), NEW step, NEW r \in Registers,
           Plain(step) \/ (step = "NetworkAssetID" /\ r = "assetID")
    PROVE  Begun(a, GetDefault(a, r), step)
  <1> DEFINE b == GetDefault(a, r)
  <1>1. /\ Stays(a, b) /\ b.c.request = a.c.request
        /\ \A q \in Registers : q # r => b.c[q] = a.c[q]
        /\ b.c.at \in {"running", "failed"}
        /\ b.c.at = "running" => b.c[r] # Unset
    BY DefaultIsThere DEF Ready
  <1> HIDE DEF b
  <1>2. b.c.at = "running" => b.c.assetID = a.c.assetID \/ b.c.assetID # Unset
    BY <1>1 DEF Registers
  <1>3. b.c.at = "running" => (step = "NetworkAssetID" => b.c.assetID # Unset)
    BY <1>1 DEF Plain
  <1>4. Begun(a, b, step)
    BY <1>1, <1>2, <1>3, StaysBegins
  <1>5. QED
    BY <1>4 DEF b

\* A value that is kept is awaited as one that is asked for.
LEMMA FeeAwaited ==
    ASSUME World, NEW a, Ready(a), NEW step, NEW f \in Fields, NEW r \in Registers,
           step \notin {"NetworkAssetID", "Describe"},
           step = "AssetID" => r = "assetID",
           IsGoose(step) => r = "checked"
    PROVE  Begun(a, Await(GetFee(a, f, r)), step)
  <1> DEFINE m == GetFee(a, f, r)
             b == Await(m)
  <1>1. /\ Stays(a, m) /\ m.c.request = a.c.request
        /\ \A q \in Registers : q # r => m.c[q] = a.c[q]
        /\ m.c.at \in {"running", "failed"}
        /\ m.c.at = "running" => m.c[r] # Unset
    BY FeeIsThere DEF Ready
  <1> HIDE DEF m
  <1>2. Fits(m)
    BY <1>1 DEF Stays, Carries
  <1>3. /\ Stays(m, b) /\ b.c.request = m.c.request
        /\ b.c.at = (IF m.c.at = "failed" THEN "failed" ELSE "awaiting")
        /\ \A q \in Registers : b.c[q] = m.c[q]
    BY <1>2, AwaitsTurn
  <1> HIDE DEF b
  <1>4. Stays(a, b) /\ b.c.request = NoRequest /\ b.c.at \in {"awaiting", "failed"}
    BY <1>1, <1>3, StaysOn DEF Ready
  <1>5. b.c.at = "awaiting" => b.c[r] # Unset
    BY <1>1, <1>3
  <1>6. b.c.at = "awaiting" => b.c.assetID = a.c.assetID \/ b.c.assetID # Unset
    BY <1>1, <1>3, <1>5 DEF Registers
  <1>7. Begun(a, b, step)
    BY <1>4, <1>5, <1>6 DEF Begun, Stays, Directed
  <1>8. QED
    BY <1>7 DEF b, m

LEMMA AssetBegins ==
    ASSUME World, NEW a, Ready(a), NEW step, NEW r \in {"assetID", "checked"},
           \/ step = "AssetID" /\ r = "assetID"
           \/ IsGoose(step) /\ r = "checked" /\ api # "C"
    PROVE  Begun(a, GetAVAXAssetID(a, r), step)
  <1>1. /\ r \in Registers /\ "asset" \in Fields /\ a.c.at # "failed" /\ Fits(a)
        /\ step \notin {"NetworkAssetID", "Describe"}
    BY DEF Registers, Fields, Ready, IsGoose
  <1>2. CASE api = "P" \/ a.o.asset # Unset
    <2>1. GetAVAXAssetID(a, r) = Await(GetFee(a, "asset", r))
      BY <1>2 DEF GetAVAXAssetID
    <2>2. QED
      BY <1>1, <2>1, FeeAwaited DEF IsGoose
  <1>3. CASE ~(api = "P" \/ a.o.asset # Unset)
    <2>1. GetAVAXAssetID(a, r) = GetAssetDescription(a)
      BY <1>3 DEF GetAVAXAssetID
    <2>2. CASE step = "AssetID"
      BY <1>1, <2>1, <2>2, DescriptionSent, SentBegins
    <2>3. CASE api # "C"
      <3>1. GetAssetDescription(a) = CallMethod(a, a.o.url)
        BY <2>3 DEF GetAssetDescription
      <3>2. QED
        BY <1>1, <2>1, <3>1, SentHome, SentBegins
    <2>4. QED
      BY <2>2, <2>3
  <1>4. QED
    BY <1>2, <1>3

LEMMA BuildBegins ==
    ASSUME World, NEW a, Ready(a)
    PROVE  Begun(a, Build(a), "Build")
  <1>1. Plain("Build") /\ Fits(a) /\ a.c.at # "failed"
    BY DEF Plain, IsGoose, Ready
  <1>2. CASE Build(a) = Throw(a)
    BY <1>2, ThrowBegins
  <1>3. CASE Build(a) = a
    BY <1>1, <1>3, SameBegins
  <1>4. CASE Build(a) = CallMethod(a, a.o.url)
    BY <1>1, <1>4, SentHome, SentBegins
  <1>5. CASE Build(a) = Await(a)
    <2> DEFINE b == Await(a)
    <2>1. /\ Stays(a, b) /\ b.c.request = a.c.request /\ b.c.at = "awaiting"
          /\ \A r \in Registers : b.c[r] = a.c[r]
      BY <1>1, AwaitsTurn
    <2> HIDE DEF b
    <2>2. Begun(a, b, "Build")
      BY <2>1 DEF Begun, Stays, Directed, Ready, IsGoose, Registers
    <2>3. QED
      BY <1>5, <2>2 DEF b
  <1>6. QED
    BY <1>2, <1>3, <1>4, <1>5 DEF Build

\* The steps of the programs.
Steps == {"Args", "Check", "CheckTime", "NetworkID", "TxFee", "CreationTxFee", "MintTxFee",
          "DefaultTxFee", "NetworkAssetID", "NoBonds", "Atomics", "MinStake", "AssetID", "Describe",
          "Utxos", "Request", "RequestRpc", "Build", "Goose", "GooseCreation", "GooseOfFee",
          "GooseIgnored"}

LEMMA OutTotalBegins ==
    ASSUME World, NEW a, Ready(a), NEW step
    PROVE  LET b == OutTotalKnown(a, step)
           IN /\ Stays(a, b) /\ b.c.request = NoRequest /\ b.c.assetID = a.c.assetID
              /\ b.c.at \in {"running", "failed"}
  <1>0. /\ Fits(a) /\ a.c.at = "running" /\ a.c.request = NoRequest
        /\ "creationFee" \in Registers /\ "assetID" \in Registers /\ "fee" \in Registers
        /\ "creationTxFee" \in Fields /\ "assetID" # "creationFee"
    BY DEF Ready, Registers, Fields
  <1>1. CASE step = "GooseCreation"
    <2>1. OutTotalKnown(a, step) = GetFee(a, "creationTxFee", "creationFee")
      BY <1>1 DEF OutTotalKnown
    <2>2. QED
      BY <1>0, <2>1, FeeIsThere
  <1>2. CASE step = "GooseOfFee"
    <2> DEFINE b == WithRegister(a, "creationFee", a.c.fee)
    <2>1. OutTotalKnown(a, step) = b
      BY <1>2 DEF OutTotalKnown, WithRegister
    <2>2. a.c \in CallRecord
      BY <1>0 DEF Fits, Pair
    <2>3. a.c.fee \in Known
      BY <2>2 DEF CallRecord
    <2>4. a.c.steady => a.c.fee \in {Unset, node}
      BY <1>0 DEF Fits, Current, Registers
    <2>5. /\ Stays(a, b) /\ b.c.at = a.c.at /\ b.c.request = a.c.request
          /\ \A q \in Registers : b.c[q] = IF q = "creationFee" THEN a.c.fee ELSE a.c[q]
      BY <1>0, <2>3, <2>4, Registered
    <2> HIDE DEF b
    <2>6. b.c.assetID = a.c.assetID
      BY <1>0, <2>5
    <2>7. QED
      BY <1>0, <2>1, <2>5, <2>6
  <1>3. CASE step \notin {"GooseCreation", "GooseOfFee"}
    BY <1>0, <1>3 DEF OutTotalKnown, Stays, Carries, Alike
  <1>4. QED
    BY <1>1, <1>2, <1>3

LEMMA GooseBegins ==
    ASSUME World, NEW a, Ready(a), NEW step \in Steps, IsGoose(step), api # "C"
    PROVE  Begun(a, Begin(a, step), step)
  <1> DEFINE b == OutTotalKnown(a, step)
             c == GetAVAXAssetID(b, "checked")
  <1>1. Begin(a, step) = IF b.c.at = "failed" THEN b ELSE c
    BY DEF Begin, IsGoose
  <1>2. /\ Stays(a, b) /\ b.c.request = NoRequest /\ b.c.assetID = a.c.assetID
        /\ b.c.at \in {"running", "failed"}
    BY OutTotalBegins
  <1> HIDE DEF b
  <1>3. CASE b.c.at = "failed"
    <2>1. Begun(a, b, step)
      BY <1>2, <1>3 DEF Begun, Stays, Directed
    <2>2. QED
      BY <1>1, <1>3, <2>1
  <1>4. CASE b.c.at = "running"
    <2>1. Ready(b)
      BY <1>2, <1>4 DEF Ready, Stays, Carries
    <2>2. Begun(b, c, step)
      BY <2>1, AssetBegins
    <2> HIDE DEF c
    <2>3. Carries(a, c)
      BY <1>2, <2>2 DEF Begun, Stays, Carries, Alike
    <2>4. Directed(a, c, step)
      BY <1>2, <2>2 DEF Begun, Stays, Directed
    <2>5. Begun(a, c, step)
      BY <1>2, <2>2, <2>3, <2>4 DEF Begun
    <2>6. QED
      BY <1>1, <1>4, <2>5
  <1>5. QED
    BY <1>2, <1>3, <1>4

\* Any step: nothing of another network comes in, the call goes on, waits or fails.
LEMMA BeginStep ==
    ASSUME World, NEW a, Ready(a), NEW step \in Steps, IsGoose(step) => api # "C"
    PROVE  Begun(a, Begin(a, step), step)
  <1> DEFINE b == Begin(a, step)
  <1>0. Fits(a) /\ a.c.at = "running" /\ a.c.at # "failed"
    BY DEF Ready
  <1>1. CASE step = "Args"
    <2>1. CASE a.c.flaw = "args"
      BY <1>1, <2>1, ThrowBegins DEF Begin, IsGoose
    <2>2. CASE a.c.flaw # "args" /\ api = "P"
      <3>1. b = a \/ b = Throw(a)
        BY <1>1, <2>2 DEF Begin, IsGoose, GetBlockchainAlias
      <3>2. QED
        BY <1>1, <3>1, ThrowBegins, SameBegins DEF Plain, IsGoose
    <2>3. CASE a.c.flaw # "args" /\ api # "P"
      <3> DEFINE m == Cached(a, "alias")
      <3>1. b = m
        BY <1>1, <2>3 DEF Begin, IsGoose, GetBlockchainAlias
      <3>2. /\ Stays(a, m) /\ m.c.request = a.c.request
            /\ \A r \in Registers : m.c[r] = a.c[r]
            /\ m.c.at \in {"running", "failed"}
        BY <1>0, CachedIsThere DEF Fields
      <3> HIDE DEF m
      <3>3. Begun(a, m, step)
        BY <1>1, <3>2, StaysBegins DEF Plain, IsGoose, Registers
      <3>4. QED
        BY <3>1, <3>3
    <2>4. QED
      BY <2>1, <2>2, <2>3
  <1>2. CASE step \in {"Check", "CheckTime", "NoBonds", "Atomics"}
    <2>1. Plain(step)
      BY <1>2 DEF Plain, IsGoose
    <2>2. b = a \/ b = Throw(a)
      BY <1>2 DEF Begin, IsGoose
    <2>3. QED
      BY <2>1, <2>2, ThrowBegins, SameBegins
  <1>3. CASE step = "NetworkID"
    <2> DEFINE m == WithRegister(a, "networkID", node)
    <2>1. b = m
      BY <1>3 DEF Begin, IsGoose, WithRegister
    <2>2. /\ Stays(a, m) /\ m.c.at = a.c.at /\ m.c.request = a.c.request
          /\ \A q \in Registers : m.c[q] = IF q = "networkID" THEN node ELSE a.c[q]
      BY <1>0, WorldFacts, Registered DEF Registers
    <2> HIDE DEF m
    <2>3. m.c.assetID = a.c.assetID
      BY <2>2 DEF Registers
    <2>4. Begun(a, m, step)
      BY <1>0, <1>3, <2>2, <2>3, StaysBegins DEF Plain, IsGoose
    <2>5. QED
      BY <2>1, <2>4
  <1>4. CASE step \in {"TxFee", "CreationTxFee", "MintTxFee"}
    <2>1. Plain(step) /\ "fee" \in Registers
      BY <1>4 DEF Plain, IsGoose, Registers
    <2>2. PICK f \in Fields : b = GetFee(a, f, "fee")
      BY <1>4 DEF Begin, IsGoose, Fields
    <2>3. QED
      BY <2>1, <2>2, FeeBegins
  <1>5. CASE step = "DefaultTxFee"
    <2>1. Plain(step) /\ "fee" \in Registers
      BY <1>5 DEF Plain, IsGoose, Registers
    <2>2. b = GetDefault(a, "fee")
      BY <1>5 DEF Begin, IsGoose
    <2>3. Begun(a, GetDefault(a, "fee"), step)
      BY <2>1, DefaultBegins
    <2>4. QED
      BY <2>2, <2>3
  <1>6. CASE step = "NetworkAssetID"
    <2>1. b = GetDefault(a, "assetID") /\ "assetID" \in Registers
      BY <1>6 DEF Begin, IsGoose, Registers
    <2>2. Begun(a, GetDefault(a, "assetID"), step)
      BY <1>6, <2>1, DefaultBegins
    <2>3. QED
      BY <2>1, <2>2
  <1>7. CASE step = "MinStake"
    <2>1. CASE a.o.minStake # Unset
      <3>1. b = Await(GetFee(a, "minStake", "minStake"))
        BY <1>7, <2>1 DEF Begin, IsGoose
      <3>2. QED
        BY <1>7, <3>1, FeeAwaited DEF Fields, Registers, IsGoose
    <2>2. CASE a.o.minStake = Unset
      <3>1. b = CallMethod(a, a.o.url)
        BY <1>7, <2>2 DEF Begin, IsGoose
      <3>2. QED
        BY <1>0, <1>7, <3>1, SentHome, SentBegins
    <2>3. QED
      BY <2>1, <2>2
  <1>8. CASE step = "AssetID"
    <2>1. b = GetAVAXAssetID(a, "assetID")
      BY <1>8 DEF Begin, IsGoose
    <2>2. Begun(a, GetAVAXAssetID(a, "assetID"), step)
      BY <1>8, AssetBegins
    <2>3. QED
      BY <2>1, <2>2
  <1>9. CASE step = "Describe"
    <2>1. b = GetAssetDescription(a)
      BY <1>9 DEF Begin, IsGoose
    <2>2. QED
      BY <1>0, <1>9, <2>1, DescriptionSent, SentBegins
  <1>10. CASE step \in {"Utxos", "Request"}
    <2>1. b = CallMethod(a, a.o.url)
      BY <1>10 DEF Begin, IsGoose
    <2>2. QED
      BY <1>0, <1>10, <2>1, SentHome, SentBegins
  <1>11. CASE step = "RequestRpc"
    <2>1. b = CallMethod(a, "C/rpc")
      BY <1>11 DEF Begin, IsGoose
    <2>2. QED
      BY <1>0, <1>11, <2>1, SentRpc, SentBegins
  <1>12. CASE step = "Build"
    <2>1. b = Build(a)
      BY <1>12 DEF Begin, IsGoose
    <2>2. QED
      BY <1>12, <2>1, BuildBegins
  <1>13. CASE step \in {"Goose", "GooseCreation", "GooseOfFee", "GooseIgnored"}
    BY <1>13, GooseBegins DEF IsGoose
  <1>14. QED
    BY <1>1, <1>2, <1>3, <1>4, <1>5, <1>6, <1>7, <1>8, <1>9, <1>10, <1>11, <1>12, <1>13 DEF Steps

-----------------------------------------------------------------------------
\* The programs.

LEMMA PrimaryPrograms == \A p \in ProgramsOf["P"] : p \in Seq(Steps) /\ p # <<>>
  <1> DEFINE Good(p) == p \in Seq(Steps) /\ p # <<>>
  <1>1. Good(PBuildBaseTx) /\ Good(PBuildImportTx) /\ Good(PBuildExportTx)
    BY DEF PBuildBaseTx, PBuildImportTx, PBuildExportTx, Steps
  <1>2. Good(PBuildAddSubnetValidatorTx) /\ Good(PBuildAddDelegatorTx) /\ Good(PBuildAddValidatorTx)
    BY DEF PBuildAddSubnetValidatorTx, PBuildAddDelegatorTx, PBuildAddValidatorTx, Steps
  <1>3. Good(PBuildCreateSubnetTx) /\ Good(PBuildCreateChainTx) /\ Good(PBuildCaminoAddValidatorTx)
    BY DEF PBuildCreateSubnetTx, PBuildCreateChainTx, PBuildCaminoAddValidatorTx, Steps
  <1>4. Good(PBuildAddressStateTx) /\ Good(PBuildRegisterNodeTx) /\ Good(PBuildDepositTx)
    BY DEF PBuildAddressStateTx, PBuildRegisterNodeTx, PBuildDepositTx, Steps
  <1>5. Good(PBuildUnlockDepositTx) /\ Good(PBuildClaimTx) /\ Good(PBuildMultisigAliasTx)
    BY DEF PBuildUnlockDepositTx, PBuildClaimTx, PBuildMultisigAliasTx, Steps
  <1>6. Good(PBuildAddDepositOfferTx) /\ Good(PBuildAddProposalTx) /\ Good(PBuildAddVoteTx)
    BY DEF PBuildAddDepositOfferTx, PBuildAddProposalTx, PBuildAddVoteTx, Steps
  <1>7. Good(PIssueTx)
    BY DEF PIssueTx, Steps
  <1> HIDE DEF Good
  <1>8. \A p \in ProgramsOf["P"] : Good(p)
    BY <1>1, <1>2, <1>3, <1>4, <1>5, <1>6, <1>7 DEF ProgramsOf
  <1>9. QED
    BY <1>8 DEF Good

LEMMA ExchangePrograms == \A p \in ProgramsOf["X"] : p \in Seq(Steps) /\ p # <<>>
  <1> DEFINE Good(p) == p \in Seq(Steps) /\ p # <<>>
  <1>1. Good(XBuildBaseTx) /\ Good(XBuildNFTTransferTx) /\ Good(XBuildImportTx)
    BY DEF XBuildBaseTx, XBuildNFTTransferTx, XBuildImportTx, Steps
  <1>2. Good(XBuildExportTx) /\ Good(XBuildCreateAssetTx) /\ Good(XBuildSECPMintTx)
    BY DEF XBuildExportTx, XBuildCreateAssetTx, XBuildSECPMintTx, Steps
  <1>3. Good(XBuildCreateNFTAssetTx) /\ Good(XBuildCreateNFTMintTx) /\ Good(XIssueTx)
    BY DEF XBuildCreateNFTAssetTx, XBuildCreateNFTMintTx, XIssueTx, Steps
  <1> HIDE DEF Good
  <1>4. \A p \in ProgramsOf["X"] : Good(p)
    BY <1>1, <1>2, <1>3 DEF ProgramsOf
  <1>5. QED
    BY <1>4 DEF Good

\* The C-chain checks nothing after the building.
LEMMA ContractPrograms ==
    \A p \in ProgramsOf["C"] :
        /\ p \in Seq(Steps) /\ p # <<>>
        /\ \A k \in 1..Len(p) : ~IsGoose(p[k])
  <1> DEFINE Good(p) == p \in Seq(Steps) /\ p # <<>> /\ \A k \in 1..Len(p) : ~IsGoose(p[k])
  <1>1. Good(CBuildImportTx)
    BY DEF CBuildImportTx, Steps, IsGoose
  <1>2. Good(CBuildImportGivenTx)
    BY DEF CBuildImportGivenTx, Steps, IsGoose
  <1>3. Good(CBuildExportTx)
    BY DEF CBuildExportTx, Steps, IsGoose
  <1>4. Good(CGetAVAXAssetID) /\ Good(CGetAssetDescription)
    BY DEF CGetAVAXAssetID, CGetAssetDescription, Steps, IsGoose
  <1>5. Good(CIssueTx) /\ Good(CGetBaseFee)
    BY DEF CIssueTx, CGetBaseFee, Steps, IsGoose
  <1> HIDE DEF Good
  <1>6. \A p \in ProgramsOf["C"] : Good(p)
    BY <1>1, <1>2, <1>3, <1>4, <1>5 DEF ProgramsOf
  <1>7. QED
    BY <1>6 DEF Good

\* A program that builds on the P- or X-chain finds the asset, and ends with a check.
Checked(p) == GooseMatters(p[Len(p)]) /\ \E k \in 1..Len(p) - 1 : p[k] = "AssetID"

LEMMA PrimaryChecked == \A p \in ProgramsOf["P"] \ {PBuildBaseTx, PIssueTx} : Checked(p)
  <1>1. Checked(PBuildImportTx) /\ Checked(PBuildExportTx)
    BY DEF PBuildImportTx, PBuildExportTx, Checked, GooseMatters
  <1>2. Checked(PBuildAddSubnetValidatorTx) /\ Checked(PBuildAddDelegatorTx) /\ Checked(PBuildAddValidatorTx)
    BY DEF PBuildAddSubnetValidatorTx, PBuildAddDelegatorTx, PBuildAddValidatorTx, Checked, GooseMatters
  <1>3. Checked(PBuildCreateSubnetTx) /\ Checked(PBuildCreateChainTx) /\ Checked(PBuildCaminoAddValidatorTx)
    BY DEF PBuildCreateSubnetTx, PBuildCreateChainTx, PBuildCaminoAddValidatorTx, Checked, GooseMatters
  <1>4. Checked(PBuildAddressStateTx) /\ Checked(PBuildRegisterNodeTx) /\ Checked(PBuildDepositTx)
    BY DEF PBuildAddressStateTx, PBuildRegisterNodeTx, PBuildDepositTx, Checked, GooseMatters
  <1>5. Checked(PBuildUnlockDepositTx) /\ Checked(PBuildClaimTx) /\ Checked(PBuildMultisigAliasTx)
    BY DEF PBuildUnlockDepositTx, PBuildClaimTx, PBuildMultisigAliasTx, Checked, GooseMatters
  <1>6. Checked(PBuildAddDepositOfferTx) /\ Checked(PBuildAddProposalTx) /\ Checked(PBuildAddVoteTx)
    BY DEF PBuildAddDepositOfferTx, PBuildAddProposalTx, PBuildAddVoteTx, Checked, GooseMatters
  <1>7. QED
    BY <1>1, <1>2, <1>3, <1>4, <1>5, <1>6 DEF ProgramsOf

LEMMA ExchangeChecked == \A p \in ProgramsOf["X"] \ {PIssueTx} : Checked(p)
  <1>1. Checked(XBuildBaseTx) /\ Checked(XBuildNFTTransferTx) /\ Checked(XBuildImportTx)
    BY DEF XBuildBaseTx, XBuildNFTTransferTx, XBuildImportTx, Checked, GooseMatters
  <1>2. Checked(XBuildExportTx) /\ Checked(XBuildCreateAssetTx) /\ Checked(XBuildSECPMintTx)
    BY DEF XBuildExportTx, XBuildCreateAssetTx, XBuildSECPMintTx, Checked, GooseMatters
  <1>3. Checked(XBuildCreateNFTAssetTx) /\ Checked(XBuildCreateNFTMintTx)
    BY DEF XBuildCreateNFTAssetTx, XBuildCreateNFTMintTx, Checked, GooseMatters
  <1>4. XIssueTx = PIssueTx
    BY DEF XIssueTx, PIssueTx
  <1>5. QED
    BY <1>1, <1>2, <1>3, <1>4 DEF ProgramsOf

LEMMA ProgramFacts ==
    ASSUME World, NEW p \in ProgramsOf[api]
    PROVE  /\ p \in Programs /\ p \in Seq(Steps) /\ p # <<>>
           /\ Len(p) \in Nat \ {0}
           /\ \A k \in 1..Len(p) : p[k] \in Steps /\ (IsGoose(p[k]) => api # "C")
           /\ api # "C" /\ p \notin {PBuildBaseTx, PIssueTx} => Checked(p)
  <1>1. p \in Programs
    BY DEF World, Apis, Programs
  <1>2. /\ p \in Seq(Steps) /\ p # <<>>
        /\ api = "C" => \A k \in 1..Len(p) : ~IsGoose(p[k])
    BY PrimaryPrograms, ExchangePrograms, ContractPrograms DEF World, Apis
  <1>3. Len(p) \in Nat \ {0} /\ \A k \in 1..Len(p) : p[k] \in Steps
    BY <1>2, EmptySeq, LenProperties, ElementOfSeq
  <1>4. api # "C" /\ p \notin {PBuildBaseTx, PIssueTx} => Checked(p)
    BY PrimaryChecked, ExchangeChecked DEF World, Apis
  <1>5. QED
    BY <1>1, <1>2, <1>3, <1>4

-----------------------------------------------------------------------------
\* The fold over the rest of a program.

LEMMA OnlyOne ==
    ASSUME NEW e
    PROVE  The({e}) = e
  BY DEF The

LEMMA OneAdvance ==
    ASSUME NEW a, NEW step
    PROVE  AdvanceOnce(a, step) = Advance(a, step)
  <1>1. {Advance(b, step) : b \in {a}} = {Advance(a, step)}
    OBVIOUS
  <1>2. QED
    BY <1>1, OnlyOne DEF AdvanceOnce

\* The equation of the fold at the set s of indices.
FoldAt(a, rest, g, s) ==
    g[s] = IF s = {} THEN a ELSE AdvanceOnce(g[s \ {Max(s)}], rest[Max(s)])

IsFold(a, rest, g) ==
    g = [s \in SUBSET (DOMAIN rest) |->
            IF s = {} THEN a ELSE AdvanceOnce(g[s \ {Max(s)}], rest[Max(s)])]

Folded(a, rest) == FoldLeft(AdvanceOnce, a, rest)

LEMMA FoldUnfold ==
    ASSUME NEW a, NEW rest
    PROVE  Folded(a, rest) = (CHOOSE g : IsFold(a, rest, g))[DOMAIN rest]
  BY DEF Folded, FoldLeft, MapThenFoldSet, IsFold

LEMMA FoldExists ==
    ASSUME NEW a, NEW rest, IsFiniteSet(DOMAIN rest), DOMAIN rest \subseteq Nat
    PROVE  \E g : IsFold(a, rest, g)
  <1> DEFINE D == DOMAIN rest
             Small(n) == {s \in SUBSET D : Cardinality(s) <= n}
             Upto(n, g) == \A s \in Small(n) : FoldAt(a, rest, g, s)
             G == {n \in Nat : \E g : Upto(n, g)}
  <1>0. \A s \in SUBSET D : IsFiniteSet(s) /\ Cardinality(s) \in Nat
    BY FS_Subset, FS_CardinalityType
  <1>1. 0 \in G
    <2>1. \A s \in Small(0) : s = {}
      BY <1>0, FS_EmptySet
    <2>2. Upto(0, [s \in SUBSET D |-> a])
      BY <2>1 DEF FoldAt
    <2>3. QED
      BY <2>2
  <1>2. ASSUME NEW n \in Nat, n \in G PROVE n + 1 \in G
    <2>1. PICK g : Upto(n, g)
      BY <1>2
    <2> DEFINE OneMore(s) == AdvanceOnce(g[s \ {Max(s)}], rest[Max(s)])
               h == [s \in SUBSET D |-> IF s \in Small(n) THEN g[s] ELSE OneMore(s)]
    <2>2. ASSUME NEW s \in Small(n + 1) PROVE FoldAt(a, rest, h, s)
      <3>1. CASE s = {}
        <4>1. s \in Small(n)
          BY <3>1, FS_EmptySet
        <4>2. QED
          BY <2>1, <3>1, <4>1 DEF FoldAt
      <3>2. CASE s # {}
        <4>1. Max(s) \in s
          BY <1>0, <3>2, GreatestNumber
        <4>2. /\ s \ {Max(s)} \in SUBSET D
              /\ Cardinality(s) \in Nat
              /\ Cardinality(s \ {Max(s)}) = Cardinality(s) - 1
          BY <1>0, <4>1, FS_RemoveElement
        <4>3. s \ {Max(s)} \in Small(n)
          BY <4>2
        <4>4. h[s \ {Max(s)}] = g[s \ {Max(s)}]
          BY <4>2, <4>3
        <4>5. h[s] = OneMore(s)
          BY <2>1, <3>2 DEF FoldAt
        <4> HIDE DEF h
        <4>6. QED
          BY <3>2, <4>4, <4>5 DEF FoldAt
      <3>3. QED
        BY <3>1, <3>2
    <2> HIDE DEF h
    <2>3. Upto(n + 1, h)
      BY <2>2
    <2>4. QED
      BY <2>3
  <1>3. Cardinality(D) \in G
    <2>1. Nat \subseteq G
      <3> HIDE DEF G
      <3>1. QED
        BY <1>1, <1>2, NumberInduction
    <2>2. QED
      BY <1>0, <2>1
  <1>4. PICK g : Upto(Cardinality(D), g)
    BY <1>3
  <1>5. \A s \in SUBSET D : s \in Small(Cardinality(D))
    BY FS_Subset
  <1> DEFINE h == [s \in SUBSET D |-> g[s]]
  <1>6. IsFold(a, rest, h)
    <2>1. ASSUME NEW s \in SUBSET D
          PROVE  h[s] = IF s = {} THEN a ELSE AdvanceOnce(h[s \ {Max(s)}], rest[Max(s)])
      <3>1. FoldAt(a, rest, g, s)
        BY <1>4, <1>5
      <3>2. h[s] = g[s] /\ h[s \ {Max(s)}] = g[s \ {Max(s)}]
        OBVIOUS
      <3> HIDE DEF h
      <3>3. QED
        BY <3>1, <3>2 DEF FoldAt
    <2>2. QED
      BY <2>1 DEF IsFold
  <1>7. QED
    BY <1>6

\* The fold, one step after another.
Traced(a, rest, m, g) ==
    /\ g[0] = a
    /\ \A k \in 1..m : g[k] = Advance(g[k - 1], rest[k])
    /\ Folded(a, rest) = g[m]

LEMMA FoldSteps ==
    ASSUME NEW a, NEW rest, NEW m \in Nat, DOMAIN rest = 1..m
    PROVE  \E g : Traced(a, rest, m, g)
  <1> DEFINE f == CHOOSE g : IsFold(a, rest, g)
             g == [k \in 0..m |-> f[1..k]]
  <1>1. IsFold(a, rest, f)
    <2>1. IsFiniteSet(DOMAIN rest) /\ DOMAIN rest \subseteq Nat
      BY FS_Interval
    <2>2. QED
      BY <2>1, FoldExists
  <1>2. Folded(a, rest) = f[1..m]
    BY FoldUnfold
  <1> HIDE DEF f
  <1>3. \A s \in SUBSET (1..m) :
            f[s] = IF s = {} THEN a ELSE AdvanceOnce(f[s \ {Max(s)}], rest[Max(s)])
    BY <1>1 DEF IsFold
  <1>4. f[1..0] = a
    <2>1. 1..0 = {} /\ 1..0 \in SUBSET (1..m)
      OBVIOUS
    <2>2. QED
      BY <1>3, <2>1
  <1>5. ASSUME NEW k \in 1..m PROVE f[1..k] = Advance(f[1..k - 1], rest[k])
    <2>1. /\ 1..k \in SUBSET (1..m) /\ 1..k \in SUBSET Nat /\ IsFiniteSet(1..k) /\ k \in 1..k
          /\ 1..k # {}
      <3>1. IsFiniteSet(1..k)
        BY FS_Interval
      <3>2. QED
        BY <3>1
    <2>2. Max(1..k) \in 1..k /\ \A n \in 1..k : n <= Max(1..k)
      BY <2>1, GreatestNumber
    <2>3. Max(1..k) = k
      BY <2>1, <2>2
    <2>4. (1..k) \ {k} = 1..k - 1
      OBVIOUS
    <2>5. f[1..k] = AdvanceOnce(f[(1..k) \ {Max(1..k)}], rest[Max(1..k)])
      BY <1>3, <2>1
    <2>6. QED
      BY <2>3, <2>4, <2>5, OneAdvance
  <1>6. g[0] = a /\ g[m] = f[1..m]
    BY <1>4
  <1>7. ASSUME NEW k \in 1..m PROVE g[k] = Advance(g[k - 1], rest[k])
    <2>1. k \in 0..m /\ k - 1 \in 0..m
      OBVIOUS
    <2>2. g[k] = f[1..k] /\ g[k - 1] = f[1..k - 1]
      BY <2>1
    <2>3. QED
      BY <1>5, <2>2
  <1>8. Traced(a, rest, m, g)
    BY <1>2, <1>6, <1>7 DEF Traced
  <1>9. QED
    BY <1>8

-----------------------------------------------------------------------------
\* A run: the rest of a program up to the next await.

\* An object at its own URL, or a description that will put it back.
Home(a) ==
    /\ Describing(a.c) => a.c.saved = api
    /\ ~Describing(a.c) =>
           /\ a.o.url = api
           /\ a.c.at # "failed" /\ a.c.request # NoRequest => a.c.request.url \in {api, "C/rpc"}

\* What runs: all that was begun is over, nothing is asked.
Runs(a) == Ready(a) /\ a.c.program \in ProgramsOf[api] /\ Completed(a.c)

\* The call b has become of a, both in the same program, on the same object.
Became(a, b) ==
    /\ Fits(b)
    /\ b.c.program = a.c.program /\ b.c.object = a.c.object
    /\ b.c.flaw = a.c.flaw /\ b.c.steady = a.c.steady
    /\ b.o.made = a.o.made
    /\ b.c.at = "awaiting" => Awaits(b.c)
    /\ a.o.url = api => Home(b)

\* After n more steps, unless it waits or has failed.
Walked(a, n, b) ==
    /\ Became(a, b)
    /\ b.c.at \in {"running", "awaiting", "failed"}
    /\ b.c.at = "running" =>
           b.c.begun = a.c.begun + n /\ b.c.request = NoRequest /\ Completed(b.c)

LEMMA WalkedNothing ==
    ASSUME World, NEW a, Runs(a)
    PROVE  Walked(a, 0, a)
  <1>1. a.c.begun + 0 = a.c.begun
    BY DEF Runs, Completed
  <1>2. ~Describing(a.c)
    BY DEF Runs, Ready, Describing
  <1>3. QED
    BY <1>1, <1>2 DEF Walked, Became, Runs, Ready, Home

LEMMA NoUrl == NoRequest.url # "X"
  BY DEF NoRequest

LEMMA BegunWritten ==
    ASSUME NEW c \in CallRecord, NEW n \in Nat
    PROVE  LET d == [c EXCEPT !.begun = n]
           IN /\ d \in CallRecord /\ d.at = c.at /\ d.request = c.request
              /\ d.begun = n /\ d.program = c.program /\ d.object = c.object
              /\ d.flaw = c.flaw /\ d.steady = c.steady
              /\ \A r \in Registers : d[r] = c[r]
  BY DEF CallRecord, Registers

LEMMA StepCounted ==
    ASSUME NEW a, Ready(a), NEW b, b = [a EXCEPT !.c.begun = @ + 1]
    PROVE  /\ Ready(b) /\ b.o = a.o /\ b.c.begun = a.c.begun + 1
           /\ b.c.program = a.c.program /\ b.c.object = a.c.object /\ b.c.flaw = a.c.flaw
           /\ b.c.steady = a.c.steady /\ b.c.assetID = a.c.assetID
  <1> DEFINE n == a.c.begun + 1
             d == [a.c EXCEPT !.begun = n]
  <1>1. a \in Pair /\ a.c \in CallRecord /\ a.c.begun \in Nat
    BY DEF Ready, Fits, Pair, CallRecord
  <1>0. n \in Nat /\ n = a.c.begun + 1
    BY <1>1
  <1>3. b = [a EXCEPT !.c = d]
    OBVIOUS
  <1> HIDE DEF n
  <1>2. /\ d \in CallRecord /\ d.at = a.c.at /\ d.request = a.c.request
        /\ d.begun = a.c.begun + 1 /\ d.program = a.c.program /\ d.object = a.c.object
        /\ d.flaw = a.c.flaw /\ d.steady = a.c.steady
        /\ \A r \in Registers : d[r] = a.c[r]
    BY <1>0, <1>1, BegunWritten
  <1> HIDE DEF d
  <1>4. b.c = d /\ b.o = a.o /\ b \in Pair
    BY <1>1, <1>2, <1>3 DEF Pair
  <1>5. a.c.steady => Current(d)
    BY <1>2 DEF Ready, Fits, Current
  <1>6. Fits(b)
    BY <1>2, <1>4, <1>5 DEF Ready, Fits
  <1>7. d.assetID = a.c.assetID
    BY <1>2 DEF Registers
  <1>8. QED
    BY <1>2, <1>4, <1>6, <1>7 DEF Ready

\* One step further.
LEMMA WalkedOn ==
    ASSUME World, NEW a, Runs(a), NEW n \in Nat, NEW b, Walked(a, n, b),
           a.c.begun + n + 1 \in 1..Len(a.c.program),
           NEW step, step = a.c.program[a.c.begun + n + 1]
    PROVE  Walked(a, n + 1, Advance(b, step))
  <1>1. CASE b.c.at # "running"
    BY <1>1 DEF Advance, Walked
  <1>2. CASE b.c.at = "running"
    <2> DEFINE m == [b EXCEPT !.c.begun = @ + 1]
               e == Begin(m, step)
    <2>1. /\ Became(a, b) /\ Ready(b) /\ b.c.begun = a.c.begun + n /\ Completed(b.c)
          /\ a.c.begun \in Nat /\ a.c.program \in ProgramsOf[api] /\ b.c.program = a.c.program
      BY <1>2 DEF Walked, Became, Ready, Runs, Completed
    <2>2. /\ Ready(m) /\ m.o = b.o /\ m.c.begun = b.c.begun + 1
          /\ m.c.program = b.c.program /\ m.c.object = b.c.object /\ m.c.flaw = b.c.flaw
          /\ m.c.steady = b.c.steady /\ m.c.assetID = b.c.assetID
      BY <2>1, StepCounted
    <2>3. Advance(b, step) = e
      BY <1>2 DEF Advance
    <2> HIDE DEF m
    <2>4. step \in Steps /\ (IsGoose(step) => api # "C")
      BY <2>1, ProgramFacts
    <2>5. Begun(m, e, step)
      BY <2>2, <2>4, BeginStep
    <2> HIDE DEF e
    <2>6. /\ Fits(e) /\ e.c.program = a.c.program /\ e.c.object = a.c.object
          /\ e.c.flaw = a.c.flaw /\ e.c.steady = a.c.steady /\ e.o.made = a.o.made
          /\ e.c.begun = a.c.begun + n + 1
      BY <2>1, <2>2, <2>5 DEF Begun, Carries, Alike, Became
    <2>7. Bearing(e.c) = step /\ e.c.begun \in 1..Len(e.c.program) /\ e.c.begun - 1 = b.c.begun
      BY <2>1, <2>6 DEF Bearing
    <2>8. e.c.at # "failed" => AssetKnown(e.c, e.c.begun - 1)
      BY <2>1, <2>2, <2>5, <2>6, <2>7 DEF Completed, AssetKnown, Begun
    <2>9. e.c.at = "awaiting" => Awaits(e.c)
      BY <2>5, <2>7, <2>8 DEF Begun, Awaits
    <2>10. e.c.at = "running" => Completed(e.c)
      <3> SUFFICES ASSUME e.c.at = "running" PROVE Completed(e.c)
        OBVIOUS
      <3>1. ~GooseMatters(step) /\ (step \in {"AssetID", "NetworkAssetID"} => e.c.assetID # Unset)
        BY <2>5 DEF Begun, GooseMatters, IsGoose
      <3>2. \A k \in 1..e.c.begun : k \in 1..e.c.begun - 1 \/ k = e.c.begun
        BY <2>7
      <3>3. e.c.program[e.c.begun] = step
        BY <2>7 DEF Bearing
      <3>4. AssetKnown(e.c, e.c.begun)
        BY <2>8, <3>1, <3>2, <3>3 DEF AssetKnown
      <3>5. QED
        BY <2>7, <3>1, <3>4 DEF Completed
    <2>11. a.o.url = api => Home(e)
      <3> SUFFICES ASSUME a.o.url = api PROVE Home(e)
        OBVIOUS
      <3>1. m.o.url = api
        BY <1>2, <2>1, <2>2 DEF Became, Home, Describing
      <3>2. Directed(m, e, step)
        BY <2>5 DEF Begun
      <3>3. CASE e.o.url = m.o.url /\ e.c.request = NoRequest
        <4>1. e.c.request.url # "X"
          BY <3>3, NoUrl
        <4>2. QED
          BY <3>1, <3>3, <4>1 DEF Home, Describing
      <3>4. CASE e.o.url = m.o.url /\ e.c.request.url \in {m.o.url, "C/rpc"}
        BY <3>1, <3>4 DEF Home, Describing
      <3>5. CASE /\ api = "C" /\ step \in {"AssetID", "Describe"}
                 /\ e.c.at = "awaiting" /\ e.c.request.url = "X"
                 /\ e.c.saved = m.o.url
        <4>1. Describing(e.c)
          BY <2>7, <3>5 DEF Describing
        <4>2. QED
          BY <3>1, <3>5, <4>1 DEF Home
      <3>6. QED
        BY <3>2, <3>3, <3>4, <3>5 DEF Directed
    <2>12. e.c.at \in {"running", "awaiting", "failed"} /\ (e.c.at = "running" => e.c.request = NoRequest)
      BY <2>5 DEF Begun
    <2>13. e.c.begun = a.c.begun + (n + 1)
      <3>1. \A x \in Nat : x + n + 1 = x + (n + 1)
        OBVIOUS
      <3>2. QED
        BY <2>1, <2>6, <3>1
    <2>14. Walked(a, n + 1, e)
      BY <2>6, <2>9, <2>10, <2>11, <2>12, <2>13 DEF Walked, Became
    <2>15. QED
      BY <2>3, <2>14
  <1>3. QED
    BY <1>1, <1>2

\* A run ends: the call waits, has failed or has returned.
RunEnds(a, b) ==
    /\ Became(a, b)
    /\ b.c.at \in {"awaiting", "failed", "returned"}
    /\ b.c.at = "returned" =>
           b.c.begun = Len(b.c.program) /\ b.c.request = NoRequest /\ Completed(b.c)

\* What is left of a program after b steps.
LEMMA RestOf ==
    ASSUME NEW p \in Seq(Steps), NEW b \in 0..Len(p)
    PROVE  LET rest == SubSeq(p, b + 1, Len(p))
           IN /\ DOMAIN rest = 1..Len(p) - b
              /\ \A k \in 1..Len(p) - b : rest[k] = p[b + k]
  <1> DEFINE first == b + 1
             last == Len(p)
             rest == SubSeq(p, first, last)
  <1>1. b \in Nat /\ last \in Nat /\ first \in Int /\ last \in Int /\ b <= last /\ first = b + 1
    BY LenProperties
  <1>2. \A i \in first..last : p[i] \in Steps
    <2>1. \A i \in 1..last : p[i] \in Steps
      BY ElementOfSeq
    <2>2. first..last \subseteq 1..last
      BY <1>1
    <2>3. QED
      BY <2>1, <2>2
  <1> HIDE DEF first, last
  <1>3. /\ rest \in Seq(Steps)
        /\ Len(rest) = (IF first <= last THEN last - first + 1 ELSE 0)
        /\ \A i \in 1..last - first + 1 : rest[i] = p[first + i - 1]
    BY <1>1, <1>2, SubSeqProperties
  <1> HIDE DEF rest
  <1>4. Len(rest) = last - b /\ last - first + 1 = last - b
    BY <1>1, <1>3
  <1>5. DOMAIN rest = 1..last - b
    BY <1>3, <1>4, LenProperties
  <1>6. ASSUME NEW k \in 1..last - b PROVE rest[k] = p[b + k]
    <2>1. first + k - 1 = b + k
      BY <1>1
    <2>2. QED
      BY <1>3, <1>4, <2>1
  <1>7. QED
    BY <1>5, <1>6 DEF rest, first, last

LEMMA RunWalks ==
    ASSUME World, NEW a, Runs(a)
    PROVE  LET p == a.c.program
           IN Walked(a, Len(p) - a.c.begun, Folded(a, SubSeq(p, a.c.begun + 1, Len(p))))
  <1> DEFINE p == a.c.program
             b == a.c.begun
             rest == SubSeq(p, b + 1, Len(p))
             m == Len(p) - b
  <1>1. p \in Seq(Steps) /\ Len(p) \in Nat /\ b \in 0..Len(p) /\ b \in Nat /\ m \in Nat
    BY ProgramFacts DEF Runs, Completed
  <1>2. m <= Len(p) - b /\ b + m = Len(p)
    BY <1>1
  <1>3. DOMAIN rest = 1..m /\ \A k \in 1..m : rest[k] = p[b + k]
    <2> HIDE DEF p, b
    <2>1. QED
      BY <1>1, RestOf
  <1> HIDE DEF rest, m
  <1>4. PICK g : Traced(a, rest, m, g)
    BY <1>1, <1>3, FoldSteps
  <1>5. /\ g[0] = a
        /\ \A k \in 1..m : g[k] = Advance(g[k - 1], rest[k])
        /\ Folded(a, rest) = g[m]
    BY <1>4 DEF Traced
  <1> DEFINE G == {n \in Nat : n <= m => Walked(a, n, g[n])}
  <1>6. 0 \in G
    BY <1>5, WalkedNothing
  <1>7. ASSUME NEW n \in Nat, n \in G PROVE n + 1 \in G
    <2> SUFFICES ASSUME n + 1 <= m PROVE Walked(a, n + 1, g[n + 1])
      OBVIOUS
    <2>1. Walked(a, n, g[n])
      BY <1>1, <1>7
    <2>2. n + 1 \in 1..m /\ (n + 1) - 1 = n
      BY <1>1
    <2>3. g[n + 1] = Advance(g[n], rest[n + 1])
      BY <1>5, <2>2
    <2>4. b + (n + 1) = b + n + 1 /\ b + n + 1 \in 1..Len(p)
      <3> HIDE DEF b, p
      <3>1. QED
        BY <1>1, <1>2, <2>2
    <2>5. rest[n + 1] = p[b + n + 1]
      BY <1>3, <2>2, <2>4
    <2>6. QED
      BY <2>1, <2>3, <2>4, <2>5, WalkedOn
  <1>8. Nat \subseteq G
    <2> HIDE DEF G
    <2>1. QED
      BY <1>6, <1>7, NumberInduction
  <1>9. Walked(a, m, g[m])
    BY <1>1, <1>8
  <1>10. Walked(a, m, Folded(a, rest))
    BY <1>5, <1>9, Zenon
  <1>11. QED
    BY <1>10 DEF m, rest

LEMMA RunFits ==
    ASSUME World, NEW a, Runs(a)
    PROVE  RunEnds(a, Run(a))
  <1> DEFINE p == a.c.program
             rest == SubSeq(p, a.c.begun + 1, Len(p))
             m == Len(p) - a.c.begun
             end == Folded(a, rest)
  <1>1. Len(p) \in Nat /\ a.c.begun \in 0..Len(p) /\ a.c.begun + m = Len(p)
    BY ProgramFacts DEF Runs, Completed
  <1>7. Walked(a, m, end)
    BY RunWalks
  <1>8. Run(a) = IF end.c.at = "running" THEN [end EXCEPT !.c.at = "returned"] ELSE end
    <2>1. {IF b.c.at = "running" THEN [b EXCEPT !.c.at = "returned"] ELSE b : b \in {end}}
              = {IF end.c.at = "running" THEN [end EXCEPT !.c.at = "returned"] ELSE end}
      OBVIOUS
    <2>2. QED
      BY <2>1, OnlyOne DEF Run, Folded
  <1> HIDE DEF end
  <1>9. CASE end.c.at # "running"
    BY <1>7, <1>8, <1>9 DEF Walked, RunEnds
  <1>10. CASE end.c.at = "running"
    <2> DEFINE r == [end EXCEPT !.c.at = "returned"]
    <2>1. Fits(end)
      BY <1>7 DEF Walked, Became
    <2>2. /\ Stays(end, r) /\ r.o = end.o /\ r.c.at = "returned" /\ r.c.request = end.c.request
          /\ \A q \in Registers : r.c[q] = end.c[q]
      BY <2>1, MovedTo
    <2>3. Run(a) = r
      BY <1>8, <1>10
    <2> HIDE DEF r
    <2>4. /\ r.c.begun = end.c.begun /\ end.c.begun = Len(p) /\ end.c.program = p /\ r.c.program = p
          /\ r.c.flaw = end.c.flaw /\ r.c.request = NoRequest /\ Completed(end.c)
      BY <1>1, <1>7, <1>10, <2>2 DEF Walked, Became, Stays, Carries, Alike
    <2>5. r.c.assetID = end.c.assetID /\ r.c.checked = end.c.checked /\ r.c.creationFee = end.c.creationFee
      BY <2>2 DEF Registers
    <2>6. Completed(r.c)
      BY <2>4, <2>5 DEF Completed, AssetKnown, Bearing, PassesGooseCheck, OutTotal, OfChecked
    <2>7. a.o.url = api => Home(r)
      BY <1>7, <1>10, <2>2, <2>4 DEF Walked, Became, Home, Describing
    <2>8. Became(a, r)
      BY <1>7, <2>2, <2>7 DEF Walked, Became, Stays, Carries, Alike
    <2>9. RunEnds(a, r)
      BY <2>2, <2>4, <2>6, <2>8 DEF RunEnds
    <2>10. QED
      BY <2>3, <2>9
  <1>11. QED
    BY <1>9, <1>10
-----------------------------------------------------------------------------
\* The answer.

\* What an answer makes of the call that awaits it, and of its object.
Done(a, b) ==
    /\ Carries(a, b)
    /\ b.c.at \in {"awaiting", "failed"}
    /\ b.c.at = "awaiting" => Completed(b.c)
    /\ b.o.url = IF Describing(a.c) THEN a.c.saved ELSE a.o.url

\* A call that waits for the end of the step.
Waits(a, step) ==
    /\ Fits(a) /\ a.c.at = "awaiting" /\ Awaits(a.c)
    /\ a.c.program \in ProgramsOf[api]
    /\ step = Bearing(a.c)

\* The step is over when it has what later ones rely on.
LEMMA StepOver ==
    ASSUME World, NEW a, NEW step, Waits(a, step), NEW b, Carries(a, b),
           a.c.assetID # Unset => b.c.assetID # Unset,
           step = "AssetID" => b.c.assetID # Unset,
           GooseMatters(step) => b.c.checked # Unset /\ PassesGooseCheck(b.c)
    PROVE  Completed(b.c)
  <1>1. /\ a.c.begun \in 1..Len(a.c.program) /\ Len(a.c.program) \in Nat
        /\ AssetKnown(a.c, a.c.begun - 1) /\ a.c.program[a.c.begun] = step
        /\ step # "NetworkAssetID"
        /\ b.c.begun = a.c.begun /\ b.c.program = a.c.program
    BY ProgramFacts DEF Waits, Awaits, Bearing, Carries, Alike
  <1>2. \A k \in 1..a.c.begun : k \in 1..a.c.begun - 1 \/ k = a.c.begun
    BY <1>1
  <1>3. AssetKnown(b.c, b.c.begun)
    BY <1>1, <1>2 DEF AssetKnown
  <1>4. Bearing(b.c) = step /\ b.c.begun \in 0..Len(b.c.program)
    BY <1>1 DEF Bearing
  <1>5. QED
    BY <1>3, <1>4 DEF Completed

\* Neither the asset nor what is checked is at stake.
LEMMA PlainDone ==
    ASSUME World, NEW a, NEW step, Waits(a, step), step # "Describe", Plain(step),
           NEW b, Carries(a, b), b.o.url = a.o.url, b.c.at = "awaiting", b.c.assetID = a.c.assetID
    PROVE  Done(a, b)
  <1>1. Completed(b.c)
    BY StepOver DEF Plain, GooseMatters, IsGoose
  <1>2. ~Describing(a.c)
    BY DEF Waits, Describing, Plain
  <1>3. QED
    BY <1>1, <1>2 DEF Done

\* Of the network of now, if the call is steady.
LEMMA AnswerKnown ==
    ASSUME World, NEW a, Fits(a)
    PROVE  /\ a.c.request.node \in Known
           /\ a.c.steady => a.c.request.node \in {Unset, node}
  BY DEF Fits, Pair, CallRecord, RequestRecord, Current

\* The URL goes back where it came from.
LEMMA PutsBack ==
    ASSUME World, NEW a, NEW step \in {"AssetID", "Describe"}, Waits(a, step), a.c.request # NoRequest
    PROVE  LET b == PutBack(a)
           IN /\ Carries(a, b) /\ b.c = a.c
              /\ b.o.url = (IF Describing(a.c) THEN a.c.saved ELSE a.o.url)
              /\ \A f \in Fields : b.o[f] = a.o[f]
  <1>0. Fits(a) /\ a.c.at = "awaiting" /\ Bearing(a.c) \in {"AssetID", "Describe"}
    BY DEF Waits
  <1>1. CASE ~Describing(a.c)
    <2>1. PutBack(a) = a
      BY <1>0, <1>1 DEF PutBack, Describing
    <2>2. QED
      BY <1>0, <1>1, <2>1 DEF Carries, Alike
  <1>2. CASE Describing(a.c)
    <2> DEFINE p == [a.o EXCEPT !.url = a.c.saved]
               b == [a EXCEPT !.o = p]
    <2>1. PutBack(a) = b
      BY <1>2 DEF PutBack, Describing
    <2>2. a \in Pair /\ a.o \in ApiObject /\ a.c.saved \in Urls
      BY <1>0 DEF Fits, Pair, CallRecord
    <2>3. /\ p \in ApiObject /\ p.made = a.o.made /\ p.url = a.c.saved
          /\ \A f \in Fields : p[f] = a.o[f]
      BY <2>2 DEF ApiObject, Fields
    <2> HIDE DEF p
    <2>4. b.c = a.c /\ b.o = p /\ b \in Pair
      BY <2>2, <2>3 DEF Pair
    <2> HIDE DEF b
    <2>5. Fits(b)
      BY <1>0, <2>3, <2>4 DEF Fits, Pure
    <2>6. QED
      BY <1>2, <2>1, <2>3, <2>4, <2>5 DEF Carries, Alike
  <1>3. QED
    BY <1>1, <1>2

\* UTXOs, or the state that the builder has asked for.
LEMMA UtxosDone ==
    ASSUME World, NEW a, NEW step \in {"Utxos", "Build"}, Waits(a, step), a.c.request # NoRequest
    PROVE  Done(a, Complete(a, step))
  <1> DEFINE b == WithRegister(a, "utxos", a.c.request.node)
  <1>1. Complete(a, step) = b
    BY DEF Complete, Answered, WithRegister, IsGoose
  <1>2. Fits(a) /\ Plain(step) /\ step # "Describe" /\ a.c.at = "awaiting"
    BY DEF Waits, Plain, IsGoose
  <1>3. /\ Stays(a, b) /\ b.c.at = a.c.at
        /\ \A q \in Registers : b.c[q] = IF q = "utxos" THEN a.c.request.node ELSE a.c[q]
    BY <1>2, AnswerKnown, Registered DEF Registers
  <1> HIDE DEF b
  <1>4. b.c.assetID = a.c.assetID
    BY <1>3 DEF Registers
  <1>5. Done(a, b)
    BY <1>2, <1>3, <1>4, PlainDone DEF Stays
  <1>6. QED
    BY <1>1, <1>5

LEMMA StakeDone ==
    ASSUME World, NEW a, Waits(a, "MinStake"), a.c.request # NoRequest
    PROVE  Done(a, Complete(a, "MinStake"))
  <1> DEFINE answer == a.c.request.node
             m == WithField(a, "minStake", answer)
             b == WithRegister(m, "minStake", answer)
  <1>1. Complete(a, "MinStake") = b
    BY DEF Complete, Answered, WithRegister, WithField, IsGoose
  <1>2. Fits(a) /\ Plain("MinStake") /\ a.c.at = "awaiting"
    BY DEF Waits, Plain, IsGoose
  <1>3. answer \in Known /\ (a.c.steady => answer \in {Unset, node})
    BY <1>2, AnswerKnown
  <1> HIDE DEF answer
  <1>4. Stays(a, m) /\ m.c = a.c
    BY <1>2, <1>3, Remembered DEF Fields
  <1> HIDE DEF m
  <1>5. Fits(m)
    BY <1>4 DEF Stays, Carries
  <1>6. /\ Stays(m, b) /\ b.c.at = m.c.at
        /\ \A q \in Registers : b.c[q] = IF q = "minStake" THEN answer ELSE m.c[q]
    BY <1>3, <1>4, <1>5, Registered DEF Registers
  <1> HIDE DEF b
  <1>7. b.c.assetID = a.c.assetID /\ Stays(a, b)
    BY <1>4, <1>6, StaysOn DEF Registers
  <1>8. Done(a, b)
    BY <1>2, <1>4, <1>6, <1>7, PlainDone DEF Stays
  <1>9. QED
    BY <1>1, <1>8

LEMMA DescriptionDone ==
    ASSUME World, NEW a, Waits(a, "Describe")
    PROVE  Done(a, Complete(a, "Describe"))
  <1> DEFINE answer == a.c.request.node
             m == PutBack(a)
             b == WithRegister(m, "assetID", answer)
  <1>1. Complete(a, "Describe") = b
    BY DEF Complete, WithRegister, IsGoose
  <1>2. Fits(a) /\ a.c.at = "awaiting" /\ a.c.request # NoRequest
    BY DEF Waits, Awaits
  <1>3. answer \in Known /\ (a.c.steady => answer \in {Unset, node}) /\ answer # Unset
    BY <1>2, AnswerKnown DEF Waits, Awaits
  <1> HIDE DEF answer
  <1>4. /\ Carries(a, m) /\ m.c = a.c
        /\ m.o.url = (IF Describing(a.c) THEN a.c.saved ELSE a.o.url)
    BY <1>2, PutsBack
  <1> HIDE DEF m
  <1>5. Fits(m)
    BY <1>4 DEF Carries
  <1>6. /\ Stays(m, b) /\ b.c.at = m.c.at
        /\ \A q \in Registers : b.c[q] = IF q = "assetID" THEN answer ELSE m.c[q]
    BY <1>3, <1>4, <1>5, Registered DEF Registers
  <1> HIDE DEF b
  <1>7. b.c.assetID # Unset /\ Carries(a, b)
    BY <1>3, <1>4, <1>6 DEF Registers, Stays, Carries, Alike
  <1>8. Completed(b.c)
    BY <1>7, StepOver DEF GooseMatters
  <1>9. Done(a, b)
    BY <1>2, <1>4, <1>6, <1>7, <1>8 DEF Done, Stays
  <1>10. QED
    BY <1>1, <1>9

LEMMA AssetDone ==
    ASSUME World, NEW a, Waits(a, "AssetID")
    PROVE  Done(a, Complete(a, "AssetID"))
  <1> DEFINE answer == a.c.request.node
             m == PutBack(a)
             f == WithField(m, "asset", answer)
             b == WithRegister(f, "assetID", answer)
  <1>1. Fits(a) /\ a.c.at = "awaiting"
    BY DEF Waits
  <1>2. CASE a.c.request = NoRequest
    <2>1. Complete(a, "AssetID") = a
      BY <1>2 DEF Complete, Answered, IsGoose
    <2>2. Carries(a, a) /\ a.c.assetID # Unset /\ ~Describing(a.c)
      BY <1>1, <1>2, NoUrl DEF Carries, Alike, Waits, Awaits, Describing
    <2>3. Completed(a.c)
      BY <2>2, StepOver DEF GooseMatters
    <2>4. QED
      BY <1>1, <2>1, <2>2, <2>3 DEF Done
  <1>3. CASE a.c.request # NoRequest
    <2>1. Complete(a, "AssetID") = b
      BY <1>3 DEF Complete, Answered, WithRegister, WithField, IsGoose
    <2>2. answer \in Known /\ (a.c.steady => answer \in {Unset, node}) /\ answer # Unset
      BY <1>1, <1>3, AnswerKnown DEF Waits, Awaits
    <2> HIDE DEF answer
    <2>3. /\ Carries(a, m) /\ m.c = a.c
          /\ m.o.url = (IF Describing(a.c) THEN a.c.saved ELSE a.o.url)
      BY <1>3, PutsBack
    <2> HIDE DEF m
    <2>4. Fits(m)
      BY <2>3 DEF Carries
    <2>5. Stays(m, f) /\ f.c = m.c
      BY <2>2, <2>3, <2>4, Remembered DEF Fields
    <2> HIDE DEF f
    <2>6. Fits(f)
      BY <2>5 DEF Stays, Carries
    <2>7. /\ Stays(f, b) /\ b.c.at = f.c.at
          /\ \A q \in Registers : b.c[q] = IF q = "assetID" THEN answer ELSE f.c[q]
      BY <2>2, <2>3, <2>5, <2>6, Registered DEF Registers
    <2> HIDE DEF b
    <2>8. Stays(m, b)
      BY <2>5, <2>7, StaysOn
    <2>9. b.c.assetID # Unset /\ Carries(a, b)
      BY <2>2, <2>3, <2>7, <2>8 DEF Registers, Stays, Carries, Alike
    <2>10. Completed(b.c)
      BY <2>9, StepOver DEF GooseMatters
    <2>11. Done(a, b)
      BY <1>1, <2>3, <2>5, <2>7, <2>8, <2>9, <2>10 DEF Done, Stays
    <2>12. QED
      BY <2>1, <2>11
  <1>4. QED
    BY <1>2, <1>3

LEMMA GooseDone ==
    ASSUME World, NEW a, NEW step \in Steps, Waits(a, step), IsGoose(step)
    PROVE  Done(a, Complete(a, step))
  <1> DEFINE answer == a.c.request.node
             f == WithField(a, "asset", answer)
             m == IF a.c.request # NoRequest THEN WithRegister(f, "checked", answer) ELSE a
             b == CheckGoose(m, step)
  <1>1. Fits(a) /\ a.c.at = "awaiting" /\ ~Describing(a.c)
    BY DEF Waits, Describing, IsGoose
  <1>2. Complete(a, step) = b
    BY DEF Complete, Answered, WithRegister, WithField, IsGoose
  <1>3. /\ Stays(a, m) /\ m.c.at = "awaiting" /\ m.c.checked # Unset
        /\ m.c.assetID = a.c.assetID
    <2>1. CASE a.c.request = NoRequest
      BY <1>1, <2>1 DEF Stays, Carries, Alike, Waits, Awaits
    <2>2. CASE a.c.request # NoRequest
      <3> DEFINE r == WithRegister(f, "checked", answer)
      <3>1. answer \in Known /\ (a.c.steady => answer \in {Unset, node}) /\ answer # Unset
        BY <1>1, <2>2, AnswerKnown DEF Waits, Awaits
      <3> HIDE DEF answer
      <3>2. Stays(a, f) /\ f.c = a.c
        BY <1>1, <3>1, Remembered DEF Fields
      <3> HIDE DEF f
      <3>3. Fits(f)
        BY <3>2 DEF Stays, Carries
      <3>4. /\ Stays(f, r) /\ r.c.at = f.c.at
            /\ \A q \in Registers : r.c[q] = IF q = "checked" THEN answer ELSE f.c[q]
        BY <3>1, <3>2, <3>3, Registered DEF Registers
      <3>5. m = r
        BY <2>2
      <3> HIDE DEF m, r
      <3>6. Stays(a, r)
        BY <3>2, <3>4, StaysOn
      <3>7. QED
        BY <1>1, <3>1, <3>2, <3>4, <3>5, <3>6 DEF Registers
    <2>3. QED
      BY <2>1, <2>2
  <1> HIDE DEF m
  <1>4. CASE step # "GooseIgnored" /\ ~PassesGooseCheck(m.c)
    <2>1. b = Throw(m)
      BY <1>4 DEF CheckGoose
    <2>2. Stays(m, Throw(m)) /\ Throw(m).c.at = "failed"
      BY <1>3, Throws DEF Stays, Carries
    <2>3. Stays(a, b) /\ b.c.at = "failed"
      BY <1>3, <2>1, <2>2, StaysOn
    <2> HIDE DEF b
    <2>4. Done(a, b)
      BY <1>1, <2>3 DEF Done, Stays
    <2>5. QED
      BY <1>2, <2>4
  <1>5. CASE ~(step # "GooseIgnored" /\ ~PassesGooseCheck(m.c))
    <2>1. b = m
      BY <1>5 DEF CheckGoose
    <2>2. Carries(a, m) /\ (GooseMatters(step) => PassesGooseCheck(m.c))
      BY <1>3, <1>5 DEF Stays, GooseMatters
    <2>3. Completed(m.c)
      BY <1>3, <2>2, StepOver DEF IsGoose
    <2>4. Done(a, m)
      BY <1>1, <1>3, <2>2, <2>3 DEF Done, Stays
    <2>5. QED
      BY <1>2, <2>1, <2>4
  <1>6. QED
    BY <1>4, <1>5

LEMMA CompleteStep ==
    ASSUME World, NEW a, NEW step, Waits(a, step)
    PROVE  Done(a, Complete(a, step))
  <1>1. step \in Steps
    BY ProgramFacts DEF Waits, Awaits, Bearing
  <1>2. CASE IsGoose(step)
    BY <1>1, <1>2, GooseDone
  <1>3. CASE step = "AssetID"
    BY <1>3, AssetDone
  <1>4. CASE step = "Describe"
    BY <1>4, DescriptionDone
  <1>5. CASE step \in {"Utxos", "Build"} /\ a.c.request # NoRequest
    BY <1>5, UtxosDone
  <1>6. CASE step = "MinStake" /\ a.c.request # NoRequest
    BY <1>6, StakeDone
  <1>7. CASE /\ ~IsGoose(step) /\ step \notin {"AssetID", "Describe"}
             /\ ~(step \in {"Utxos", "Build", "MinStake"} /\ a.c.request # NoRequest)
    <2>1. Complete(a, step) = a
      BY <1>7 DEF Complete, Answered
    <2>2. Plain(step) /\ Carries(a, a) /\ a.c.at = "awaiting"
      BY <1>7 DEF Plain, Carries, Alike, Waits, Awaits
    <2>3. Done(a, a)
      BY <1>7, <2>2, PlainDone
    <2>4. QED
      BY <2>1, <2>3
  <1>8. QED
    BY <1>2, <1>3, <1>4, <1>5, <1>6, <1>7

-----------------------------------------------------------------------------
\* A call and its object at the end of a step of it.

\* What a started at url, its answer taken, ends in.
Ended(a, url, e) ==
    /\ Fits(e)
    /\ e.c.program = a.c.program /\ e.c.object = a.c.object
    /\ e.c.flaw = a.c.flaw /\ e.c.steady = a.c.steady
    /\ e.o.made = a.o.made
    /\ e.c.at \in {"awaiting", "failed", "returned"}
    /\ e.c.at = "awaiting" => Awaits(e.c)
    /\ e.c.at = "returned" => e.c.begun = Len(e.c.program) /\ Completed(e.c)
    /\ url = api => Home(e)

LEMMA RunEnded ==
    ASSUME World, NEW a, Runs(a)
    PROVE  Ended(a, a.o.url, Run(a))
  BY RunFits DEF RunEnds, Became, Ended

LEMMA ContinueEnded ==
    ASSUME World, NEW a, NEW step, Waits(a, step), NEW b, Done(a, b)
    PROVE  Ended(a, IF Describing(a.c) THEN a.c.saved ELSE a.o.url, Continue(b))
  <1>1. CASE b.c.at = "failed"
    <2>1. Continue(b) = b
      BY <1>1 DEF Continue
    <2>2. Home(b) \/ b.o.url # api
      BY <1>1 DEF Home, Describing
    <2>3. QED
      BY <1>1, <2>1, <2>2 DEF Done, Carries, Alike, Ended
  <1>2. CASE b.c.at # "failed"
    <2> DEFINE m == [b EXCEPT !.c.at = "running"]
               d == [m.c EXCEPT !.request = NoRequest]
               r == [m EXCEPT !.c = d]
    <2>1. Fits(b) /\ Completed(b.c) /\ b.c.program \in ProgramsOf[api]
      BY <1>2 DEF Done, Carries, Alike, Waits
    <2>2. /\ Stays(b, m) /\ m.o = b.o /\ m.c.at = "running"
          /\ \A q \in Registers : m.c[q] = b.c[q]
      BY <2>1, MovedTo
    <2>3. Continue(b) = Run(r)
      <3>1. r = [b EXCEPT !.c.at = "running", !.c.request = NoRequest]
        OBVIOUS
      <3> HIDE DEF r
      <3>2. {Run(x) : x \in {r}} = {Run(r)}
        OBVIOUS
      <3>3. QED
        BY <1>2, <3>1, <3>2, OnlyOne DEF Continue
    <2> HIDE DEF m
    <2>4. Fits(m) /\ m.c \in CallRecord
      BY <2>2 DEF Stays, Carries, Fits, Pair
    <2>5. NoRequest \in RequestRecord /\ NoRequest.node = Unset
      BY DEF NoRequest, RequestRecord, Known
    <2>6. /\ d \in CallRecord /\ Alike(m.c, d) /\ d.at = m.c.at /\ d.request = NoRequest
          /\ d.saved = m.c.saved
          /\ \A q \in Registers : d[q] = m.c[q]
      BY <2>4, <2>5, Asked
    <2> HIDE DEF d
    <2>7. m.c.steady => Current(d)
      BY <2>4, <2>5, <2>6 DEF Fits, Current
    <2>8. r.c = d /\ r.o = m.o /\ Stays(m, r)
      BY <2>4, <2>6, <2>7, NewCall
    <2> HIDE DEF r
    <2>9. Stays(b, r) /\ Ready(r) /\ r.o = b.o
      BY <2>2, <2>6, <2>8, StaysOn DEF Ready, Stays, Carries
    <2>10. /\ r.c.assetID = b.c.assetID /\ r.c.checked = b.c.checked
           /\ r.c.creationFee = b.c.creationFee
      BY <2>2, <2>6, <2>8 DEF Registers
    <2>11. Completed(r.c)
      BY <2>1, <2>9, <2>10
         DEF Stays, Carries, Alike, Completed, AssetKnown, Bearing, PassesGooseCheck, OutTotal, OfChecked
    <2>12. Runs(r)
      BY <2>1, <2>9, <2>11 DEF Runs, Stays, Carries, Alike
    <2>13. Ended(r, r.o.url, Run(r))
      BY <2>12, RunEnded
    <2>14. QED
      BY <2>3, <2>9, <2>13 DEF Ended, Done, Stays, Carries, Alike
  <1>3. QED
    BY <1>1, <1>2

\* Of a call that has failed, or was overtaken, nothing is left.
Overtaken(c) == c.at = "failed" \/ (c.at = "returned" /\ ~c.steady)

LEMMA IdleFacts ==
    /\ Idle \in CallRecord
    /\ Idle.request = NoRequest /\ Idle.begun = 0 /\ Idle.steady = FALSE /\ Idle.object = 1
    /\ \A r \in Registers : Idle[r] = Unset
  <1>1. NoRequest \in RequestRecord
    BY DEF NoRequest, RequestRecord, Known
  <1>2. Idle \in CallRecord
    BY <1>1 DEF Idle, CallRecord, Known, Flaw, Urls
  <1>3. Idle.request = NoRequest /\ Idle.begun = 0 /\ Idle.steady = FALSE /\ Idle.object = 1
    BY DEF Idle
  <1>4. /\ Idle.networkID = Unset /\ Idle.fee = Unset /\ Idle.assetID = Unset /\ Idle.minStake = Unset
        /\ Idle.utxos = Unset /\ Idle.creationFee = Unset /\ Idle.checked = Unset
    BY DEF Idle
  <1>5. \A r \in Registers : Idle[r] = Unset
    BY <1>4 DEF Registers
  <1>6. QED
    BY <1>2, <1>3, <1>5

\* A call that is made.
Made(i, program, o, flaw, steady) ==
    [i EXCEPT !.at = "running", !.program = program, !.object = o, !.flaw = flaw, !.steady = steady]

LEMMA MadeFacts ==
    ASSUME NEW i \in CallRecord, NEW program \in Programs, NEW o \in Nat, NEW flaw \in Flaw,
           NEW steady \in BOOLEAN
    PROVE  LET c == Made(i, program, o, flaw, steady)
           IN /\ c \in CallRecord /\ c.at = "running" /\ c.request = i.request /\ c.begun = i.begun
              /\ c.program = program /\ c.object = o /\ c.steady = steady
              /\ \A r \in Registers : c[r] = i[r]
  BY DEF Made, CallRecord, Registers

LEMMA SettledFacts ==
    ASSUME NEW c \in CallRecord
    PROVE  LET d == Settled(c)
           IN /\ d \in CallRecord
              /\ ~Overtaken(c) => d = c
              /\ Overtaken(c) => /\ d.at = c.at /\ ~d.steady /\ d.object = 1
                                 /\ d.request = NoRequest
              /\ Describing(d) <=> Describing(c)
  <1>1. CASE ~Overtaken(c)
    BY <1>1 DEF Settled, Overtaken
  <1>2. CASE Overtaken(c)
    <2> DEFINE d == [Idle EXCEPT !.at = c.at]
    <2>1. Settled(c) = d
      BY <1>2 DEF Settled, Overtaken
    <2>2. d \in CallRecord /\ d.at = c.at /\ d.steady = Idle.steady /\ d.object = Idle.object
          /\ d.request = Idle.request
      BY IdleFacts DEF CallRecord
    <2> HIDE DEF d
    <2>3. ~Describing(d) /\ ~Describing(c)
      BY <1>2, <2>2 DEF Describing, Overtaken
    <2>4. QED
      BY <1>2, <2>1, <2>2, <2>3, IdleFacts
  <1>3. QED
    BY <1>1, <1>2

\* The call of s, a with its object, ends its step in e; it started at url.
Moves(s, a, url, e) ==
    /\ s \in Slot
    /\ a.c.object \in 1..Len(objects) /\ a.o = objects[a.c.object]
    /\ a.c.program \in ProgramsOf[api]
    /\ a.c.steady => network = node /\ a.c.object = Len(objects)
    /\ network # Unset /\ a.c.object = Len(objects) => a.c.steady
    /\ Describing(calls[s]) => calls[s].object = a.c.object
    /\ Ended(a, url, e)
    /\ Proceed(s, e)
    /\ adrift' \in {adrift, adrift \cup {a.c.object}}
    /\ e.c.at = "failed" \/ Describing(e.c) \/ adrift' = adrift
    /\ a.c.object \notin adrift' =>
           /\ DescribingOn(a.c.object) \subseteq {s} => url = api
           /\ Describing(e.c) => DescribingOn(a.c.object) \subseteq {s}

\* What it leaves behind.
LEMMA MovedFacts ==
    ASSUME TypeOK, NEW s, NEW a, NEW url, NEW e, Moves(s, a, url, e)
    PROVE  /\ e.c \in CallRecord /\ e.o \in ApiObject
           /\ api' = api /\ node' = node /\ network' = network
           /\ calls' \in [Slot -> CallRecord] /\ calls'[s] = Settled(e.c)
           /\ \A t \in Slot : t # s => calls'[t] = calls[t]
           /\ objects' \in Seq(ApiObject) /\ Len(objects') = Len(objects) /\ objects' # <<>>
           /\ \A o \in 1..Len(objects) :
                  objects'[o] = IF o = a.c.object THEN e.o ELSE objects[o]
  <1>1. e.c \in CallRecord /\ e.o \in ApiObject /\ e.c.object = a.c.object
    BY DEF Moves, Ended, Fits, Pair
  <1>2. Settled(e.c) \in CallRecord
    BY <1>1, SettledFacts
  <1>3. /\ api' = api /\ node' = node /\ network' = network
        /\ calls' = [calls EXCEPT ![s] = Settled(e.c)]
        /\ objects' = [objects EXCEPT ![a.c.object] = e.o]
    BY <1>1 DEF Moves, Proceed
  <1>4. a.c.object \in 1..Len(objects) /\ s \in Slot
    BY DEF Moves
  <1>5. /\ calls' \in [Slot -> CallRecord] /\ calls'[s] = Settled(e.c)
        /\ \A t \in Slot : t # s => calls'[t] = calls[t]
    BY <1>2, <1>3, <1>4 DEF TypeOK
  <1>6. /\ objects' \in Seq(ApiObject) /\ Len(objects') = Len(objects)
        /\ \A o \in 1..Len(objects) :
               objects'[o] = IF o = a.c.object THEN e.o ELSE objects[o]
    BY <1>1, <1>3, <1>4, ExceptSeq DEF TypeOK
  <1>7. Len(objects) \in Nat
    BY LenProperties DEF TypeOK
  <1>8. objects' # <<>>
    BY <1>4, <1>6, <1>7, EmptySeq
  <1>9. QED
    BY <1>1, <1>3, <1>5, <1>6, <1>8

LEMMA MovedTypeOK ==
    ASSUME TypeOK, NEW s, NEW a, NEW url, NEW e, Moves(s, a, url, e)
    PROVE  TypeOK'
  BY MovedFacts DEF TypeOK

LEMMA MovedCalls ==
    ASSUME TypeOK, NEW s, NEW a, NEW url, NEW e, Moves(s, a, url, e),
           \A t \in Slot : CallFits(calls[t])
    PROVE  \A t \in Slot : CallFits(calls[t])'
  <1> SUFFICES ASSUME NEW t \in Slot PROVE CallFits(calls[t])'
    OBVIOUS
  <1>1. /\ api' = api /\ node' = node /\ network' = network /\ Len(objects') = Len(objects)
        /\ calls'[s] = Settled(e.c) /\ (t # s => calls'[t] = calls[t])
    BY MovedFacts
  <1>2. CASE t # s
    <2>1. calls'[t] = calls[t]
      BY <1>1, <1>2
    <2>2. CallFits(calls[t])
      OBVIOUS
    <2>3. QED
      BY <1>1, <2>1, <2>2 DEF CallFits, Current
  <1>3. CASE t = s
    <2> DEFINE c == Settled(e.c)
    <2>1. calls'[t] = c
      BY <1>1, <1>3
    <2>2. e.c \in CallRecord
      BY MovedFacts
    <2>3. /\ ~Overtaken(e.c) => c = e.c
          /\ Overtaken(e.c) => c.at = e.c.at /\ ~c.steady /\ c.object = 1
      BY <2>2, SettledFacts
    <2> HIDE DEF c
    <2>4. /\ e.c.object \in 1..Len(objects)
          /\ e.c.at \in {"awaiting", "failed", "returned"}
          /\ e.c.steady => network = node /\ e.c.object = Len(objects) /\ Current(e.c)
          /\ network # Unset /\ e.c.object = Len(objects) => e.c.steady
          /\ e.c.program \in ProgramsOf[api]
          /\ e.c.at = "awaiting" => Awaits(e.c)
          /\ e.c.at = "returned" => e.c.begun = Len(e.c.program) /\ Completed(e.c)
      BY DEF Moves, Ended, Fits
    <2>5. CASE Overtaken(e.c)
      <3>1. 1 \in 1..Len(objects)
        BY <2>4, LenProperties DEF TypeOK
      <3>2. QED
        BY <1>1, <2>1, <2>3, <2>4, <2>5, <3>1 DEF CallFits, Overtaken
    <2>6. CASE ~Overtaken(e.c)
      <3>1. calls'[t] = e.c
        BY <2>1, <2>3, <2>6
      <3>2. QED
        BY <1>1, <2>4, <2>6, <3>1 DEF CallFits, Current, Overtaken
    <2>7. QED
      BY <2>5, <2>6
  <1>4. QED
    BY <1>2, <1>3

LEMMA MovedNewest ==
    ASSUME TypeOK, NEW s, NEW a, NEW url, NEW e, Moves(s, a, url, e), NewestIsPure
    PROVE  NewestIsPure'
  <1>1. /\ node' = node /\ network' = network /\ Len(objects') = Len(objects)
        /\ \A o \in 1..Len(objects) :
               objects'[o] = IF o = a.c.object THEN e.o ELSE objects[o]
    BY MovedFacts
  <1>2. Len(objects) \in 1..Len(objects)
    BY LenProperties, EmptySeq DEF TypeOK
  <1>3. CASE a.c.object = Len(objects)
    <2>1. network # Unset => Pure(e.o)
      BY <1>3 DEF Moves, Ended, Fits
    <2>2. objects'[Len(objects')] = e.o
      BY <1>1, <1>2, <1>3
    <2>3. QED
      BY <1>1, <2>1, <2>2 DEF NewestIsPure, Pure
  <1>4. CASE a.c.object # Len(objects)
    <2>1. objects'[Len(objects')] = objects[Len(objects)]
      BY <1>1, <1>2, <1>4
    <2>2. QED
      BY <1>1, <2>1 DEF NewestIsPure, Pure
  <1>5. QED
    BY <1>3, <1>4

\* Who describes after it.
LEMMA MovedDescriptions ==
    ASSUME TypeOK, NEW s, NEW a, NEW url, NEW e, Moves(s, a, url, e),
           NEW o, NEW t \in Slot
    PROVE  t \in DescribingOn(o)' <=> IF t = s THEN Describing(e.c) /\ a.c.object = o
                                     ELSE t \in DescribingOn(o)
  <1>1. api' = api /\ calls'[s] = Settled(e.c) /\ (t # s => calls'[t] = calls[t]) /\ e.c \in CallRecord
    BY MovedFacts
  <1>2. t \in DescribingOn(o)' <=> Describing(calls'[t]) /\ calls'[t].object = o
    BY <1>1 DEF DescribingOn, Describing
  <1>3. CASE t # s
    BY <1>1, <1>2, <1>3 DEF DescribingOn
  <1>4. CASE t = s
    <2>1. calls'[t] = Settled(e.c)
      BY <1>1, <1>4
    <2>2. Describing(Settled(e.c)) <=> Describing(e.c)
      BY <1>1, SettledFacts
    <2>3. Describing(e.c) => Settled(e.c) = e.c
      BY <1>1, SettledFacts DEF Describing, Overtaken
    <2>4. e.c.object = a.c.object
      BY DEF Moves, Ended
    <2>5. QED
      BY <1>2, <1>4, <2>1, <2>2, <2>3, <2>4
  <1>5. QED
    BY <1>3, <1>4

LEMMA MovedUrls ==
    ASSUME TypeOK, NEW s, NEW a, NEW url, NEW e, Moves(s, a, url, e), UrlsFit
    PROVE  UrlsFit'
  <1> DEFINE o == a.c.object
  <1>1. /\ api' = api /\ Len(objects') = Len(objects)
        /\ \A t \in Slot : t # s => calls'[t] = calls[t]
        /\ \A q \in 1..Len(objects) : objects'[q] = IF q = o THEN e.o ELSE objects[q]
        /\ adrift \subseteq adrift' /\ s \in Slot
    <2>1. adrift \subseteq adrift' /\ s \in Slot
      BY DEF Moves
    <2>2. QED
      BY <2>1, MovedFacts
  <1>2. \A q, t : t \in DescribingOn(q)' <=>
                      t \in Slot /\ IF t = s THEN Describing(e.c) /\ o = q ELSE t \in DescribingOn(q)
    <2>1. \A q, t : t \in DescribingOn(q)' => t \in Slot
      BY DEF DescribingOn
    <2>2. QED
      BY <2>1, MovedDescriptions
  <1>3. \A q : DescribingOn(q) \subseteq Slot
    BY DEF DescribingOn
  <1> HIDE DEF o
  <1>4. ASSUME NEW q \in 1..Len(objects), q \notin adrift', q # o
        PROVE  /\ DescribingOn(q)' = {} => objects'[q].url = api
               /\ \A t \in DescribingOn(q)' : DescribingOn(q)' = {t} /\ calls'[t].saved = api
    <2>1. s \notin DescribingOn(q)
      BY <1>4 DEF Moves, DescribingOn, o
    <2>2. DescribingOn(q)' = DescribingOn(q)
      BY <1>2, <1>3, <1>4, <2>1
    <2>3. /\ DescribingOn(q) = {} => objects[q].url = api
          /\ \A t \in DescribingOn(q) : DescribingOn(q) = {t} /\ calls[t].saved = api
      BY <1>1, <1>4 DEF UrlsFit
    <2>4. QED
      BY <1>1, <1>3, <1>4, <2>1, <2>2, <2>3
  <1>5. ASSUME o \notin adrift'
        PROVE  /\ DescribingOn(o)' = {} => objects'[o].url = api
               /\ \A t \in DescribingOn(o)' : DescribingOn(o)' = {t} /\ calls'[t].saved = api
    <2>1. o \in 1..Len(objects) /\ objects'[o] = e.o
      BY <1>1 DEF Moves, o
    <2>2. \A t \in DescribingOn(o) : DescribingOn(o) = {t} /\ calls[t].saved = api
      BY <1>1, <1>5, <2>1 DEF UrlsFit
    <2>3. CASE DescribingOn(o) \subseteq {s}
      <3>1. Home(e)
        BY <1>5, <2>3 DEF Moves, Ended, o
      <3>2. CASE Describing(e.c)
        <4>1. DescribingOn(o)' = {s}
          BY <1>1, <1>2, <2>3, <3>2
        <4>2. calls'[s] = e.c
          BY <3>2, MovedFacts, SettledFacts DEF Describing, Overtaken
        <4>3. QED
          BY <3>1, <3>2, <4>1, <4>2 DEF Home
      <3>3. CASE ~Describing(e.c)
        <4>1. DescribingOn(o)' = {}
          BY <1>2, <2>3, <3>3
        <4>2. QED
          BY <2>1, <3>1, <3>3, <4>1 DEF Home
      <3>4. QED
        BY <3>2, <3>3
    <2>4. CASE ~(DescribingOn(o) \subseteq {s})
      <3>1. PICK t \in DescribingOn(o) : t # s
        BY <2>4
      <3>2. DescribingOn(o) = {t} /\ calls[t].saved = api /\ t \in Slot
        BY <1>3, <2>2, <3>1
      <3>3. ~Describing(e.c)
        BY <1>5, <2>4 DEF Moves, o
      <3>4. DescribingOn(o)' = {t}
        BY <1>2, <3>1, <3>2, <3>3
      <3>5. QED
        BY <1>1, <3>1, <3>2, <3>4
    <2>5. QED
      BY <2>3, <2>4
  <1>6. QED
    BY <1>1, <1>4, <1>5 DEF UrlsFit

\* Requests of a call go to the URL it started at.
LEMMA MovedHome ==
    ASSUME TypeOK, NEW s, NEW a, NEW url, NEW e, Moves(s, a, url, e), NEW c, c = calls'[s],
           c.request # NoRequest, ~Describing(calls[s])',
           c.object \notin adrift, DescribingOn(c.object) = {}
    PROVE  c.request.url \in {api, "C/rpc"}
  <1>1. calls'[s] = Settled(e.c) /\ e.c \in CallRecord /\ api' = api
    BY MovedFacts
  <1>2. c = e.c /\ e.c.at # "failed"
    BY <1>1, SettledFacts DEF Overtaken
  <1>3. ~Describing(e.c)
    BY <1>1, <1>2 DEF Describing
  <1>4. e.c.object = a.c.object /\ adrift' = adrift
    BY <1>2, <1>3 DEF Moves, Ended
  <1>5. url = api
    BY <1>2, <1>4 DEF Moves
  <1>6. QED
    BY <1>2, <1>3, <1>5 DEF Moves, Ended, Home

-----------------------------------------------------------------------------
\* Every step of a call is such a move.

Invariant(s) == TypeOK /\ (\A t \in Slot : CallFits(calls[t])) /\ NewestIsPure /\ UrlsFit /\ s \in Slot

LEMMA WorldOfTypes ==
    ASSUME TypeOK
    PROVE  World
  BY DEF TypeOK, World

\* The object whose descriptions are all of s, that s does not describe: its URL is its own.
LEMMA OwnUrl ==
    ASSUME UrlsFit, NEW s, NEW o \in 1..Len(objects), o \notin adrift,
           DescribingOn(o) \subseteq {s}, s \notin DescribingOn(o)
    PROVE  objects[o].url = api
  <1>1. DescribingOn(o) = {}
    OBVIOUS
  <1>2. QED
    BY <1>1 DEF UrlsFit

Closes(s, e, o) ==
    /\ OverlapNoted(s)
    /\ api' = api /\ calls'[s] = Settled(e.c)
    /\ e.c \in CallRecord /\ e.c.object = o

LEMMA OverlapFacts ==
    ASSUME NEW s, NEW e, NEW o, Closes(s, e, o)
    PROVE  /\ adrift' \in {adrift, adrift \cup {o}}
           /\ e.c.at = "failed" \/ Describing(e.c) \/ adrift' = adrift
           /\ o \notin adrift' => (Describing(e.c) => DescribingOn(o) \subseteq {s})
  <1>0. /\ OverlapNoted(s)
        /\ api' = api /\ calls'[s] = Settled(e.c)
        /\ e.c \in CallRecord /\ e.c.object = o
    BY DEF Closes
  <1>1. Describing(calls[s])' <=> Describing(e.c)
    <2>1. Describing(calls[s])' <=> Describing(calls'[s])
      BY <1>0 DEF Describing
    <2>2. Describing(Settled(e.c)) <=> Describing(e.c)
      BY <1>0, SettledFacts
    <2>3. QED
      BY <1>0, <2>1, <2>2
  <1>2. CASE ~Describing(e.c)
    <2>1. adrift' = adrift
      BY <1>0, <1>1, <1>2 DEF OverlapNoted
    <2>2. QED
      BY <1>2, <2>1
  <1>3. CASE Describing(e.c)
    <2>1. calls'[s] = e.c
      BY <1>0, <1>3, SettledFacts DEF Describing, Overtaken
    <2>2. adrift' = IF DescribingOn(o) \ {s} # {} THEN adrift \cup {o} ELSE adrift
      BY <1>0, <1>1, <1>3, <2>1 DEF OverlapNoted
    <2>3. QED
      BY <1>3, <2>2
  <1>4. QED
    BY <1>2, <1>3

LEMMA ResumeMoves ==
    ASSUME NEW s, Invariant(s), Resume(s)
    PROVE  \E a, url, e : Moves(s, a, url, e)
  <1> DEFINE a == [c |-> calls[s], o |-> objects[calls[s].object]]
             step == Bearing(calls[s])
             b == Complete(a, step)
             e == Continue(b)
             url == IF Describing(a.c) THEN a.c.saved ELSE a.o.url
             o == a.c.object
  <1>1. World /\ s \in Slot /\ UrlsFit
    BY WorldOfTypes DEF Invariant
  <1>2. /\ calls[s].at = "awaiting" /\ CallFits(calls[s]) /\ calls[s] \in CallRecord
        /\ calls[s].object \in 1..Len(objects)
        /\ objects[calls[s].object] \in ApiObject
    <2>1. calls[s].at = "awaiting" /\ CallFits(calls[s]) /\ calls[s] \in CallRecord
      BY DEF Resume, Invariant, TypeOK
    <2>2. calls[s].object \in 1..Len(objects)
      BY <2>1 DEF CallFits
    <2>3. QED
      BY <2>1, <2>2, ElementOfSeq DEF Invariant, TypeOK
  <1>3. Proceed(s, e) /\ OverlapNoted(s)
    BY DEF Resume
  <1>4. a.c = calls[s] /\ a.o = objects[calls[s].object] /\ a \in Pair
    BY <1>2 DEF Pair
  <1> HIDE DEF a
  <1>5. /\ a.c.steady => network = node /\ a.c.object = Len(objects) /\ Current(a.c)
        /\ network # Unset /\ a.c.object = Len(objects) => a.c.steady
        /\ a.c.program \in ProgramsOf[api] /\ Awaits(a.c)
    BY <1>2, <1>4 DEF CallFits
  <1>6. a.c.steady => Pure(a.o)
    <2>1. node # Unset
      BY <1>1, WorldFacts
    <2>2. QED
      BY <1>4, <1>5, <2>1 DEF Invariant, NewestIsPure
  <1>7. Waits(a, step)
    BY <1>2, <1>4, <1>5, <1>6 DEF Waits, Fits
  <1> HIDE DEF step
  <1>8. Done(a, b)
    BY <1>1, <1>7, CompleteStep
  <1> HIDE DEF b
  <1>9. Ended(a, url, e)
    BY <1>1, <1>7, <1>8, ContinueEnded
  <1> HIDE DEF e
  <1>10. /\ e.c \in CallRecord /\ e.c.object = o /\ api' = api /\ calls'[s] = Settled(e.c)
    BY <1>1, <1>3, <1>9 DEF Ended, Fits, Pair, Proceed, Invariant, TypeOK
  <1>11. /\ adrift' \in {adrift, adrift \cup {o}}
         /\ e.c.at = "failed" \/ Describing(e.c) \/ adrift' = adrift
         /\ o \notin adrift' => (Describing(e.c) => DescribingOn(o) \subseteq {s})
    <2>1. Closes(s, e, o)
      BY <1>3, <1>10 DEF Closes
    <2> HIDE DEF o
    <2>2. QED
      BY <2>1, OverlapFacts
  <1>12. ASSUME o \notin adrift, DescribingOn(o) \subseteq {s} PROVE url = api
    <2>1. CASE Describing(a.c)
      <3>1. s \in DescribingOn(o)
        BY <1>1, <1>4, <2>1 DEF DescribingOn
      <3>2. calls[s].saved = api
        BY <1>1, <1>2, <1>4, <1>12, <3>1 DEF UrlsFit
      <3>3. QED
        BY <1>4, <2>1, <3>2
    <2>2. CASE ~Describing(a.c)
      <3>1. s \notin DescribingOn(o)
        BY <1>4, <2>2 DEF DescribingOn
      <3>2. objects[o].url = api
        BY <1>1, <1>2, <1>4, <1>12, <3>1, OwnUrl
      <3>3. QED
        BY <1>4, <2>2, <3>2
    <2>3. QED
      BY <2>1, <2>2
  <1>13. o \notin adrift' => o \notin adrift
    BY <1>11
  <1> HIDE DEF url
  <1>14. Moves(s, a, url, e)
    BY <1>1, <1>2, <1>3, <1>4, <1>5, <1>9, <1>11, <1>12, <1>13 DEF Moves
  <1>15. QED
    BY <1>14

LEMMA CallMoves ==
    ASSUME NEW s, Invariant(s), Call(s)
    PROVE  \E a, url, e : Moves(s, a, url, e)
  <1>1. World /\ s \in Slot /\ UrlsFit /\ objects \in Seq(ApiObject) /\ Len(objects) \in Nat
    BY WorldOfTypes, LenProperties DEF Invariant, TypeOK
  <1>2. PICK program \in ProgramsOf[api], o \in 1..Len(objects), flaw \in FlawsOf[s] :
            LET c == [Idle EXCEPT !.at = "running", !.program = program, !.object = o, !.flaw = flaw,
                                  !.steady = (o = Len(objects) /\ network # Unset)]
            IN \E x \in {Run([o |-> objects[o], c |-> c])} : Proceed(s, x)
    <2>1. DOMAIN objects = 1..Len(objects)
      BY <1>1, LenProperties
    <2>2. QED
      BY <2>1 DEF Call
  <1> DEFINE steady == o = Len(objects) /\ network # Unset
             c == Made(Idle, program, o, flaw, steady)
             a == [o |-> objects[o], c |-> c]
             e == Run(a)
  <1>3. Proceed(s, e) /\ OverlapNoted(s)
    BY <1>2 DEF Call, Made
  <1>4. program \in Programs /\ flaw \in Flaw /\ o \in Nat /\ steady \in BOOLEAN
    BY <1>1, ProgramFacts DEF Flaw
  <1> HIDE DEF steady
  <1>5. /\ c \in CallRecord /\ c.at = "running" /\ c.request = NoRequest /\ c.begun = 0
        /\ c.program = program /\ c.object = o /\ c.steady = steady
        /\ \A r \in Registers : c[r] = Unset
    BY <1>4, IdleFacts, MadeFacts
  <1> HIDE DEF c
  <1>6. objects[o] \in ApiObject
    BY <1>1, ElementOfSeq
  <1>7. a.c = c /\ a.o = objects[o] /\ a \in Pair
    BY <1>5, <1>6 DEF Pair
  <1> HIDE DEF a
  <1>8. c.steady => network = node /\ o = Len(objects) /\ Pure(a.o)
    BY <1>1, <1>5, <1>7, WorldFacts DEF steady, Invariant, NewestIsPure
  <1>9. network # Unset /\ o = Len(objects) => c.steady
    BY <1>5 DEF steady
  <1>10. Current(c)
    <2>1. NoRequest.node = Unset
      BY DEF NoRequest
    <2>2. QED
      BY <1>5, <2>1 DEF Current
  <1>11. Ready(a)
    BY <1>5, <1>7, <1>8, <1>10 DEF Ready, Fits
  <1>12. Completed(a.c)
    <2>1. Len(program) \in Nat
      BY <1>1, ProgramFacts
    <2>2. QED
      BY <1>5, <1>7, <2>1 DEF Completed, AssetKnown
  <1>13. Ended(a, a.o.url, e)
    BY <1>1, <1>5, <1>7, <1>11, <1>12, RunEnded DEF Runs
  <1> HIDE DEF e
  <1>14. e.c \in CallRecord /\ e.c.object = o /\ api' = api /\ calls'[s] = Settled(e.c)
    BY <1>1, <1>3, <1>5, <1>7, <1>13 DEF Ended, Fits, Pair, Proceed, Invariant, TypeOK
  <1>15. /\ adrift' \in {adrift, adrift \cup {o}}
         /\ e.c.at = "failed" \/ Describing(e.c) \/ adrift' = adrift
         /\ o \notin adrift' => (Describing(e.c) => DescribingOn(o) \subseteq {s})
    <2>1. Closes(s, e, o)
      BY <1>3, <1>14 DEF Closes
    <2>2. QED
      BY <2>1, OverlapFacts
  <1>16. ~Describing(calls[s])
    BY DEF Call, Describing
  <1>17. ASSUME o \notin adrift, DescribingOn(o) \subseteq {s} PROVE a.o.url = api
    <2>1. s \notin DescribingOn(o)
      BY <1>16 DEF DescribingOn
    <2>2. QED
      BY <1>1, <1>7, <1>17, <2>1, OwnUrl
  <1>18. o \notin adrift' => o \notin adrift
    BY <1>15
  <1>19. Moves(s, a, a.o.url, e)
    BY <1>1, <1>3, <1>5, <1>7, <1>8, <1>9, <1>13, <1>15, <1>16, <1>17, <1>18 DEF Moves
  <1>20. QED
    BY <1>19

LEMMA FailureMoves ==
    ASSUME NEW s, Invariant(s), AnswerFails(s)
    PROVE  \E a, url, e : Moves(s, a, url, e)
  <1> DEFINE a == [c |-> calls[s], o |-> objects[calls[s].object]]
             e == Throw(a)
             o == a.c.object
  <1>1. World /\ s \in Slot /\ UrlsFit
    BY WorldOfTypes DEF Invariant
  <1>2. /\ calls[s].at = "awaiting" /\ CallFits(calls[s]) /\ calls[s] \in CallRecord
        /\ calls[s].object \in 1..Len(objects)
        /\ objects[calls[s].object] \in ApiObject
    <2>1. calls[s].at = "awaiting" /\ CallFits(calls[s]) /\ calls[s] \in CallRecord
      BY DEF AnswerFails, Invariant, TypeOK
    <2>2. calls[s].object \in 1..Len(objects)
      BY <2>1 DEF CallFits
    <2>3. QED
      BY <2>1, <2>2, ElementOfSeq DEF Invariant, TypeOK
  <1>3. /\ Proceed(s, e)
        /\ adrift' = IF Describing(a.c) THEN adrift \cup {o} ELSE adrift
    BY DEF AnswerFails
  <1>4. a.c = calls[s] /\ a.o = objects[calls[s].object] /\ a \in Pair
    BY <1>2 DEF Pair
  <1> HIDE DEF a
  <1>5. /\ a.c.steady => network = node /\ a.c.object = Len(objects) /\ Current(a.c)
        /\ network # Unset /\ a.c.object = Len(objects) => a.c.steady
        /\ a.c.program \in ProgramsOf[api]
    BY <1>2, <1>4 DEF CallFits
  <1>6. a.c.steady => Pure(a.o)
    <2>1. node # Unset
      BY <1>1, WorldFacts
    <2>2. QED
      BY <1>4, <1>5, <2>1 DEF Invariant, NewestIsPure
  <1>7. Fits(a)
    BY <1>4, <1>5, <1>6 DEF Fits
  <1>8. Stays(a, e) /\ e.c.at = "failed"
    BY <1>7, Throws
  <1> HIDE DEF e
  <1>9. Ended(a, a.o.url, e) /\ ~Describing(e.c)
    BY <1>8 DEF Ended, Stays, Carries, Alike, Home, Describing
  <1>10. ASSUME o \notin adrift', DescribingOn(o) \subseteq {s} PROVE a.o.url = api
    <2>1. ~Describing(a.c) /\ o \notin adrift
      BY <1>3, <1>10
    <2>2. s \notin DescribingOn(o)
      BY <1>4, <2>1 DEF DescribingOn
    <2>3. QED
      BY <1>1, <1>2, <1>4, <1>10, <2>1, <2>2, OwnUrl
  <1>11. Moves(s, a, a.o.url, e)
    BY <1>1, <1>2, <1>3, <1>4, <1>5, <1>8, <1>9, <1>10 DEF Moves
  <1>12. QED
    BY <1>11

LEMMA CallStepMoves ==
    ASSUME NEW s, Invariant(s), CallStep(s)
    PROVE  \E a, url, e : Moves(s, a, url, e)
  BY CallMoves, ResumeMoves, FailureMoves DEF CallStep

-----------------------------------------------------------------------------
\* The invariant.

LEMMA NewObjectFacts ==
    ASSUME World
    PROVE  /\ NewObject(node) \in ApiObject
           /\ NewObject(node).url = api
           /\ Pure(NewObject(node))
  <1> DEFINE n == NewObject(node)
  <1>1. n \in ApiObject
    BY DEF World, NewObject, ApiObject, Apis, Urls, Known
  <1>2. n.url = api /\ n.made = node
    BY DEF NewObject
  <1>3. /\ n.alias = Unset /\ n.asset = Unset /\ n.txFee = Unset
        /\ n.creationTxFee = Unset /\ n.mintTxFee = Unset /\ n.minStake = Unset
    BY DEF NewObject
  <1> HIDE DEF n
  <1>4. Pure(n)
    BY <1>2, <1>3 DEF Pure, Fields
  <1>5. QED
    BY <1>1, <1>2, <1>4 DEF n

LEMMA InitInv == Init => Inv
  <1> SUFFICES ASSUME Init PROVE Inv
    OBVIOUS
  <1>1. api \in Apis /\ node \in Network /\ network = node /\ objects = <<NewObject(node)>>
    BY DEF Init, ProgramsOf, Apis
  <1>2. World
    BY <1>1 DEF World
  <1>3. Len(objects) = 1 /\ objects[1] = NewObject(node) /\ objects \in Seq(ApiObject) /\ objects # <<>>
    BY <1>1, <1>2, NewObjectFacts
  <1>4. \A s \in Slot : calls[s] = Idle
    BY DEF Init
  <1>5. calls \in [Slot -> CallRecord]
    BY IdleFacts DEF Init
  <1>6. TypeOK
    BY <1>1, <1>3, <1>5 DEF TypeOK
  <1>7. Idle.at = "idle"
    BY DEF Idle
  <1>8. \A s \in Slot : CallFits(calls[s])
    BY <1>3, <1>4, <1>7, IdleFacts DEF CallFits
  <1>9. NewestIsPure
    BY <1>2, <1>3, NewObjectFacts DEF NewestIsPure
  <1>10. \A o : DescribingOn(o) = {}
    BY <1>4, <1>7 DEF DescribingOn, Describing
  <1>11. UrlsFit
    BY <1>2, <1>3, <1>10, NewObjectFacts DEF UrlsFit
  <1>12. QED
    BY <1>6, <1>8, <1>9, <1>11 DEF Inv

LEMMA CallStepKeeps ==
    ASSUME Inv, NEW s \in Slot, CallStep(s)
    PROVE  Inv'
  <1>1. Invariant(s)
    BY DEF Inv, Invariant
  <1>2. PICK a, url, e : Moves(s, a, url, e)
    BY <1>1, CallStepMoves
  <1>3. TypeOK'
    BY <1>2, MovedTypeOK DEF Inv
  <1>4. \A t \in Slot : CallFits(calls[t])'
    BY <1>2, MovedCalls DEF Inv
  <1>5. NewestIsPure'
    BY <1>2, MovedNewest DEF Inv
  <1>6. UrlsFit'
    BY <1>2, MovedUrls DEF Inv
  <1>7. QED
    BY <1>3, <1>4, <1>5, <1>6 DEF Inv

\* setNetwork overtakes the call c.
Overtake(c) == Settled([c EXCEPT !.steady = FALSE])

LEMMA OvertakenFacts ==
    ASSUME NEW c \in CallRecord
    PROVE  LET d == Overtake(c)
           IN /\ d \in CallRecord /\ ~d.steady
              /\ d.at = c.at
              /\ d.object \in {1, c.object}
              /\ d.request \in {NoRequest, c.request}
              /\ c.at = "awaiting" =>
                     /\ d.program = c.program /\ d.object = c.object /\ d.begun = c.begun
                     /\ d.request = c.request /\ d.saved = c.saved
                     /\ d.assetID = c.assetID /\ d.checked = c.checked
              /\ Describing(d) <=> Describing(c)
  <1> DEFINE m == [c EXCEPT !.steady = FALSE]
             d == Settled(m)
  <1>1. /\ m \in CallRecord /\ m.steady = FALSE /\ m.at = c.at /\ m.program = c.program
        /\ m.object = c.object /\ m.begun = c.begun /\ m.request = c.request /\ m.saved = c.saved
        /\ m.assetID = c.assetID /\ m.checked = c.checked
    BY DEF CallRecord
  <1>2. Overtake(c) = d
    BY DEF Overtake
  <1> HIDE DEF m
  <1>3. Describing(m) <=> Describing(c)
    BY <1>1 DEF Describing, Bearing
  <1>4. /\ d \in CallRecord
        /\ ~Overtaken(m) => d = m
        /\ Overtaken(m) => d.at = m.at /\ ~d.steady /\ d.object = 1 /\ d.request = NoRequest
        /\ Describing(d) <=> Describing(m)
    BY <1>1, SettledFacts
  <1> HIDE DEF d
  <1>5. CASE Overtaken(m)
    BY <1>1, <1>2, <1>3, <1>4, <1>5 DEF Overtaken
  <1>6. CASE ~Overtaken(m)
    BY <1>1, <1>2, <1>3, <1>4, <1>6
  <1>7. QED
    BY <1>5, <1>6

LEMMA SetNetworkFacts ==
    ASSUME TypeOK, SetNetwork
    PROVE  /\ api' = api /\ objects' = objects /\ adrift' = adrift
           /\ node' \in Network /\ network' = Unset
           /\ calls' \in [Slot -> CallRecord]
           /\ \A t \in Slot : calls[t] \in CallRecord /\ calls'[t] = Overtake(calls[t])
  <1>1. calls' = [t \in Slot |-> Overtake(calls[t])]
    BY DEF SetNetwork, Overtake
  <1>2. \A t \in Slot : calls[t] \in CallRecord /\ Overtake(calls[t]) \in CallRecord
    BY OvertakenFacts DEF TypeOK
  <1>3. QED
    BY <1>1, <1>2 DEF SetNetwork

LEMMA SetNetworkKeeps ==
    ASSUME Inv, SetNetwork
    PROVE  Inv'
  <1>1. /\ api' = api /\ objects' = objects /\ adrift' = adrift
        /\ node' \in Network /\ network' = Unset
        /\ calls' \in [Slot -> CallRecord]
        /\ \A t \in Slot : calls[t] \in CallRecord /\ calls'[t] = Overtake(calls[t])
    BY SetNetworkFacts DEF Inv
  <1>2. TypeOK'
    BY <1>1 DEF Inv, TypeOK
  <1>3. ASSUME NEW t \in Slot PROVE CallFits(calls[t])'
    <2> DEFINE c == calls[t]
               d == Overtake(c)
    <2>1. c \in CallRecord /\ calls'[t] = d /\ CallFits(c)
      BY <1>1 DEF Inv
    <2> HIDE DEF c
    <2>2. /\ ~d.steady /\ d.at = c.at /\ d.object \in {1, c.object}
          /\ c.at = "awaiting" =>
                 /\ d.program = c.program /\ d.object = c.object /\ d.begun = c.begun
                 /\ d.request = c.request
                 /\ d.assetID = c.assetID /\ d.checked = c.checked
      BY <2>1, OvertakenFacts
    <2> HIDE DEF d
    <2>3. d.object \in 1..Len(objects)
      BY <2>1, <2>2, LenProperties DEF CallFits, Inv, TypeOK
    <2>4. d.at # "running"
      BY <2>1, <2>2 DEF CallFits
    <2>5. d.at = "awaiting" => d.program \in ProgramsOf[api] /\ Awaits(d)
      BY <2>1, <2>2 DEF CallFits, Awaits, AssetKnown, Bearing
    <2>6. QED
      BY <1>1, <2>1, <2>2, <2>3, <2>4, <2>5 DEF CallFits
  <1>4. NewestIsPure'
    BY <1>1 DEF NewestIsPure
  <1>5. \A t \in Slot : /\ Describing(calls'[t]) <=> Describing(calls[t])
                        /\ Describing(calls[t]) => /\ calls'[t].object = calls[t].object
                                                   /\ calls'[t].saved = calls[t].saved
    BY <1>1, OvertakenFacts DEF Describing
  <1>6. \A o : DescribingOn(o)' = DescribingOn(o)
    <2> SUFFICES ASSUME NEW o PROVE DescribingOn(o)' = DescribingOn(o)
      OBVIOUS
    <2>1. DescribingOn(o)' = {t \in Slot : Describing(calls'[t]) /\ calls'[t].object = o}
      BY <1>1 DEF DescribingOn, Describing
    <2>2. DescribingOn(o) = {t \in Slot : Describing(calls[t]) /\ calls[t].object = o}
      BY DEF DescribingOn
    <2>3. QED
      BY <1>5, <2>1, <2>2
  <1>7. UrlsFit'
    <2> SUFFICES ASSUME NEW o \in 1..Len(objects), o \notin adrift
                 PROVE  /\ DescribingOn(o)' = {} => objects[o].url = api
                        /\ \A t \in DescribingOn(o)' : DescribingOn(o)' = {t} /\ calls'[t].saved = api
      BY <1>1 DEF UrlsFit
    <2>1. /\ DescribingOn(o) = {} => objects[o].url = api
          /\ \A t \in DescribingOn(o) : DescribingOn(o) = {t} /\ calls[t].saved = api
      BY DEF Inv, UrlsFit
    <2>2. \A t \in DescribingOn(o) : t \in Slot /\ Describing(calls[t])
      BY DEF DescribingOn
    <2>3. QED
      BY <1>5, <1>6, <2>1, <2>2
  <1>8. QED
    BY <1>2, <1>3, <1>4, <1>7 DEF Inv

LEMMA FetchNetworkSettingsKeeps ==
    ASSUME Inv, FetchNetworkSettings
    PROVE  Inv'
  <1> DEFINE new == NewObject(node)
             n == Len(objects)
  <1>1. /\ network = Unset /\ network' = node /\ objects' = Append(objects, new)
        /\ api' = api /\ node' = node /\ calls' = calls /\ adrift' = adrift
    BY DEF FetchNetworkSettings
  <1>2. World /\ TypeOK
    BY WorldOfTypes DEF Inv
  <1>3. new \in ApiObject /\ new.url = api /\ Pure(new) /\ node # Unset
    BY <1>2, NewObjectFacts, WorldFacts
  <1>4. objects \in Seq(ApiObject) /\ n \in Nat /\ n # 0
    BY <1>2, LenProperties, EmptySeq DEF TypeOK
  <1> HIDE DEF new
  <1>5. /\ objects' \in Seq(ApiObject) /\ Len(objects') = n + 1 /\ objects' # <<>>
        /\ objects'[n + 1] = new
        /\ \A o \in 1..n : objects'[o] = objects[o]
    <2>1. /\ Append(objects, new) \in Seq(ApiObject) /\ Len(Append(objects, new)) = Len(objects) + 1
          /\ \A o \in 1..Len(objects) : Append(objects, new)[o] = objects[o]
          /\ Append(objects, new)[Len(objects) + 1] = new
      BY <1>3, <1>4, AppendProperties
    <2>2. Append(objects, new) # <<>>
      BY <1>4, <2>1, EmptySeq
    <2>3. QED
      BY <1>1, <2>1, <2>2
  <1> HIDE DEF n
  <1>6. TypeOK'
    BY <1>1, <1>2, <1>5 DEF TypeOK
  <1>7. \A t \in Slot : CallFits(calls[t]) /\ calls[t].object \in 1..n /\ ~calls[t].steady
    <2>1. \A t \in Slot : CallFits(calls[t])
      BY DEF Inv
    <2>2. QED
      BY <1>1, <1>3, <2>1 DEF CallFits, n
  <1>8. ASSUME NEW t \in Slot PROVE CallFits(calls[t])'
    <2>1. calls[t].object \in 1..n + 1 /\ calls[t].object # n + 1
      BY <1>4, <1>7
    <2>2. QED
      BY <1>1, <1>5, <1>7, <2>1 DEF CallFits
  <1>9. NewestIsPure'
    <2>1. objects'[Len(objects')] = new
      BY <1>5
    <2>2. QED
      BY <1>1, <1>3, <2>1 DEF NewestIsPure, Pure
  <1>10. \A o : DescribingOn(o)' = DescribingOn(o)
    BY <1>1 DEF DescribingOn, Describing
  <1>11. DescribingOn(n + 1) = {}
    <2>1. \A t \in Slot : calls[t].object # n + 1
      BY <1>4, <1>7
    <2>2. QED
      BY <2>1 DEF DescribingOn
  <1>12. UrlsFit'
    <2> SUFFICES ASSUME NEW o \in 1..n + 1, o \notin adrift
                 PROVE  /\ DescribingOn(o) = {} => objects'[o].url = api
                        /\ \A t \in DescribingOn(o) : DescribingOn(o) = {t} /\ calls[t].saved = api
      BY <1>1, <1>5, <1>10 DEF UrlsFit
    <2>1. CASE o = n + 1
      BY <1>3, <1>5, <1>11, <2>1
    <2>2. CASE o # n + 1
      <3>1. o \in 1..n
        BY <1>4, <2>2
      <3>2. QED
        BY <1>5, <3>1 DEF Inv, UrlsFit, n
    <2>3. QED
      BY <2>1, <2>2
  <1>13. QED
    BY <1>6, <1>8, <1>9, <1>12 DEF Inv

LEMMA StepKeeps == Inv /\ [Next]_vars => Inv'
  <1> SUFFICES ASSUME Inv, [Next]_vars PROVE Inv'
    OBVIOUS
  <1>1. CASE SetNetwork
    BY <1>1, SetNetworkKeeps
  <1>2. CASE FetchNetworkSettings
    BY <1>2, FetchNetworkSettingsKeeps
  <1>3. CASE \E s \in Slot : CallStep(s)
    BY <1>3, CallStepKeeps
  <1>4. CASE UNCHANGED vars
    BY <1>4 DEF vars, Inv, TypeOK, CallFits, Current, NewestIsPure, Pure, UrlsFit, DescribingOn, Describing
  <1>5. QED
    BY <1>1, <1>2, <1>3, <1>4 DEF Next

LEMMA AlwaysInv == Spec => []Inv
  BY InitInv, StepKeeps, PTL DEF Spec

-----------------------------------------------------------------------------
\* The calls, the objects of the API and the networks stay what they are.
THEOREM TypeCorrect == Spec => []TypeOK
  <1>1. Inv => TypeOK
    BY DEF Inv
  <1>2. QED
    BY AlwaysInv, <1>1, PTL

\* A call that was made on the newest object and was not overtaken by setNetwork
\* returns with everything from one network, whatever other calls have cached or
\* are still to cache: the network of the object, which is that of now.
THEOREM CallsStayOnOneNetwork == Spec => []OneNetwork
  <1>1. Inv => OneNetwork
    <2> SUFFICES ASSUME Inv, NEW s \in Slot, calls[s].at = "returned", calls[s].steady
                 PROVE  LET c == calls[s]
                        IN {c.networkID, c.fee, c.assetID, c.minStake, c.utxos}
                               \subseteq {Unset, objects[c.object].made}
      BY DEF OneNetwork
    <2> DEFINE c == calls[s]
    <2>1. CallFits(c) /\ World /\ NewestIsPure
      BY WorldOfTypes DEF Inv
    <2>2. network = node /\ c.object = Len(objects) /\ Current(c)
      BY <2>1 DEF CallFits
    <2>3. network # Unset
      BY <2>1, <2>2, WorldFacts
    <2>4. objects[c.object].made = node
      BY <2>1, <2>2, <2>3 DEF NewestIsPure, Pure
    <2> HIDE DEF c
    <2>5. {c.networkID, c.fee, c.assetID, c.minStake, c.utxos} \subseteq {Unset, node}
      BY <2>2 DEF Current, Registers
    <2>6. QED
      BY <2>4, <2>5 DEF c
  <1>2. QED
    BY AlwaysInv, <1>1, PTL

\* What a call burns when it has passed the check in its own asset.
LEMMA PassedInAsset ==
    ASSUME NEW c \in CallRecord, PassesGooseCheck(c), c.checked = c.assetID
    PROVE  \/ BurnOf(c.flaw) <= 10
           \/ BurnOf(c.flaw) <= OutputTotalOf(c.flaw)
           \/ c.creationFee # Unset /\ BurnOf(c.flaw) <= CreationTxFee[c.creationFee]
  <1> DEFINE burn == BurnOf(c.flaw)
             out == OutputTotalOf(c.flaw)
  <1>1. burn \in Nat /\ out \in Nat
    BY DEF BurnOf, OutputTotalOf
  <1>2. OfChecked(c, burn) = burn /\ OfChecked(c, out) = out
    BY DEF OfChecked
  <1> HIDE DEF burn, out
  <1>3. burn <= 10 \/ burn <= OutTotal(c)
    BY <1>1, <1>2 DEF PassesGooseCheck, ONEAVAX, burn
  <1>4. CASE c.creationFee = Unset
    <2>1. OutTotal(c) = out
      BY <1>1, <1>2, <1>4 DEF OutTotal, out
    <2>2. QED
      BY <1>3, <2>1 DEF burn, out
  <1>5. CASE c.creationFee # Unset
    <2>1. OutTotal(c) \in {CreationTxFee[c.creationFee], out}
      BY <1>1, <1>2, <1>5 DEF OutTotal, out
    <2>2. QED
      BY <1>3, <1>5, <2>1 DEF burn, out
  <1>6. QED
    BY <1>4, <1>5

\* No builder of the P- or X-chain that checks returns a Goose Egg: the asset that
\* is checked is the one of the transaction, and the last step has let it through.
THEOREM NoGooseEgg == Spec => []NoGooseEggReturned
  <1>1. Inv => NoGooseEggReturned
    <2> SUFFICES ASSUME Inv, NEW s \in Slot, calls[s].at = "returned", calls[s].steady,
                        api # "C", calls[s].program \notin {PBuildBaseTx, PIssueTx}
                 PROVE  LET c == calls[s]
                        IN \/ BurnOf(c.flaw) <= 10
                           \/ BurnOf(c.flaw) <= OutputTotalOf(c.flaw)
                           \/ c.creationFee # Unset /\ BurnOf(c.flaw) <= CreationTxFee[c.creationFee]
      BY DEF NoGooseEggReturned
    <2> DEFINE c == calls[s]
    <2>1. CallFits(c) /\ World /\ c \in CallRecord
      BY WorldOfTypes DEF Inv, TypeOK
    <2>2. Current(c) /\ Completed(c) /\ c.program \in ProgramsOf[api] /\ c.begun = Len(c.program)
      BY <2>1 DEF CallFits
    <2>3. Checked(c.program) /\ Len(c.program) \in Nat \ {0}
      BY <2>1, <2>2, ProgramFacts
    <2> HIDE DEF c
    <2>4. GooseMatters(Bearing(c)) /\ c.begun > 0
      BY <2>2, <2>3 DEF Checked, Bearing
    <2>5. c.checked # Unset /\ PassesGooseCheck(c)
      BY <2>2, <2>4 DEF Completed
    <2>6. c.assetID # Unset
      <3>1. PICK k \in 1..Len(c.program) - 1 : c.program[k] = "AssetID"
        BY <2>3 DEF Checked
      <3>2. k \in 1..c.begun
        BY <2>2, <2>3
      <3>3. QED
        BY <2>2, <3>1, <3>2 DEF Completed, AssetKnown
    <2>7. c.checked = c.assetID
      BY <2>2, <2>5, <2>6 DEF Current, Registers
    <2>8. QED
      BY <2>1, <2>5, <2>7, PassedInAsset DEF c
  <1>2. QED
    BY AlwaysInv, <1>1, PTL

\* A request of the C-chain that no description of an asset disturbs goes to the
\* C-chain: the step of a call that sends it started at the object's own URL.
THEOREM RequestsGoToTheirChain == Spec => RequestsGoHome
  <1> DEFINE Homing ==
          \A s \in Slot :
              LET c == calls'[s]
              IN /\ c.request # calls[s].request /\ c.request # NoRequest
                 /\ ~Describing(calls[s])'
                 => \/ c.request.url \in {api, "C/rpc"}
                    \/ c.object \in adrift
                    \/ DescribingOn(c.object) # {}
  <1>1. Inv /\ [Next]_vars => [Homing]_vars
    <2> SUFFICES ASSUME Inv, Next, NEW s \in Slot,
                        calls'[s].request # calls[s].request, calls'[s].request # NoRequest,
                        ~Describing(calls[s])',
                        calls'[s].object \notin adrift, DescribingOn(calls'[s].object) = {}
                 PROVE  calls'[s].request.url \in {api, "C/rpc"}
      OBVIOUS
    <2>1. CASE SetNetwork
      <3>1. calls[s] \in CallRecord /\ calls'[s] = Overtake(calls[s])
        BY <2>1, SetNetworkFacts DEF Inv
      <3>2. QED
        BY <3>1, OvertakenFacts
    <2>2. CASE FetchNetworkSettings
      BY <2>2 DEF FetchNetworkSettings
    <2>3. CASE \E t \in Slot : CallStep(t)
      <3>1. PICK t \in Slot : CallStep(t)
        BY <2>3
      <3>2. Invariant(t)
        BY DEF Inv, Invariant
      <3>3. PICK a, url, e : Moves(t, a, url, e)
        BY <3>1, <3>2, CallStepMoves
      <3>4. t = s
        BY <3>3, MovedFacts DEF Inv
      <3>5. Moves(s, a, url, e)
        BY <3>3, <3>4
      <3>6. QED
        BY <3>5, MovedHome DEF Inv
    <2>4. QED
      BY <2>1, <2>2, <2>3 DEF Next
  <1>2. QED
    BY AlwaysInv, <1>1, PTL DEF Spec, RequestsGoHome

=============================================================================

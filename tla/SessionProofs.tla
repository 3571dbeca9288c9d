----------------------------- MODULE SessionProofs -----------------------------
(***************************************************************************)
(* Proofs about one session, for any keys and any server that keeps to     *)
(* what Session says of it: a fetch is of the branch advertised, and a     *)
(* session of git-receive-pack is a round of do_push as GitRepo has it.    *)
(***************************************************************************)
EXTENDS SessionPromise, SequenceTheorems, FunctionTheorems, FiniteSetTheorems,
        TLAPS

-------------------------------------------------------------------------------
(* Packets and what is read of them.                                        *)

\* What each kind of packet tells.
LEMMA PacketTells ==
  ASSUME ServerInv, NEW p \in Arriving
  PROVE  /\ p.kind \in {"ref", "text", "pack", "flush", "eof", "broken"}
         /\ p.kind = "ref" => /\ adv # None /\ p.oid \in Oids
                              /\ p.name \in {"HEAD", "branch", "other"}
                              /\ p.name = "branch" => p.oid = adv
         /\ p.kind = "text" => p.lines \subseteq report
         /\ p.kind = "pack" => adv # None /\ p.want = adv
         /\ p = Eof => p.kind = "eof"
<1>1. CASE p \in {Eof, Broken, Flush}
  BY <1>1 DEF Eof, Broken, Flush
<1>2. CASE \E lines \in SUBSET report : p = Text(lines)
  BY <1>2 DEF Text, Eof
<1>3. CASE adv # None /\ p \in {Line("HEAD", Elsewhere), Line("branch", adv), Line("other", Elsewhere)}
  BY <1>3 DEF Line, Oids, ServerInv, Eof
<1>4. CASE adv # None /\ p = PackOf(adv)
  BY <1>4 DEF PackOf, Eof
<1> QED
  BY <1>1, <1>2, <1>3, <1>4 DEF Arriving

\* The first packet on its way, and the others.
LEMMA Reading ==
  ASSUME SessionInv, client.pc # "done", wire # <<>>
  PROVE  /\ Head(wire) \in Arriving /\ Tail(wire) \in Seq(Arriving)
         /\ Len(wire) \in Nat \ {0} /\ Head(wire) = wire[1]
         /\ Len(Tail(wire)) = Len(wire) - 1
         /\ \A i \in 1..Len(Tail(wire)) : Tail(wire)[i] = wire[i + 1]
<1>1. wire \in Seq(Arriving)
  BY DEF SessionInv, ClientInv
<1>2. Len(wire) \in Nat \ {0}
  BY <1>1, EmptySeq
<1> QED
  BY <1>1, <1>2, HeadTailProperties

-------------------------------------------------------------------------------
(* The invariant: one lemma for each phase.                                 *)

LEMMA InitSession == Init => SessionInv
<1> SUFFICES ASSUME Init PROVE SessionInv
  OBVIOUS
<1>1. client \in ClientType
  <2>1. <<>> \in [{} -> Oids] /\ 1 \in Nat \ {0}
    OBVIOUS
  <2> QED
    BY <2>1 DEF Init, ClientType, RefMaps, Oids, Reports
<1>2. wire \in Seq(Arriving)
  BY EmptySeq DEF Init
<1> QED
  BY <1>1, <1>2, SessionAssumption
  DEF Init, SessionInv, ClientInv, ServerInv, OpenLineInv, FetchIsOfTheBranch, Oids

LEMMA AuthKeeps ==
  ASSUME SessionInv, Unreadable \/ Offer \/ OfferAnswered \/ OfferFailed \/ NoKeyWorked
  PROVE  SessionInv'
<1>1. /\ client \in ClientType /\ client.pc \in {"auth", "offered"} /\ client.result = "none"
      /\ UNCHANGED <<setup, wire, adv, report, inbox, ref>>
      /\ line' \in {line, "closed"}
  BY DEF SessionInv, ClientInv, Unreadable, Offer, OfferAnswered, OfferFailed, NoKeyWorked, server, remote
<1>2. \/ client' = [client EXCEPT !.pc = "offered"]
      \/ client' = [client EXCEPT !.pc = "refs"] /\ line = "open"
      \/ client' = [client EXCEPT !.pc = "auth", !.next = @ + 1]
      \/ client' = [client EXCEPT !.pc = "done", !.result = "failed"]
  BY DEF Unreadable, Offer, OfferAnswered, OfferFailed, NoKeyWorked, To, Done
<1>3. /\ client' \in ClientType
      /\ client'.refs = client.refs /\ client'.branch = client.branch
      /\ client'.pack = client.pack /\ client'.text = client.text
      /\ client'.pc \in {"auth", "offered", "refs", "done"}
      /\ client'.pc # "done" => client'.result = "none"
      /\ client'.result # "fetched"
      /\ client'.pc = "refs" => line = "open"
  <2>1. client.next + 1 \in Nat \ {0}
    BY <1>1 DEF ClientType
  <2>2. CASE client' = [client EXCEPT !.pc = "offered"]
    BY <1>1, <2>2 DEF ClientType
  <2>3. CASE client' = [client EXCEPT !.pc = "refs"] /\ line = "open"
    BY <1>1, <2>3 DEF ClientType
  <2>4. CASE client' = [client EXCEPT !.pc = "auth", !.next = @ + 1]
    BY <1>1, <2>1, <2>4 DEF ClientType
  <2>5. CASE client' = [client EXCEPT !.pc = "done", !.result = "failed"]
    BY <1>1, <2>5 DEF ClientType
  <2> QED
    BY <1>2, <2>2, <2>3, <2>4, <2>5
<1>4. Arriving' = Arriving
  BY <1>1 DEF Arriving
<1>5. ClientInv'
  BY <1>1, <1>3, <1>4 DEF SessionInv, ClientInv
<1>6. ServerInv'
  BY <1>1, <1>3 DEF SessionInv, ServerInv
<1>7. OpenLineInv'
  BY <1>1, <1>3 DEF SessionInv, OpenLineInv
<1> QED
  BY <1>3, <1>5, <1>6, <1>7 DEF SessionInv, FetchIsOfTheBranch

LEMMA AdvertiseKeeps ==
  ASSUME SessionInv, Advertise
  PROVE  SessionInv'
<1> DEFINE new == Advertisement
<1>1. /\ UNCHANGED <<setup, client, line, inbox, report, ref>>
      /\ client.pc = "refs" /\ line = "open" /\ adv = None /\ adv' = ref /\ ref # None
      /\ client.result = "none" /\ wire \in Seq(Arriving)
  BY DEF SessionInv, ClientInv, ServerInv, Advertise, remote
<1>2. wire = <<>>
  <2>1. SUFFICES ASSUME wire # <<>> PROVE FALSE
    OBVIOUS
  <2>2. wire[1] \in Arriving /\ Len(wire) \in Nat \ {0}
    BY <1>1, <2>1, Reading
  <2>3. wire[1].kind \in {"eof", "broken", "text"}
    BY <1>1, <2>2 DEF Arriving, Eof, Broken, Text
  <2>4. wire[1].kind \in {"ref", "flush"}
    BY <1>1, <2>2 DEF SessionInv, OpenLineInv
  <2> QED
    BY <2>3, <2>4
<1>3. wire' = <<Line("HEAD", Elsewhere), Line("branch", ref), Line("other", Elsewhere), Flush>>
  <2>1. wire' = <<>> \o Advertisement
    BY <1>2 DEF Advertise
  <2> QED
    BY <2>1 DEF Advertisement
<1>4. Arriving \subseteq Arriving'
  BY <1>1 DEF Arriving
<1>5. wire' \in Seq(Arriving')
  <2>1. {Line("HEAD", Elsewhere), Line("branch", ref), Line("other", Elsewhere), Flush} \subseteq Arriving'
    BY <1>1 DEF Arriving
  <2> QED
    BY <1>3, <2>1
<1>6. ClientInv'
  BY <1>1, <1>5 DEF SessionInv, ClientInv
<1>7. ServerInv'
  BY <1>1 DEF SessionInv, ServerInv
<1>8. OpenLineInv'
  <2>1. Len(wire') = 4 /\ wire'[1].kind = "ref" /\ wire'[2].kind = "ref" /\ wire'[3].kind = "ref"
        /\ wire'[4].kind = "flush"
    BY <1>3 DEF Line, Flush
  <2>2. \A i \in 1..4 : i \in {1, 2, 3, 4}
    OBVIOUS
  <2> QED
    BY <1>1, <2>1, <2>2 DEF OpenLineInv
<1> QED
  BY <1>1, <1>6, <1>7, <1>8 DEF SessionInv, FetchIsOfTheBranch

\* What a line of the advertisement adds to what has been read of it.
LEMMA LearnKeeps ==
  ASSUME SessionInv, NEW p \in Arriving, p.kind = "ref"
  PROVE  LET refs == Learn(client.refs, p)
         IN  /\ refs \in RefMaps
             /\ "branch" \in DOMAIN refs => adv # None /\ refs["branch"] = adv
<1>1. PICK names \in SUBSET {"HEAD", "branch", "other"} : client.refs \in [names -> Oids]
  BY DEF SessionInv, ClientInv, ClientType, RefMaps
<1>2. /\ adv # None /\ p.oid \in Oids /\ p.name \in {"HEAD", "branch", "other"}
      /\ p.name = "branch" => p.oid = adv
  BY PacketTells DEF SessionInv
<1>3. Learn(client.refs, p) \in [names \cup {p.name} -> Oids]
  BY <1>1, <1>2 DEF Learn
<1>4. names \cup {p.name} \in SUBSET {"HEAD", "branch", "other"}
  BY <1>2
<1>5. "branch" \in names => client.refs["branch"] = adv
  BY <1>1 DEF SessionInv, ClientInv
<1> QED
  BY <1>1, <1>2, <1>3, <1>4, <1>5 DEF Learn, RefMaps

LEMMA ReadRefKeeps ==
  ASSUME SessionInv, ReadRef
  PROVE  SessionInv'
<1> DEFINE packet == Head(wire)
           branch == Branch(client.refs)
<1>1. /\ client \in ClientType /\ client.pc = "refs" /\ client.result = "none" /\ wire # <<>>
      /\ UNCHANGED <<setup, line, adv, report, inbox, ref>> /\ wire \in Seq(Arriving)
      /\ wire' = IF packet = Eof THEN wire ELSE Tail(wire)
  BY DEF SessionInv, ClientInv, ReadRef, server, remote
<1>2. /\ packet \in Arriving /\ Tail(wire) \in Seq(Arriving) /\ packet = wire[1]
      /\ Len(wire) \in Nat \ {0} /\ Len(Tail(wire)) = Len(wire) - 1
      /\ \A i \in 1..Len(Tail(wire)) : Tail(wire)[i] = wire[i + 1]
  BY <1>1, Reading
<1>3. Arriving' = Arriving
  BY <1>1 DEF Arriving
<1>4. wire' \in Seq(Arriving')
  BY <1>1, <1>2, <1>3
<1>5. branch \in {None, adv}
  BY DEF Branch, SessionInv, ClientInv
<1>6. packet = Eof => packet.kind = "eof"
  BY DEF Eof
<1>7. line = "open" => /\ packet.kind = "ref" \/ (packet.kind = "flush" /\ Len(wire) = 1)
                       /\ wire' = Tail(wire)
  <2>1. line = "open" => packet.kind = "ref" \/ (packet.kind = "flush" /\ Len(wire) = 1)
    <3>1. 1 \in 1..Len(wire)
      BY <1>2
    <3>2. line = "open" => wire[1].kind = "ref" \/ (wire[1].kind = "flush" /\ 1 = Len(wire))
      BY <1>1, <3>1 DEF SessionInv, OpenLineInv
    <3> QED
      BY <1>2, <3>2
  <2> QED
    BY <1>1, <1>6, <2>1
<1>8. CASE packet.kind = "ref" /\ client' = [client EXCEPT !.refs = Learn(@, packet)]
  <2> DEFINE refs == Learn(client.refs, packet)
  <2>1. refs \in RefMaps /\ ("branch" \in DOMAIN refs => adv # None /\ refs["branch"] = adv)
    BY <1>2, <1>8, LearnKeeps
  <2> HIDE DEF refs
  <2>2. client' = [client EXCEPT !.refs = refs]
    BY <1>8 DEF refs
  <2>3. /\ client' \in ClientType /\ client'.refs = refs /\ client'.pc = "refs"
        /\ client'.branch = client.branch /\ client'.pack = client.pack
        /\ client'.text = client.text /\ client'.result = "none"
    BY <1>1, <2>1, <2>2 DEF ClientType
  <2>4. ClientInv'
    BY <1>1, <1>4, <2>1, <2>3 DEF SessionInv, ClientInv
  <2>5. ServerInv'
    BY <1>1, <2>3 DEF SessionInv, ServerInv
  <2>6. OpenLineInv'
    <3>1. ASSUME line = "open", NEW i \in 1..Len(wire')
          PROVE  wire'[i].kind = "ref" \/ (wire'[i].kind = "flush" /\ i = Len(wire'))
      <4>1. wire' = Tail(wire) /\ i \in 1..Len(Tail(wire))
        BY <1>7, <3>1
      <4>2. i + 1 \in 1..Len(wire) /\ wire'[i] = wire[i + 1]
        BY <1>2, <4>1
      <4>3. wire[i + 1].kind = "ref" \/ (wire[i + 1].kind = "flush" /\ i + 1 = Len(wire))
        BY <1>1, <3>1, <4>2 DEF SessionInv, OpenLineInv
      <4>4. i + 1 = Len(wire) => i = Len(wire')
        <5>1. Len(wire') = Len(wire) - 1 /\ i \in Int /\ Len(wire) \in Int
          BY <1>2, <4>1
        <5> QED
          BY <5>1
      <4> QED
        BY <4>2, <4>3, <4>4
    <3> QED
      BY <1>1, <2>3, <3>1 DEF SessionInv, OpenLineInv
  <2> QED
    BY <2>3, <2>4, <2>5, <2>6 DEF SessionInv, FetchIsOfTheBranch
<1>9. CASE client' = [client EXCEPT !.pc = "done", !.result = "failed"]
  <2>1. /\ client' \in ClientType /\ client'.pc = "done" /\ client'.result = "failed"
        /\ client'.branch = client.branch /\ client'.pack = client.pack
        /\ client'.text = client.text /\ client'.refs = client.refs
    BY <1>1, <1>9 DEF ClientType
  <2> QED
    BY <1>1, <2>1 DEF SessionInv, ClientInv, ServerInv, OpenLineInv, FetchIsOfTheBranch
<1>10. CASE /\ packet.kind \in Ended
            /\ setup.service = "git-receive-pack" \/ branch # None
            /\ client' = [client EXCEPT !.pc = "send", !.branch = branch]
  <2>1. branch \in Oids /\ (setup.service = "git-upload-pack" => adv # None /\ branch = adv)
    BY <1>5, <1>10 DEF Oids, SessionInv, ServerInv
  <2>2. client' = [client EXCEPT !.pc = "send", !.branch = branch]
    BY <1>10
  <2> HIDE DEF branch
  <2>3. /\ client' \in ClientType /\ client'.refs = client.refs /\ client'.pc = "send"
        /\ client'.branch = branch /\ client'.pack = client.pack
        /\ client'.text = client.text /\ client'.result = "none"
    BY <1>1, <2>1, <2>2 DEF ClientType
  <2>4. ClientInv'
    BY <1>1, <1>4, <1>5, <2>1, <2>3 DEF SessionInv, ClientInv
  <2>5. ServerInv'
    BY <1>1, <2>3 DEF SessionInv, ServerInv
  <2>6. OpenLineInv'
    <3>1. line = "open" => wire' = <<>>
      <4>1. line = "open" => Len(wire) = 1 /\ wire' = Tail(wire)
        BY <1>7, <1>10 DEF Ended
      <4>2. Len(wire) = 1 => Len(Tail(wire)) = 0
        BY <1>2
      <4>3. Tail(wire) # <<>> => Len(Tail(wire)) \in Nat \ {0}
        BY <1>2, EmptySeq
      <4> QED
        BY <4>1, <4>2, <4>3
    <3> QED
      BY <1>1, <2>3, <3>1 DEF SessionInv, OpenLineInv
  <2> QED
    BY <2>3, <2>4, <2>5, <2>6 DEF SessionInv, FetchIsOfTheBranch
<1> QED
  BY <1>8, <1>9, <1>10 DEF ReadRef, To, Done

LEMMA SendKeeps ==
  ASSUME SessionInv, Send
  PROVE  SessionInv'
<1>1. /\ client \in ClientType /\ client.pc = "send" /\ client.result = "none"
      /\ UNCHANGED <<setup, line, wire, adv, report, ref>>
      /\ inbox' \in {None, client.branch} /\ client.branch \in {None, adv}
      /\ report = {} /\ ref # New /\ (line = "open" => wire = <<>>)
  BY DEF SessionInv, ClientInv, ServerInv, OpenLineInv, Send, remote
<1>2. \/ client' = [client EXCEPT !.pc = "answer"]
      \/ client' = [client EXCEPT !.pc = "done", !.result = "failed"]
  BY DEF Send, To, Done
<1>3. /\ client' \in ClientType /\ client'.pc \in {"answer", "done"}
      /\ client'.refs = client.refs /\ client'.branch = client.branch
      /\ client'.pack = client.pack /\ client'.text = client.text
      /\ client'.pc # "done" => client'.result = "none"
      /\ client'.result # "fetched"
  BY <1>1, <1>2 DEF ClientType
<1>4. Arriving' = Arriving
  BY <1>1 DEF Arriving
<1>5. ClientInv'
  BY <1>1, <1>3, <1>4 DEF SessionInv, ClientInv
<1>6. ServerInv'
  BY <1>1, <1>3 DEF SessionInv, ServerInv
<1> QED
  BY <1>1, <1>3, <1>5, <1>6 DEF SessionInv, OpenLineInv, FetchIsOfTheBranch

\* However it is sent, a report is made of packets with its own lines.
LEMMA ReportArrives ==
  ASSUME NEW lines, NEW S, {Flush, Eof} \subseteq S, \A part \in SUBSET lines : Text(part) \in S
  PROVE  Reported(lines) \in Seq(S)
<1> DEFINE has(text) == IF text \in lines THEN <<Text({text})>> ELSE <<>>
<1>1. \A text : has(text) \in Seq(S)
  <2> SUFFICES ASSUME NEW text PROVE has(text) \in Seq(S)
    OBVIOUS
  <2>1. CASE text \in lines
    <3>1. Text({text}) \in S
      BY <2>1
    <3> QED
      BY <2>1, <3>1
  <2>2. CASE text \notin lines
    BY <2>2, EmptySeq
  <2> QED
    BY <2>1, <2>2
<1>2. <<Flush>> \in Seq(S) /\ <<Eof>> \in Seq(S)
  OBVIOUS
<1>3. <<Text(lines), Flush>> \in Seq(S)
  <2>1. Text(lines) \in S
    OBVIOUS
  <2> QED
    BY <2>1
<1> DEFINE each == has("unpack ok") \o has("ok") \o has("ng") \o has("non-fast-forward") \o <<Flush>>
<1>4. each \in Seq(S)
  <2> HIDE DEF has
  <2>1. has("unpack ok") \o has("ok") \in Seq(S)
    BY <1>1, ConcatProperties
  <2>2. has("unpack ok") \o has("ok") \o has("ng") \in Seq(S)
    BY <1>1, <2>1, ConcatProperties
  <2>3. has("unpack ok") \o has("ok") \o has("ng") \o has("non-fast-forward") \in Seq(S)
    BY <1>1, <2>2, ConcatProperties
  <2> QED
    BY <1>2, <2>3, ConcatProperties
<1>5. Reported(lines) \in {<<Eof>>, <<Text(lines), Flush>>, each}
  BY DEF Reported
<1> QED
  BY <1>2, <1>3, <1>4, <1>5

LEMMA ServeCommandKeeps ==
  ASSUME SessionInv, ServeCommand
  PROVE  SessionInv'
<1>1. PICK lines \in Reports :
        /\ ref' = IF "ok" \in lines THEN New ELSE ref
        /\ report' = IF client.pc = "done" THEN report ELSE lines
        /\ Answered(Reported(lines))
  BY DEF ServeCommand, Reports
<1>2. /\ UNCHANGED <<setup, client, line, adv>> /\ inbox' = None
      /\ client.pc \in {"answer", "done"} /\ report = {} /\ ref # New /\ adv # None
      /\ setup.service = "git-receive-pack"
  BY <1>1 DEF ServeCommand, Answered, SessionInv, ServerInv
<1>3. Arriving \subseteq Arriving'
  BY <1>2 DEF Arriving
<1>4. client.pc # "done" => wire' \in Seq(Arriving')
  <2> SUFFICES ASSUME client.pc # "done" PROVE wire' \in Seq(Arriving')
    OBVIOUS
  <2>1. report' = lines /\ wire \in Seq(Arriving)
    BY <1>1 DEF SessionInv, ClientInv
  <2>2. wire \in Seq(Arriving')
    BY <1>3, <2>1, SeqMonotonic
  <2>3. Reported(lines) \in Seq(Arriving')
    <3>1. {Flush, Eof} \subseteq Arriving' /\ \A part \in SUBSET lines : Text(part) \in Arriving'
      BY <1>2, <2>1 DEF Arriving
    <3> QED
      BY <3>1, ReportArrives
  <2>4. wire' = wire \/ wire' = wire \o Reported(lines)
    BY <1>1 DEF Answered
  <2> QED
    BY <2>2, <2>3, <2>4, ConcatProperties
<1>5. ClientInv'
  BY <1>2, <1>4 DEF SessionInv, ClientInv
<1>6. ServerInv'
  BY <1>1, <1>2, SessionAssumption DEF SessionInv, ServerInv, Oids
<1>7. OpenLineInv'
  BY <1>2 DEF SessionInv, OpenLineInv
<1> QED
  BY <1>2, <1>5, <1>6, <1>7 DEF SessionInv, FetchIsOfTheBranch

LEMMA ServeWantKeeps ==
  ASSUME SessionInv, ServeWant
  PROVE  SessionInv'
<1>1. /\ UNCHANGED <<setup, client, line, adv, report, ref>> /\ inbox' = None
      /\ client.pc \in {"answer", "done"} /\ inbox = adv /\ adv # None
  BY DEF ServeWant, Answered, SessionInv, ServerInv, remote
<1>2. PICK packets \in {<<PackOf(adv), Eof>>, <<Eof>>} :
        /\ wire' = IF line = "open" THEN wire \o packets ELSE wire
        /\ packets = <<Eof>> => setup.have # None
  <2>1. <<PackOf(adv), Eof>> # <<Eof>>
    OBVIOUS
  <2> QED
    BY <1>1, <2>1 DEF ServeWant, Answered
<1>3. Arriving' = Arriving
  BY <1>1 DEF Arriving
<1>4. packets \in Seq(Arriving) /\ packets # <<>>
  <2>1. PackOf(adv) \in Arriving /\ Eof \in Arriving
    BY <1>1 DEF Arriving
  <2>2. <<PackOf(adv), Eof>> \in Seq(Arriving) /\ <<Eof>> \in Seq(Arriving)
    BY <2>1
  <2>3. <<PackOf(adv), Eof>> # <<>> /\ <<Eof>> # <<>>
    OBVIOUS
  <2> QED
    BY <1>2, <2>2, <2>3
<1>5. client.pc # "done" => wire \in Seq(Arriving) /\ wire' \in Seq(Arriving)
  BY <1>2, <1>4, ConcatProperties DEF SessionInv, ClientInv
<1>6. ClientInv'
  BY <1>1, <1>3, <1>5 DEF SessionInv, ClientInv
<1>7. ServerInv'
  BY <1>1 DEF SessionInv, ServerInv
<1>8. OpenLineInv'
  <2>1. ASSUME line = "open", client.pc = "answer", setup.service = "git-upload-pack",
               setup.have = None, client.pack = None
        PROVE  Head(wire') = PackOf(adv)
    <3>1. packets = <<PackOf(adv), Eof>> /\ wire' = wire \o packets
      BY <1>2, <2>1
    <3>2. wire = <<>> \/ Head(wire) = PackOf(adv)
      BY <2>1 DEF SessionInv, OpenLineInv
    <3>3. wire \in Seq(Arriving) /\ wire' \in Seq(Arriving)
      BY <1>5, <2>1
    <3>4. CASE wire = <<>>
      <4>1. wire' = packets
        BY <1>4, <3>1, <3>4, ConcatEmptySeq
      <4> QED
        BY <3>1, <4>1
    <3>5. CASE wire # <<>> /\ Head(wire) = PackOf(adv)
      <4>1. Len(wire) \in Nat \ {0} /\ Len(packets) \in Nat
        BY <1>4, <3>3, <3>5, EmptySeq
      <4>2. wire'[1] = wire[1] /\ Len(wire') = Len(wire) + Len(packets)
        BY <1>4, <3>1, <3>3, <4>1, ConcatProperties
      <4> QED
        BY <3>3, <3>5, <4>1, <4>2
    <3> QED
      BY <3>2, <3>4, <3>5
  <2> QED
    BY <1>1, <2>1 DEF SessionInv, OpenLineInv
<1> QED
  BY <1>1, <1>6, <1>7, <1>8 DEF SessionInv, FetchIsOfTheBranch

LEMMA ReadReportKeeps ==
  ASSUME SessionInv, ReadReport
  PROVE  SessionInv'
<1> DEFINE packet == Head(wire)
<1>1. /\ client \in ClientType /\ client.pc = "answer" /\ client.result = "none" /\ wire # <<>>
      /\ UNCHANGED <<setup, line, adv, report, inbox, ref>> /\ wire \in Seq(Arriving)
      /\ wire' = IF packet = Eof THEN wire ELSE Tail(wire)
      /\ setup.service = "git-receive-pack" /\ report \in Reports \cup {{}}
  BY DEF SessionInv, ClientInv, ServerInv, ReadReport, server, remote
<1>2. packet \in Arriving /\ Tail(wire) \in Seq(Arriving)
  BY <1>1, Reading
<1>3. Arriving' = Arriving
  BY <1>1 DEF Arriving
<1>4. wire' \in Seq(Arriving')
  BY <1>1, <1>2, <1>3
<1> HIDE DEF packet
<1>5. \/ /\ packet.kind = "text"
         /\ client' = [client EXCEPT !.text = @ \cup packet.lines]
      \/ \E r \in {"pushed", "rejected", "failed"} :
           client' = [client EXCEPT !.pc = "done", !.result = r]
  BY DEF ReadReport, To, Done, Classify, packet
<1>6. /\ client' \in ClientType /\ client'.pc \in {"answer", "done"}
      /\ client'.refs = client.refs /\ client'.branch = client.branch
      /\ client'.pack = client.pack /\ client'.text \subseteq report
      /\ client'.pc # "done" => client'.result = "none"
      /\ client'.result # "fetched"
  <2>1. CASE /\ packet.kind = "text"
             /\ client' = [client EXCEPT !.text = @ \cup packet.lines]
    <3>1. packet.lines \subseteq report /\ client.text \subseteq report
      BY <1>2, <2>1, PacketTells DEF SessionInv, ClientInv
    <3>2. report \subseteq UNION Reports
      BY <1>1
    <3>3. client.text \cup packet.lines \in SUBSET UNION Reports
      BY <3>1, <3>2
    <3> QED
      BY <1>1, <2>1, <3>1, <3>3 DEF ClientType
  <2>2. CASE \E r \in {"pushed", "rejected", "failed"} :
               client' = [client EXCEPT !.pc = "done", !.result = r]
    BY <1>1, <2>2 DEF ClientType, SessionInv, ClientInv
  <2> QED
    BY <1>5, <2>1, <2>2
<1>7. ClientInv'
  BY <1>1, <1>4, <1>6 DEF SessionInv, ClientInv
<1>8. ServerInv'
  BY <1>1, <1>6 DEF SessionInv, ServerInv
<1> QED
  BY <1>1, <1>6, <1>7, <1>8 DEF SessionInv, OpenLineInv, FetchIsOfTheBranch

LEMMA ReadAnswerKeeps ==
  ASSUME SessionInv, ReadAnswer
  PROVE  SessionInv'
<1> DEFINE packet == Head(wire)
<1>1. /\ client \in ClientType /\ client.pc = "answer" /\ client.result = "none" /\ wire # <<>>
      /\ UNCHANGED <<setup, line, adv, report, inbox, ref>> /\ wire \in Seq(Arriving)
      /\ wire' = IF packet = Eof THEN wire ELSE Tail(wire)
      /\ setup.service = "git-upload-pack" /\ adv \in Oids
      /\ adv # None /\ client.branch = adv
  BY DEF SessionInv, ClientInv, ServerInv, ReadAnswer, server, remote
<1>2. packet \in Arriving /\ Tail(wire) \in Seq(Arriving)
  BY <1>1, Reading
<1>3. Arriving' = Arriving
  BY <1>1 DEF Arriving
<1>4. wire' \in Seq(Arriving')
  BY <1>1, <1>2, <1>3
<1>5. line = "open" /\ setup.have = None /\ client.pack = None => packet = PackOf(adv)
  BY <1>1 DEF SessionInv, OpenLineInv
<1> HIDE DEF packet
<1>6. \/ packet.kind = "pack" /\ client' = [client EXCEPT !.pack = packet.want]
      \/ packet.kind = "eof" /\ client' = [client EXCEPT !.pc = "done", !.result = "fetched"]
      \/ packet.kind = "broken" /\ client' = [client EXCEPT !.pc = "done", !.result = "failed"]
  BY DEF ReadAnswer, To, Done, packet
<1>7. /\ client' \in ClientType /\ client'.pc \in {"answer", "done"}
      /\ client'.refs = client.refs /\ client'.branch = adv
      /\ client'.pack \in {None, adv} /\ client'.text = client.text
      /\ client'.pc # "done" => client'.result = "none" /\ client'.pack # None
      /\ client'.result = "fetched" /\ client'.pack = None => setup.have # None \/ line = "closed"
  <2>1. CASE packet.kind = "pack" /\ client' = [client EXCEPT !.pack = packet.want]
    <3>1. packet.want = adv
      BY <1>2, <2>1, PacketTells DEF SessionInv
    <3> QED
      BY <1>1, <2>1, <3>1 DEF ClientType
  <2>2. CASE packet.kind = "eof" /\ client' = [client EXCEPT !.pc = "done", !.result = "fetched"]
    <3>1. client.pack = None => setup.have # None \/ line # "open"
      BY <1>5, <2>2 DEF PackOf
    <3>2. line \in {"open", "closed"}
      BY DEF SessionInv, OpenLineInv
    <3> QED
      BY <1>1, <2>2, <3>1, <3>2 DEF ClientType, SessionInv, ClientInv
  <2>3. CASE packet.kind = "broken" /\ client' = [client EXCEPT !.pc = "done", !.result = "failed"]
    BY <1>1, <2>3 DEF ClientType, SessionInv, ClientInv
  <2> QED
    BY <1>6, <2>1, <2>2, <2>3
<1>8. ClientInv'
  BY <1>1, <1>4, <1>7 DEF SessionInv, ClientInv
<1>9. ServerInv'
  BY <1>1, <1>7 DEF SessionInv, ServerInv
<1> QED
  BY <1>1, <1>7, <1>8, <1>9 DEF SessionInv, OpenLineInv, FetchIsOfTheBranch

LEMMA FaultKeeps ==
  ASSUME SessionInv, Cut \/ TimedOut
  PROVE  SessionInv'
<1>1. /\ UNCHANGED <<setup, client, adv, report, inbox, ref>> /\ line' = "closed"
      /\ client.pc # "done" /\ client.result = "none" /\ wire \in Seq(Arriving)
  BY DEF SessionInv, ClientInv, Cut, TimedOut, server, remote
<1>2. Arriving' = Arriving /\ {Eof, Broken} \subseteq Arriving
  BY <1>1 DEF Arriving
<1>3. wire' \in Seq(Arriving)
  <2>1. CASE Cut
    <3>1. PICK n \in 0..Len(wire), end \in {Eof, Broken} : wire' = SubSeq(wire, 1, n) \o <<end>>
      BY <2>1 DEF Cut
    <3>2. n \in Int /\ 1 \in Int /\ \A i \in 1..n : wire[i] \in Arriving
      BY <1>1, LenProperties, ElementOfSeq
    <3>3. SubSeq(wire, 1, n) \in Seq(Arriving)
      BY <3>2, SubSeqProperties
    <3>4. <<end>> \in Seq(Arriving)
      BY <1>2
    <3> QED
      BY <3>1, <3>3, <3>4, ConcatProperties
  <2>2. CASE TimedOut
    BY <1>2, <2>2 DEF TimedOut
  <2> QED
    BY <2>1, <2>2
<1>4. ClientInv'
  BY <1>1, <1>2, <1>3 DEF SessionInv, ClientInv
<1>5. ServerInv'
  BY <1>1 DEF SessionInv, ServerInv
<1> QED
  BY <1>1, <1>4, <1>5 DEF SessionInv, OpenLineInv, FetchIsOfTheBranch

\* The server ends without dealing with its request, or another client pushes.
LEMMA ElsewhereKeeps ==
  ASSUME SessionInv, Abandon \/ OtherPush
  PROVE  SessionInv'
<1>1. /\ UNCHANGED <<setup, client, line, wire, adv, report>>
      /\ inbox' \in {None, inbox} /\ ref' \in {ref, Theirs}
  BY DEF Abandon, OtherPush, server, remote
<1>2. Arriving' = Arriving
  BY <1>1 DEF Arriving
<1>3. ClientInv'
  BY <1>1, <1>2 DEF SessionInv, ClientInv
<1>4. ServerInv'
  BY <1>1, SessionAssumption DEF SessionInv, ServerInv, Oids
<1> QED
  BY <1>1, <1>3, <1>4 DEF SessionInv, OpenLineInv, FetchIsOfTheBranch

LEMMA NextSession == SessionInv /\ [Next]_vars => SessionInv'
<1> SUFFICES ASSUME SessionInv, [Next]_vars PROVE SessionInv'
  OBVIOUS
<1>1. CASE Client
  BY <1>1, AuthKeeps, ReadRefKeeps, SendKeeps, ReadReportKeeps, ReadAnswerKeeps DEF Client
<1>2. CASE Server
  BY <1>2, AuthKeeps, AdvertiseKeeps, ServeCommandKeeps, ServeWantKeeps, ElsewhereKeeps DEF Server
<1>3. CASE Cut \/ TimedOut \/ OtherPush
  BY <1>3, FaultKeeps, ElsewhereKeeps
<1>4. CASE UNCHANGED vars
  BY <1>4 DEF vars, server, remote, SessionInv, ClientInv, ServerInv, OpenLineInv,
              FetchIsOfTheBranch, Arriving
<1> QED
  BY <1>1, <1>2, <1>3, <1>4 DEF Next, Over

-------------------------------------------------------------------------------
(* The theorems.                                                            *)

\* Every session keeps what it has read in step with what is still on its way,
\* and with what its server has told and done (transport.rs 127-570).
THEOREM SessionHolds == Spec => []SessionInv
  BY InitSession, NextSession, PTL DEF Spec

\* A fetch comes back with what its branch had when it was advertised, and with
\* a pack made for it or nothing (read_refs and try_fetch, transport.rs 283-322
\* and 358-454).
THEOREM FetchStaysOfTheBranch == Spec => []FetchIsOfTheBranch
<1>1. SessionInv => FetchIsOfTheBranch
  BY DEF SessionInv
<1> QED
  BY <1>1, SessionHolds, PTL

-------------------------------------------------------------------------------
(* A session of git-receive-pack is a round of do_push.                     *)

\* What GitRepo sees of a session that has no report yet.
LEMMA BeforeReport ==
  ASSUME report = {}, client.pc # "done"
  PROVE  /\ RoundTask = IF adv = None THEN Round ELSE [Round EXCEPT !.pc = "command", !.adv = adv]
         /\ RoundLate = {}
  BY DEF RoundTask, RoundLate

\* A step of the task of GitRepo.
LEMMA TaskSteps ==
  ASSUME NEW s, RoundTask' = s
  PROVE  /\ Repo!Step("t", s)
         /\ UNCHANGED <<Repo!cache, [c \in Commits |-> None]>>
  BY DEF Repo!Step, Repo!cache

\* A session that ends before there is a report fails its round, and leaves a
\* command behind only if it has sent it.
LEMMA RoundFails ==
  ASSUME SessionInv, report = {}, client.pc # "done",
         client'.pc = "done", client'.result = "failed", inbox' \in {inbox, None},
         UNCHANGED <<adv, report, ref, store>>
  PROVE  RoundStep
<1>1. RoundTask' = Failed("failed")
  BY DEF RoundTask, Failed
<1>2. /\ RoundTask = IF adv = None THEN Round ELSE [Round EXCEPT !.pc = "command", !.adv = adv]
      /\ RoundLate = {}
  BY BeforeReport
<1>3. /\ RoundTask.pc \in {"push", "command"} /\ RoundTask.tries = 1 /\ RoundTask.req = "write"
      /\ adv # None => /\ RoundTask.pc = "command" /\ RoundTask.adv = adv
                       /\ RoundTask.new = New /\ RoundTask.buf = Pack
  BY <1>2 DEF Round
<1>4. Repo!TryAgain("t", "push") = Failed("failed")
  <2>1. Repo!TryAgain("t", "push") = Repo!Finish("t", "error")
    BY <1>3 DEF Repo!TryAgain
  <2>2. Repo!Finish("t", "error") = [Repo!NotStarted EXCEPT !.pc = "done", !.req = "write", !.answer = "error"]
    BY <1>3 DEF Repo!Finish
  <2>3. [Repo!NotStarted EXCEPT !.pc = "done", !.req = "write", !.answer = "error"] = Failed("failed")
    <3>1. Repo!NotStarted = NoRound
      BY DEF Repo!NotStarted, NoRound
    <3> QED
      BY <3>1 DEF Failed
  <2> QED
    BY <2>1, <2>2, <2>3
<1>5. Repo!Step("t", Repo!TryAgain("t", "push"))
  BY <1>1, <1>4, TaskSteps
<1>6. CASE inbox' = None
  <2>1. RoundLate' = {}
    BY <1>6 DEF RoundLate
  <2>2. Repo!SessionFailed("t")
    BY <1>2, <1>3, <1>5, <2>1 DEF Repo!SessionFailed, Repo!cache, Repo!remote
  <2> QED
    BY <2>2 DEF RoundStep
<1>7. CASE inbox' # None
  <2>1. inbox' = adv /\ adv # None
    BY <1>7 DEF SessionInv, ServerInv
  <2>2. RoundLate' = {[of |-> "t", adv |-> adv, new |-> New, buf |-> Pack]}
    BY <1>7, <2>1 DEF RoundLate
  <2>3. Repo!SentBy({"t"}) = {[of |-> "t", adv |-> adv, new |-> New, buf |-> Pack]}
    BY <1>3, <2>1 DEF Repo!SentBy, Repo!Sent
  <2>4. Repo!TimedOut("t")
    BY <1>2, <1>3, <1>5, <2>1, <2>2, <2>3 DEF Repo!TimedOut, Repo!cache
  <2> QED
    BY <2>4 DEF RoundStep
<1> QED
  BY <1>6, <1>7

\* How the task of GitRepo is when it has a report, and gets or loses one.
LEMMA Telling ==
  ASSUME NEW r, NEW p, NEW a, NEW lines, NEW more
  PROVE  /\ [[r EXCEPT !.pc = p, !.adv = a] EXCEPT !.pc = "report", !.report = lines]
              = [r EXCEPT !.pc = "report", !.adv = a, !.report = lines]
         /\ [[r EXCEPT !.pc = "report", !.adv = a, !.report = lines] EXCEPT !.report = more]
              = [r EXCEPT !.pc = "report", !.adv = a, !.report = more]
  OBVIOUS

LEMMA AdvertiseIsRound ==
  ASSUME SessionInv, Advertise
  PROVE  RoundStep
<1>1. /\ report = {} /\ client.pc # "done" /\ adv = None /\ adv' = ref /\ ref # None
      /\ UNCHANGED <<client, report, inbox, ref, store>>
  BY DEF SessionInv, ServerInv, Advertise, remote
<1>2. RoundTask = Round /\ RoundLate = {}
  BY <1>1, BeforeReport
<1>3. RoundTask' = [Round EXCEPT !.pc = "command", !.adv = ref] /\ RoundLate' = {}
  BY <1>1 DEF RoundTask, RoundLate
<1>4. Repo!Step("t", [Round EXCEPT !.pc = "command", !.adv = ref])
  BY <1>3, TaskSteps
<1>5. Round.pc = "push"
  BY DEF Round
<1>6. Repo!Advertise("t")
  BY <1>1, <1>2, <1>3, <1>4, <1>5 DEF Repo!Advertise, Repo!cache, Repo!remote
<1> QED
  BY <1>6 DEF RoundStep

LEMMA ServeCommandIsRound ==
  ASSUME SessionInv, ServeCommand
  PROVE  RoundStep
<1>1. PICK lines \in Reports :
        /\ "ok" \in lines => inbox = ref
        /\ ref' = IF "ok" \in lines THEN New ELSE ref
        /\ store' = IF "unpack ok" \in lines THEN store \cup Pack ELSE store
        /\ report' = IF client.pc = "done" THEN report ELSE lines
        /\ inbox' = None
  BY DEF ServeCommand, Reports, Answered
<1>2. /\ UNCHANGED <<setup, client, adv>> /\ inbox = adv /\ adv # None
      /\ report = {} /\ ref # New
  BY DEF ServeCommand, SessionInv, ServerInv
<1>3. RoundLate' = {}
  BY <1>1 DEF RoundLate
<1>4. lines \in {{"unpack ok", "ok"}, {"unpack ok", "ng"}, {"ng"}, {"non-fast-forward"}}
  BY DEF Reports
<1>5. CASE client.pc = "done"
  <2> DEFINE c == [of |-> "t", adv |-> adv, new |-> New, buf |-> Pack]
  <2>1. RoundTask' = RoundTask
    BY <1>1, <1>2, <1>5 DEF RoundTask
  <2>2. RoundLate = {c}
    BY <1>2, <1>5 DEF RoundLate
  <2>3. c.adv = adv /\ c.new = New /\ c.buf = Pack
    OBVIOUS
  <2> HIDE DEF c
  <2>4. Repo!Executed(c) \/ Repo!Refused(c) \/ UNCHANGED <<ref, store>>
    BY <1>1, <1>2, <1>4, <2>3
    DEF Repo!Executed, Repo!Refused, Repo!Accepts, Repo!Unpack
  <2>5. Repo!LateCommand
    BY <1>3, <2>1, <2>2, <2>4 DEF Repo!LateCommand, Repo!cache
  <2> QED
    BY <2>5 DEF RoundStep
<1>6. CASE client.pc # "done"
  <2> DEFINE s == [Round EXCEPT !.pc = "command", !.adv = adv]
  <2>1. RoundTask = s /\ RoundLate = {}
    BY <1>2, <1>6, BeforeReport
  <2>2. RoundTask' = [Round EXCEPT !.pc = "report", !.adv = adv, !.report = lines]
    BY <1>1, <1>2, <1>4, <1>6 DEF RoundTask, Taken
  <2>3. RoundTask' = [s EXCEPT !.pc = "report", !.report = lines]
    BY <2>2, Telling
  <2>4. s.pc = "command" /\ s.adv = adv /\ s.new = New /\ s.buf = Pack
    BY DEF Round
  <2> HIDE DEF s
  <2>5. Repo!Reported("t", lines)
    BY <2>1, <2>3, TaskSteps DEF Repo!Reported
  <2>6. /\ lines = {"unpack ok", "ok"} => Repo!Executed(RoundTask)
        /\ lines = {"unpack ok", "ng"} => Repo!Refused(RoundTask)
        /\ lines \in {{"ng"}, {"non-fast-forward"}} => UNCHANGED <<ref, store>>
    BY <1>1, <1>2, <2>1, <2>4 DEF Repo!Executed, Repo!Refused, Repo!Accepts, Repo!Unpack
  <2>7. Repo!ReceivePack("t")
    BY <1>2, <1>3, <1>4, <2>1, <2>4, <2>5, <2>6 DEF Repo!ReceivePack, Repo!cache
  <2> QED
    BY <2>7 DEF RoundStep
<1> QED
  BY <1>5, <1>6

LEMMA AbandonIsRound ==
  ASSUME SessionInv, Abandon
  PROVE  RoundStep \/ UNCHANGED <<RoundTask, RoundLate, remote>>
<1>1. /\ UNCHANGED <<client, adv, report, ref, store>> /\ inbox' = None
  BY DEF Abandon, remote
<1>2. UNCHANGED RoundTask /\ RoundLate' = {}
  BY <1>1 DEF RoundTask, Taken, RoundLate
<1>3. CASE RoundLate = {}
  BY <1>1, <1>2, <1>3 DEF remote
<1>4. CASE RoundLate # {}
  <2>1. PICK c : RoundLate = {c}
    BY <1>4 DEF RoundLate
  <2>2. Repo!LateCommand
    BY <1>1, <1>2, <2>1 DEF Repo!LateCommand, Repo!cache
  <2> QED
    BY <2>2 DEF RoundStep
<1> QED
  BY <1>3, <1>4

\* A report is read as it was sent, or lost with the session.
LEMMA ReadReportIsRound ==
  ASSUME SessionInv, SessionInv', ReadReport
  PROVE  RoundStep \/ UNCHANGED <<RoundTask, RoundLate, remote>>
<1>1. /\ client \in ClientType /\ client.pc = "answer" /\ client.text \subseteq report
      /\ UNCHANGED <<adv, report, inbox, ref, store>> /\ report \in Reports \cup {{}}
  BY DEF SessionInv, ClientInv, ServerInv, ReadReport, server, remote
<1>2. CASE client'.pc # "done"
  <2>1. RoundTask' = RoundTask /\ RoundLate' = RoundLate
    BY <1>1, <1>2 DEF RoundTask, RoundLate, Taken
  <2> QED
    BY <1>1, <2>1 DEF remote
<1>3. CASE client'.pc = "done"
  <2>1. client'.pc = "done" /\ client'.result \in {Classify(client.text), "failed"}
    <3>1. \E r \in {Classify(client.text), "failed"} :
            client' = [client EXCEPT !.pc = "done", !.result = r]
      <4>1. client' # [client EXCEPT !.text = @ \cup Head(wire).lines]
        BY <1>1, <1>3 DEF ClientType
      <4> QED
        BY <4>1 DEF ReadReport, To, Done
    <3> QED
      BY <1>1, <3>1 DEF ClientType
  <2>2. CASE report = {}
    <3>1. client'.result = "failed"
      BY <1>1, <2>1, <2>2 DEF Classify, Contains
    <3> QED
      BY <1>1, <2>1, <2>2, <3>1, RoundFails
  <2>3. CASE report # {}
    <3>1. Taken = report
      BY <1>1 DEF Taken
    <3>2. client'.result \in {Classify(report), "failed"}
      <4>1. report \in Reports
        BY <1>1, <2>3
      <4>2. Classify(client.text) \in {Classify(report), "failed"}
        BY <1>1, <4>1 DEF Classify, Contains, Reports
      <4> QED
        BY <2>1, <4>2
    <3>3. Taken' \in {report, {}}
      <4>1. Classify(report)' = Classify(report)
        BY <1>1 DEF Classify, Contains
      <4> QED
        BY <1>1, <3>2, <4>1 DEF Taken
    <3>4. RoundTask = [Round EXCEPT !.pc = "report", !.adv = adv, !.report = report]
      BY <2>3, <3>1 DEF RoundTask
    <3>5. RoundTask' = [Round EXCEPT !.pc = "report", !.adv = adv, !.report = Taken']
      BY <1>1, <2>3 DEF RoundTask
    <3>6. RoundLate = {} /\ RoundLate' = {}
      BY <1>1, <2>3 DEF RoundLate
    <3>7. CASE Taken' = report
      BY <1>1, <3>4, <3>5, <3>6, <3>7 DEF remote
    <3>8. CASE Taken' = {}
      <4>1. RoundTask' = [RoundTask EXCEPT !.report = {}]
        BY <3>4, <3>5, <3>8, Telling
      <4>2. RoundTask.pc = "report"
        BY <3>4 DEF Round
      <4>3. Repo!LoseReport("t")
        BY <1>1, <3>6, <4>1, <4>2, TaskSteps DEF Repo!LoseReport, Repo!cache, Repo!remote
      <4> QED
        BY <4>3 DEF RoundStep
    <3> QED
      BY <3>3, <3>7, <3>8
  <2> QED
    BY <2>2, <2>3
<1> QED
  BY <1>2, <1>3

LEMMA NextIsRound ==
  ASSUME SessionInv, SessionInv', [Next]_vars, setup.service = "git-receive-pack"
  PROVE  RoundStep \/ UNCHANGED <<RoundTask, RoundLate, remote>>
<1>1. ASSUME client.pc # "done", UNCHANGED <<adv, report, remote>>,
             \/ client'.pc # "done"
             \/ /\ client'.pc = "done" /\ client'.result = "failed"
                /\ report = {} /\ inbox' \in {inbox, None}
      PROVE  RoundStep \/ UNCHANGED <<RoundTask, RoundLate, remote>>
  <2>1. CASE client'.pc # "done"
    BY <1>1, <2>1 DEF RoundTask, RoundLate, Taken
  <2> QED
    BY <1>1, <2>1, RoundFails DEF remote
<1>2. client \in ClientType /\ (client.pc \notin {"answer", "done"} => report = {} /\ inbox = None)
  BY DEF SessionInv, ClientInv, ServerInv
<1>3. CASE Unreadable \/ Offer \/ OfferAnswered \/ OfferFailed \/ NoKeyWorked
  <2>1. /\ client.pc \in {"auth", "offered"} /\ UNCHANGED <<adv, report, remote, inbox>>
        /\ \/ client'.pc # "done"
           \/ client'.pc = "done" /\ client'.result = "failed"
    BY <1>2, <1>3
    DEF Unreadable, Offer, OfferAnswered, OfferFailed, NoKeyWorked, To, Done, ClientType, server, remote
  <2> QED
    BY <1>1, <1>2, <2>1
<1>4. CASE ReadRef
  <2>1. /\ client.pc = "refs" /\ UNCHANGED <<adv, report, remote, inbox>>
        /\ \/ client'.pc # "done"
           \/ client'.pc = "done" /\ client'.result = "failed"
    <3>1. \/ client' = [client EXCEPT !.refs = Learn(@, Head(wire))]
          \/ client' = [client EXCEPT !.pc = "done", !.result = "failed"]
          \/ client' = [client EXCEPT !.pc = "send", !.branch = Branch(client.refs)]
      BY <1>4 DEF ReadRef, To, Done
    <3>2. client.pc = "refs" /\ UNCHANGED <<adv, report, remote, inbox>>
      BY <1>4 DEF ReadRef, server, remote
    <3> QED
      BY <1>2, <3>1, <3>2 DEF ClientType
  <2> QED
    BY <1>1, <1>2, <2>1
<1>5. CASE Send
  <2>1. /\ client.pc = "send" /\ UNCHANGED <<adv, report, remote>>
        /\ \/ client'.pc # "done"
           \/ client'.pc = "done" /\ client'.result = "failed" /\ inbox' = None
    BY <1>2, <1>5 DEF Send, To, Done, ClientType
  <2> QED
    BY <1>1, <1>2, <2>1
<1>6. CASE Cut \/ TimedOut
  <2>1. client.pc # "done" /\ UNCHANGED <<client, adv, report, remote>>
    BY <1>6 DEF Cut, TimedOut, server
  <2> QED
    BY <1>1, <2>1
<1>7. CASE UNCHANGED vars
  BY <1>7 DEF vars, server, remote, RoundTask, RoundLate, Taken
<1>8. ~ServeWant /\ ~ReadAnswer
  BY DEF ServeWant, ReadAnswer
<1>9. CASE OtherPush
  BY <1>9 DEF RoundStep
<1> QED
  BY <1>3, <1>4, <1>5, <1>6, <1>7, <1>8, <1>9,
     AdvertiseIsRound, ServeCommandIsRound, AbandonIsRound, ReadReportIsRound
  DEF Next, Client, Server, Over

\* A session of git-receive-pack is a round of do_push as GitRepo has it: the
\* command is sent once and with the value advertised, a success is only told
\* if the server reported it, and a session that fails leaves nothing behind
\* before its command is sent (try_push, transport.rs 492-570).
THEOREM KeepsRound == Spec => ImplementsRound
<1>1. SessionInv /\ SessionInv' /\ [Next]_vars =>
        [setup.service = "git-receive-pack" => RoundStep]_<<RoundTask, RoundLate, remote>>
  BY NextIsRound
<1> QED
  BY <1>1, SessionHolds, PTL DEF Spec, ImplementsRound

-------------------------------------------------------------------------------
(* The keys: which were offered, and in which order.                        *)

\* One more key counts if it could be read.
LEMMA OfferedCounts ==
  ASSUME NEW n \in Nat \ {0}
  PROVE  /\ IsFiniteSet(Offered(n)) /\ Cardinality(Offered(n)) \in Nat
         /\ Attempts[n].locked => Cardinality(Offered(n + 1)) = Cardinality(Offered(n))
         /\ ~Attempts[n].locked => Cardinality(Offered(n + 1)) = Cardinality(Offered(n)) + 1
<1>1. IsFiniteSet(Offered(n)) /\ Cardinality(Offered(n)) \in Nat
  <2>1. Offered(n) \in SUBSET (1..(n - 1)) /\ IsFiniteSet(1..(n - 1))
    BY FS_Interval DEF Offered
  <2> QED
    BY <2>1, FS_Subset, FS_CardinalityType
<1>2. n \notin Offered(n) /\ 1..((n + 1) - 1) = 1..(n - 1) \cup {n}
  BY DEF Offered
<1>3. Attempts[n].locked => Offered(n + 1) = Offered(n)
  BY <1>2 DEF Offered
<1>4. ~Attempts[n].locked => Offered(n + 1) = Offered(n) \cup {n}
  BY <1>2 DEF Offered
<1>5. Cardinality(Offered(n) \cup {n}) = Cardinality(Offered(n)) + 1
  BY <1>1, <1>2, FS_AddElement
<1> QED
  BY <1>1, <1>3, <1>4, <1>5

LEMMA IsSeq ==
  ASSUME NEW S, NEW n \in Nat, NEW f, f = [i \in 1..n |-> f[i]], \A i \in 1..n : f[i] \in S
  PROVE  f \in Seq(S) /\ Len(f) = n
<1>1. f \in [1..n -> S]
  OBVIOUS
<1> QED
  BY <1>1, SeqDef

\* The keys in their order, wherever they come from.
LEMMA AttemptsAre ==
  ASSUME setup \in Setup
  PROVE  /\ setup.ssh_key # None =>
              Len(Attempts) = 1 /\ Attempts[1] = Attempt(setup.ssh_key, TRUE, setup.ssh_key.locked, TRUE)
         /\ setup.ssh_key = None =>
              /\ Len(setup.agent) \in Nat /\ DOMAIN setup.agent = 1..Len(setup.agent)
              /\ Len(setup.files) \in Nat /\ DOMAIN setup.files = 1..Len(setup.files)
              /\ Len(Attempts) = Len(setup.agent) + Len(setup.files)
              /\ \A i \in 1..Len(setup.agent) :
                   Attempts[i] = Attempt(setup.agent[i], FALSE, FALSE, ~setup.agent[i].locked)
              /\ \A i \in 1..Len(setup.files) : Attempts[Len(setup.agent) + i] =
                   Attempt(setup.files[i], TRUE, setup.files[i].locked, TRUE)
<1> DEFINE agent == setup.agent
           files == setup.files
           some  == [key : Keys, hash : BOOLEAN, locked : BOOLEAN, signs : BOOLEAN]
<1>1. agent \in Seq(Keys) /\ files \in Seq(Keys)
  BY SetupAssumption
<1>2. ASSUME setup.ssh_key # None
      PROVE  Len(Attempts) = 1 /\ Attempts[1] = Attempt(setup.ssh_key, TRUE, setup.ssh_key.locked, TRUE)
  <2> DEFINE one == <<setup.ssh_key>>
  <2>1. Attempts = OfFiles(one) /\ DOMAIN one = 1..1 /\ one[1] = setup.ssh_key
    BY <1>2 DEF Attempts
  <2> HIDE DEF one
  <2>2. Attempts = [i \in 1..1 |-> Attempt(one[i], TRUE, one[i].locked, TRUE)]
    BY <2>1 DEF OfFiles
  <2>3. Len(Attempts) = 1
    BY <2>2
  <2>4. Attempts[1] = Attempt(one[1], TRUE, one[1].locked, TRUE)
    BY <2>2
  <2> QED
    BY <2>1, <2>3, <2>4
<1>3. /\ Len(agent) \in Nat /\ DOMAIN agent = 1..Len(agent)
      /\ Len(files) \in Nat /\ DOMAIN files = 1..Len(files)
  BY <1>1
<1>4. OfAgent(agent) \in Seq(some) /\ Len(OfAgent(agent)) = Len(agent)
  <2>1. OfAgent(agent) = [i \in 1..Len(agent) |-> Attempt(agent[i], FALSE, FALSE, ~agent[i].locked)]
    BY <1>3 DEF OfAgent
  <2>2. ASSUME NEW i \in 1..Len(agent)
        PROVE  Attempt(agent[i], FALSE, FALSE, ~agent[i].locked) \in some
    <3>1. agent[i] \in Keys
      BY <1>1
    <3>2. (~agent[i].locked) \in BOOLEAN
      OBVIOUS
    <3> QED
      BY <3>1, <3>2 DEF Attempt
  <2>3. \A i \in 1..Len(agent) : OfAgent(agent)[i] \in some
    BY <2>1, <2>2
  <2>4. OfAgent(agent) = [i \in 1..Len(agent) |-> OfAgent(agent)[i]]
    BY <2>1
  <2> HIDE DEF some
  <2> QED
    BY <1>3, <2>3, <2>4, IsSeq
<1>5. OfFiles(files) \in Seq(some) /\ Len(OfFiles(files)) = Len(files)
  <2>1. OfFiles(files) = [i \in 1..Len(files) |-> Attempt(files[i], TRUE, files[i].locked, TRUE)]
    BY <1>3 DEF OfFiles
  <2>2. ASSUME NEW i \in 1..Len(files)
        PROVE  Attempt(files[i], TRUE, files[i].locked, TRUE) \in some
    <3>1. files[i] \in Keys
      BY <1>1
    <3>2. files[i].locked \in BOOLEAN
      BY <3>1 DEF Keys
    <3> QED
      BY <3>1, <3>2 DEF Attempt
  <2>3. \A i \in 1..Len(files) : OfFiles(files)[i] \in some
    BY <2>1, <2>2
  <2>4. OfFiles(files) = [i \in 1..Len(files) |-> OfFiles(files)[i]]
    BY <2>1
  <2> HIDE DEF some
  <2> QED
    BY <1>3, <2>3, <2>4, IsSeq
<1>6. ASSUME setup.ssh_key = None
      PROVE  /\ Len(Attempts) = Len(agent) + Len(files)
             /\ \A i \in 1..Len(agent) : Attempts[i] = Attempt(agent[i], FALSE, FALSE, ~agent[i].locked)
             /\ \A i \in 1..Len(files) :
                  Attempts[Len(agent) + i] = Attempt(files[i], TRUE, files[i].locked, TRUE)
  <2>1. Attempts = OfAgent(agent) \o OfFiles(files)
    BY <1>6 DEF Attempts
  <2>2. \A i \in 1..Len(agent) : OfAgent(agent)[i] = Attempt(agent[i], FALSE, FALSE, ~agent[i].locked)
    BY <1>3 DEF OfAgent
  <2>3. \A i \in 1..Len(files) : OfFiles(files)[i] = Attempt(files[i], TRUE, files[i].locked, TRUE)
    BY <1>3 DEF OfFiles
  <2> HIDE DEF some, agent, files
  <2>4. /\ Len(Attempts) = Len(agent) + Len(files)
        /\ \A i \in 1..(Len(agent) + Len(files)) :
             Attempts[i] = IF i <= Len(agent) THEN OfAgent(agent)[i] ELSE OfFiles(files)[i - Len(agent)]
    <3> DEFINE a == OfAgent(agent)
               f == OfFiles(files)
    <3>1. a \in Seq(some) /\ f \in Seq(some) /\ Len(a) = Len(agent) /\ Len(f) = Len(files)
      BY <1>4, <1>5
    <3>2. Attempts = a \o f
      BY <2>1
    <3> HIDE DEF a, f
    <3>3. /\ Len(a \o f) = Len(a) + Len(f)
          /\ \A i \in 1..(Len(a) + Len(f)) : (a \o f)[i] = IF i <= Len(a) THEN a[i] ELSE f[i - Len(a)]
      BY <3>1, ConcatProperties
    <3>4. /\ Len(Attempts) = Len(agent) + Len(files)
          /\ \A i \in 1..(Len(agent) + Len(files)) :
               Attempts[i] = IF i <= Len(agent) THEN a[i] ELSE f[i - Len(agent)]
      BY <3>1, <3>2, <3>3
    <3> QED
      BY <3>4 DEF a, f
  <2>5. ASSUME NEW i \in 1..Len(files)
        PROVE  /\ Len(agent) + i \in 1..(Len(agent) + Len(files)) /\ ~(Len(agent) + i <= Len(agent))
               /\ (Len(agent) + i) - Len(agent) = i
    BY <1>3
  <2>6. \A i \in 1..Len(files) : Attempts[Len(agent) + i] = OfFiles(files)[i]
    BY <2>4, <2>5
  <2>7. \A i \in 1..Len(agent) : Attempts[i] = OfAgent(agent)[i]
    BY <1>3, <2>4
  <2> QED
    BY <2>2, <2>3, <2>4, <2>6, <2>7
<1> QED
  BY <1>2, <1>3, <1>6

\* An agent's keys are all offered, so that the i-th file comes after all of
\* them and after the files before it that could be read.
LEMMA OfferedBefore ==
  ASSUME setup \in Setup, setup.ssh_key = None
  PROVE  /\ \A i \in 1..Len(setup.agent) : Cardinality(Offered(i)) = i - 1
         /\ \A i \in 1..Len(setup.files) :
              Cardinality(Offered(Len(setup.agent) + i)) =
                Len(setup.agent) + Cardinality({j \in 1..(i - 1) : ~setup.files[j].locked})
<1> DEFINE agents == Len(setup.agent)
           files  == setup.files
<1>0. /\ agents \in Nat /\ Len(files) \in Nat
      /\ \A i \in 1..agents : Attempts[i] = Attempt(setup.agent[i], FALSE, FALSE, ~setup.agent[i].locked)
      /\ \A i \in 1..Len(files) : Attempts[agents + i] = Attempt(files[i], TRUE, files[i].locked, TRUE)
  BY AttemptsAre
<1> HIDE DEF agents, files
<1>1. agents \in Nat /\ Len(files) \in Nat
  BY <1>0
<1>2. ASSUME NEW i \in 1..agents
      PROVE  ~Attempts[i].locked
  <2>1. Attempts[i] = Attempt(setup.agent[i], FALSE, FALSE, ~setup.agent[i].locked)
    BY <1>0
  <2> QED
    BY <2>1 DEF Attempt
<1>3. ASSUME NEW i \in 1..Len(files)
      PROVE  Attempts[agents + i].locked = files[i].locked
  <2>1. Attempts[agents + i] = Attempt(files[i], TRUE, files[i].locked, TRUE)
    BY <1>0
  <2> QED
    BY <2>1 DEF Attempt
<1>4. ASSUME NEW i \in 1..agents
      PROVE  Cardinality(Offered(i)) = i - 1
  <2>1. Offered(i) = 1..(i - 1)
    BY <1>1, <1>2 DEF Offered
  <2>2. Cardinality(1..(i - 1)) = i - 1
    BY <1>1, FS_Interval
  <2> QED
    BY <2>1, <2>2
<1>5. ASSUME NEW i \in 1..Len(files)
      PROVE  Cardinality(Offered(agents + i)) = agents + Cardinality({j \in 1..(i - 1) : ~files[j].locked})
  <2> DEFINE before == {j \in 1..(i - 1) : ~files[j].locked}
             after  == {j \in (agents + 1)..(agents + i - 1) : ~Attempts[j].locked}
             shift  == [j \in before |-> agents + j]
  <2>1. IsFiniteSet(before)
    <3>1. before \in SUBSET (1..(i - 1)) /\ 1 \in Int /\ i - 1 \in Int
      BY <1>1
    <3> HIDE DEF before
    <3> QED
      BY <3>1, FS_Interval, FS_Subset
  <2>2. shift \in Bijection(before, after)
    <3>1. \A j \in before : shift[j] \in after
      <4> SUFFICES ASSUME NEW j \in before
                   PROVE  agents + j \in after
        OBVIOUS
      <4>1. j \in 1..Len(files) /\ agents + j \in (agents + 1)..(agents + i - 1) /\ ~files[j].locked
        BY <1>1
      <4> QED
        BY <1>3, <4>1
    <3>2. \A k \in after : k - agents \in before /\ agents + (k - agents) = k
      <4> SUFFICES ASSUME NEW k \in after
                   PROVE  k - agents \in before /\ agents + (k - agents) = k
        OBVIOUS
      <4>1. /\ k - agents \in 1..Len(files) /\ k - agents \in 1..(i - 1)
            /\ agents + (k - agents) = k /\ ~Attempts[k].locked
        BY <1>1
      <4> QED
        BY <1>3, <4>1
    <3>3. \A j, k \in before : shift[j] = shift[k] => j = k
      BY <1>1
    <3>4. \A k \in after : \E j \in before : shift[j] = k
      BY <3>2
    <3>5. shift \in [before -> after]
      BY <3>1
    <3> HIDE DEF shift, before, after
    <3> QED
      BY <3>3, <3>4, <3>5, Fun_IsBij
  <2>3. IsFiniteSet(after) /\ Cardinality(after) = Cardinality(before)
    <3> HIDE DEF shift, before, after
    <3> QED
      BY <2>1, <2>2, FS_Bijection DEF ExistsBijection
  <2>4. Offered(agents + i) = 1..agents \cup after
    BY <1>1, <1>2 DEF Offered
  <2>5. (1..agents) \cap after = {} /\ IsFiniteSet(1..agents) /\ Cardinality(1..agents) = agents
    <3>1. (1..agents) \cap after = {}
      BY <1>1
    <3>2. 1 \in Int /\ agents \in Int /\ (IF 1 > agents THEN 0 ELSE agents - 1 + 1) = agents
      BY <1>1
    <3>3. IsFiniteSet(1..agents) /\ Cardinality(1..agents) = agents
      BY <3>2, FS_Interval
    <3> QED
      BY <3>1, <3>3
  <2>6. Cardinality(before) \in Nat
    BY <2>1, FS_CardinalityType
  <2> HIDE DEF before, after
  <2>7. Cardinality(1..agents \cup after) = agents + Cardinality(after)
    <3>1. Cardinality(1..agents \cup after) =
            Cardinality(1..agents) + Cardinality(after) - Cardinality((1..agents) \cap after)
      BY <2>3, <2>5, FS_Union
    <3>2. Cardinality((1..agents) \cap after) = 0
      BY <2>5, FS_EmptySet
    <3> QED
      BY <1>1, <2>3, <2>5, <2>6, <3>1, <3>2
  <2> QED
    BY <2>3, <2>4, <2>7 DEF before
<1> QED
  BY <1>4, <1>5 DEF agents, files

LEMMA InitKeys == Init => KeysInv
<1> SUFFICES ASSUME Init PROVE KeysInv
  OBVIOUS
<1>1. setup \in Setup /\ client.pc = "auth" /\ client.next = 1 /\ inbox = None
      /\ line = "open" /\ failures = 0
  BY DEF Init
<1>2. Offered(1) = {} /\ 1..(1 - 1) = {}
  BY DEF Offered
<1>3. Cardinality(Offered(1)) = 0
  BY <1>2, FS_EmptySet
<1>4. failures < MaxAuthTries
  BY <1>1, SessionAssumption
<1> QED
  BY <1>1, <1>2, <1>3, <1>4 DEF KeysInv

\* The keys are those of the setup.
LEMMA KeysStay ==
  ASSUME UNCHANGED setup
  PROVE  /\ Attempts' = Attempts /\ \A j : Offered(j)' = Offered(j)
         /\ Offered(client.next)' = Offered(client'.next)
<1>1. Attempts' = Attempts
  BY DEF Attempts, OfAgent, OfFiles
<1> QED
  BY <1>1 DEF Offered

\* The key that comes next is done with: it could not be read, the server has
\* refused it, or the server is gone.
LEMMA NextKey ==
  ASSUME SessionInv, KeysInv, client.pc \in {"auth", "offered"},
         client.next <= Len(Attempts), UNCHANGED <<setup, wire, inbox>>,
         client'.pc = "auth", client'.next = client.next + 1,
         \/ Attempts[client.next].locked /\ UNCHANGED <<line, failures>>
         \/ /\ ~Attempts[client.next].locked /\ ~Accepted(Attempts[client.next])
            /\ line = "open"
            /\ \/ /\ failures' = failures + 1
                  /\ line' = IF failures' = MaxAuthTries THEN "closed" ELSE line
               \/ UNCHANGED <<line, failures>>
         \/ ~Attempts[client.next].locked /\ line = "closed" /\ line' = line
  PROVE  KeysInv'
<1> DEFINE n   == client.next
           now == Cardinality(Offered(n))
           new == Cardinality(Offered(n + 1))
<1>1. /\ n \in Nat \ {0} /\ MaxAuthTries \in Nat \ {0}
      /\ inbox = None /\ line \in {"open", "closed"}
  BY SessionAssumption DEF SessionInv, ClientInv, ClientType, ServerInv, OpenLineInv
<1>2. /\ now \in Nat /\ new \in {now, now + 1}
      /\ Attempts[n].locked => new = now
      /\ ~Attempts[n].locked => new = now + 1
  BY <1>1, OfferedCounts
<1>3. Attempts' = Attempts /\ \A j : Offered(j)' = Offered(j)
  BY KeysStay
<1>4. Offered(client.next)' = Offered(n + 1)
  BY KeysStay
<1>5. IF line = "open" THEN failures \in 0..now /\ failures < MaxAuthTries
      ELSE wire # <<>> \/ now >= MaxAuthTries
  BY DEF KeysInv
<1>6. IF line' = "open" THEN failures' \in 0..new /\ failures' < MaxAuthTries
      ELSE wire # <<>> \/ new >= MaxAuthTries
  <2> HIDE DEF now, new, n
  <2>1. CASE Attempts[n].locked /\ UNCHANGED <<line, failures>>
    BY <1>2, <1>5, <2>1
  <2>2. CASE /\ ~Attempts[n].locked /\ line = "open" /\ failures' = failures + 1
             /\ line' = IF failures' = MaxAuthTries THEN "closed" ELSE line
    <3>1. failures' \in 0..new /\ failures' <= MaxAuthTries
      BY <1>1, <1>2, <1>5, <2>2
    <3> QED
      BY <1>1, <1>2, <2>2, <3>1
  <2>4. CASE ~Attempts[n].locked /\ line = "open" /\ UNCHANGED <<line, failures>>
    BY <1>1, <1>2, <1>5, <2>4
  <2>3. CASE ~Attempts[n].locked /\ line = "closed" /\ line' = line
    BY <1>1, <1>2, <1>5, <2>3
  <2> QED
    BY <2>1, <2>2, <2>3, <2>4 DEF n
<1>7. ASSUME wire = <<>>, NEW j \in 1..n
      PROVE  \/ Attempts[j].locked \/ Cardinality(Offered(j)) >= MaxAuthTries
             \/ ~Accepted(Attempts[j])
  <2>1. CASE j \in 1..(n - 1)
    BY <1>7, <2>1 DEF KeysInv
  <2>2. CASE j = n
    BY <1>5, <1>7, <2>2
  <2> QED
    BY <1>1, <2>1, <2>2
<1>8. (n + 1) - 1 = n /\ setup' \in Setup
  BY <1>1 DEF KeysInv
<1> HIDE DEF n, now, new
<1>9. /\ client'.next = n + 1 /\ client'.pc = "auth" /\ wire' = wire /\ inbox' = None
      /\ Cardinality(Offered(client.next)') = new
  BY <1>1, <1>4 DEF n, new
<1> QED
  BY <1>3, <1>6, <1>7, <1>8, <1>9 DEF KeysInv

LEMMA AuthKeepsKeys ==
  ASSUME SessionInv, KeysInv, Unreadable \/ Offer \/ OfferAnswered \/ OfferFailed \/ NoKeyWorked
  PROVE  KeysInv'
<1>1. client \in ClientType /\ Len(Attempts) \in Nat
  BY AttemptsAre DEF SessionInv, ClientInv, KeysInv
<1>2. UNCHANGED <<setup, wire, inbox>>
  BY DEF Unreadable, Offer, OfferAnswered, OfferFailed, NoKeyWorked, server, remote
<1>3. Attempts' = Attempts /\ \A j : Offered(j)' = Offered(j)
  BY <1>2, KeysStay
<1>4. CASE Unreadable
  <2>1. /\ client.pc = "auth" /\ client.next <= Len(Attempts) /\ Attempts[client.next].locked
        /\ client' = [client EXCEPT !.next = @ + 1] /\ UNCHANGED <<line, failures>>
    BY <1>4 DEF Unreadable, To, server
  <2>2. client'.pc = "auth" /\ client'.next = client.next + 1
    BY <1>1, <2>1 DEF ClientType
  <2> QED
    BY <1>2, <2>1, <2>2, NextKey
<1>5. CASE Offer
  <2>1. /\ client.pc = "auth" /\ client.next <= Len(Attempts) /\ ~Attempts[client.next].locked
        /\ client' = [client EXCEPT !.pc = "offered"] /\ UNCHANGED <<line, failures>>
    BY <1>5 DEF Offer, To, server
  <2>2. client'.pc = "offered" /\ client'.next = client.next
    BY <1>1, <2>1 DEF ClientType
  <2>3. Offered(client.next)' = Offered(client.next)
    BY <1>2, <2>2, KeysStay
  <2> QED
    BY <1>2, <1>3, <2>1, <2>2, <2>3 DEF KeysInv
<1>6. CASE OfferAnswered /\ Accepted(Attempts[client.next])
  <2>1. client.pc = "offered" /\ client' = [client EXCEPT !.pc = "refs"]
    BY <1>6 DEF OfferAnswered, To, Accepted
  <2>2. client'.pc = "refs" /\ client'.next = client.next /\ client.next <= Len(Attempts)
    BY <1>1, <2>1 DEF ClientType, KeysInv
  <2>3. ~(client.next > Len(Attempts))
    BY <1>1, <2>2 DEF ClientType
  <2> QED
    BY <1>2, <1>3, <2>2, <2>3 DEF KeysInv
<1>7. CASE OfferAnswered /\ ~Accepted(Attempts[client.next])
  <2>1. /\ client.pc = "offered" /\ line = "open"
        /\ client' = [client EXCEPT !.pc = "auth", !.next = @ + 1]
        /\ failures' = failures + 1
        /\ line' = IF failures' = MaxAuthTries THEN "closed" ELSE line
    BY <1>7 DEF OfferAnswered, To
  <2>2. /\ client'.pc = "auth" /\ client'.next = client.next + 1 /\ client.next <= Len(Attempts)
        /\ ~Attempts[client.next].locked
    BY <1>1, <2>1 DEF ClientType, KeysInv
  <2> QED
    BY <1>2, <1>7, <2>1, <2>2, NextKey
<1>8. CASE OfferFailed
  <2>1. /\ client.pc = "offered" /\ UNCHANGED <<line, failures>>
        /\ client' = [client EXCEPT !.pc = "auth", !.next = @ + 1]
        /\ line = "closed" \/ ~Accepted(Attempts[client.next])
    BY <1>8 DEF OfferFailed, To, server, Accepted
  <2>2. /\ client'.pc = "auth" /\ client'.next = client.next + 1 /\ client.next <= Len(Attempts)
        /\ ~Attempts[client.next].locked
    BY <1>1, <2>1 DEF ClientType, KeysInv
  <2>3. line \in {"open", "closed"}
    BY DEF SessionInv, OpenLineInv
  <2> QED
    BY <1>2, <2>1, <2>2, <2>3, NextKey
<1>9. CASE NoKeyWorked
  <2>1. /\ client.pc = "auth" /\ client.next > Len(Attempts)
        /\ client' = [client EXCEPT !.pc = "done", !.result = "failed"]
    BY <1>9 DEF NoKeyWorked, To, Done
  <2>2. client'.pc = "done" /\ client'.next = client.next
    BY <1>1, <2>1 DEF ClientType
  <2> QED
    BY <1>2, <1>3, <2>1, <2>2 DEF KeysInv
<1> QED
  BY <1>4, <1>5, <1>6, <1>7, <1>8, <1>9

\* Once a key has been taken, what follows leaves the keys alone.
LEMMA RestKeepsKeys ==
  ASSUME SessionInv, KeysInv,
         Advertise \/ ReadRef \/ Send \/ ReadReport \/ ReadAnswer
                   \/ ServeCommand \/ ServeWant \/ Abandon
  PROVE  KeysInv'
<1>1. client \in ClientType /\ Len(Attempts) \in Nat
  BY AttemptsAre DEF SessionInv, ClientInv, KeysInv
<1>2. client.next <= Len(Attempts) /\ client.pc \notin {"auth", "offered"}
  <2>1. CASE Advertise \/ ReadRef \/ Send \/ ReadReport \/ ReadAnswer
    BY <2>1 DEF KeysInv, Advertise, ReadRef, Send, ReadReport, ReadAnswer
  <2>2. CASE ServeCommand \/ ServeWant \/ Abandon
    <3>1. inbox # None
      BY <2>2 DEF ServeCommand, ServeWant, Abandon
    <3>2. client.next \in Nat /\ ~(client.next > Len(Attempts))
      BY <1>1, <3>1 DEF KeysInv, ClientType
    <3> QED
      BY <1>1, <3>1, <3>2 DEF SessionInv, ServerInv
  <2> QED
    BY <2>1, <2>2
<1>3. UNCHANGED setup
  BY DEF Advertise, ReadRef, Send, ReadReport, ReadAnswer, ServeCommand, ServeWant, Abandon
<1>4. client'.pc \notin {"auth", "offered"} /\ client'.next = client.next
  <2>1. \/ client' = client
        \/ \E refs : client' = [client EXCEPT !.refs = refs]
        \/ \E branch : client' = [client EXCEPT !.pc = "send", !.branch = branch]
        \/ client' = [client EXCEPT !.pc = "answer"]
        \/ \E text : client' = [client EXCEPT !.text = text]
        \/ \E pack : client' = [client EXCEPT !.pack = pack]
        \/ \E result : client' = [client EXCEPT !.pc = "done", !.result = result]
    BY DEF Advertise, ReadRef, Send, ReadReport, ReadAnswer, ServeCommand, ServeWant, Abandon, To, Done
  <2> QED
    BY <1>1, <1>2, <2>1 DEF ClientType
<1>5. Attempts' = Attempts /\ ~(client.next > Len(Attempts))
  BY <1>1, <1>2, <1>3, KeysStay DEF ClientType
<1> QED
  BY <1>2, <1>3, <1>4, <1>5 DEF KeysInv

LEMMA FaultKeepsKeys ==
  ASSUME SessionInv, KeysInv, Cut \/ TimedOut \/ OtherPush \/ UNCHANGED vars
  PROVE  KeysInv'
<1>1. /\ UNCHANGED <<setup, client, inbox, failures>>
      /\ UNCHANGED <<line, wire>> \/ (line' = "closed" /\ client.pc # "done")
  BY DEF Cut, TimedOut, OtherPush, vars, server
<1>2. Attempts' = Attempts /\ (\A j : Offered(j)' = Offered(j))
      /\ Offered(client.next)' = Offered(client.next)
  BY <1>1, KeysStay
<1>3. CASE UNCHANGED <<line, wire>>
  BY <1>1, <1>2, <1>3 DEF KeysInv
<1>4. CASE Cut \/ TimedOut
  <2>1. line' = "closed"
    BY <1>4 DEF Cut, TimedOut
  <2>2. wire' # <<>>
    <3>1. CASE TimedOut
      BY <3>1 DEF TimedOut
    <3>2. CASE Cut
      <4>1. wire \in Seq(Arriving)
        BY <3>2 DEF Cut, SessionInv, ClientInv
      <4>2. PICK k \in 0..Len(wire), end \in {Eof, Broken} : wire' = SubSeq(wire, 1, k) \o <<end>>
        BY <3>2 DEF Cut
      <4>3. SubSeq(wire, 1, k) \in Seq(Arriving) /\ <<end>> \in Seq(Arriving)
        <5>1. end \in Arriving
          BY DEF Arriving
        <5> QED
          BY <4>1, <5>1, SubSeqProperties
      <4>4. Len(wire') = Len(SubSeq(wire, 1, k)) + 1
        BY <4>2, <4>3, ConcatProperties
      <4>5. Len(SubSeq(wire, 1, k)) \in Nat /\ Len(<<>>) = 0
        BY <4>3
      <4> QED
        BY <4>4, <4>5
    <3> QED
      BY <1>4, <3>1, <3>2
  <2> QED
    BY <1>1, <1>2, <2>1, <2>2 DEF KeysInv
<1> QED
  BY <1>3, <1>4 DEF OtherPush, vars

LEMMA NextKeys == SessionInv /\ KeysInv /\ [Next]_vars => KeysInv'
  BY AuthKeepsKeys, RestKeepsKeys, FaultKeepsKeys DEF Next, Client, Server, Over

\* A key the server knows is in none of the ways a key is passed over.
LEMMA KeysGetIn ==
  ASSUME SessionInv, KeysInv
  PROVE  KeyGetsIn
<1> SUFFICES ASSUME client.result = "failed", client.next > Len(Attempts), wire = <<>>
             PROVE  LET left(n)   == n < MaxAuthTries
                        good(k)   == k.good /\ ~k.locked
                        before(i) == {j \in 1..(i - 1) : ~setup.files[j].locked}
                    IN  IF setup.ssh_key # None THEN ~good(setup.ssh_key)
                        ELSE /\ \A i \in DOMAIN setup.agent :
                                  left(i - 1) => ~good(setup.agent[i]) \/ setup.agent[i].rsa
                             /\ \A i \in DOMAIN setup.files :
                                  left(Len(setup.agent) + Cardinality(before(i))) => ~good(setup.files[i])
  BY DEF KeyGetsIn
<1>1. setup \in Setup /\ client.next \in Nat /\ Len(Attempts) \in Nat /\ MaxAuthTries \in Nat \ {0}
  BY AttemptsAre, SessionAssumption DEF KeysInv, SessionInv, ClientInv, ClientType
<1>2. ASSUME NEW j \in 1..Len(Attempts), Cardinality(Offered(j)) \in Nat,
             Cardinality(Offered(j)) < MaxAuthTries
      PROVE  Attempts[j].locked \/ ~Accepted(Attempts[j])
  <2>1. j \in 1..(client.next - 1) /\ ~(Cardinality(Offered(j)) >= MaxAuthTries)
    BY <1>1, <1>2
  <2> QED
    BY <2>1 DEF KeysInv
<1>3. CASE setup.ssh_key # None
  <2>1. Len(Attempts) = 1 /\ Attempts[1] = Attempt(setup.ssh_key, TRUE, setup.ssh_key.locked, TRUE)
    BY <1>1, <1>3, AttemptsAre
  <2>2. Cardinality(Offered(1)) = 0
    <3>1. Offered(1) = {}
      BY DEF Offered
    <3> QED
      BY <3>1, FS_EmptySet
  <2>3. Attempts[1].locked \/ ~Accepted(Attempts[1])
    <3>1. 1 \in 1..Len(Attempts) /\ Cardinality(Offered(1)) \in Nat
      BY <2>1, <2>2
    <3>2. Cardinality(Offered(1)) < MaxAuthTries
      BY <1>1, <2>2
    <3> QED
      BY <1>2, <3>1, <3>2
  <2> QED
    BY <1>3, <2>1, <2>3 DEF Attempt, Accepted, Asked
<1>4. CASE setup.ssh_key = None
  <2> DEFINE agents == Len(setup.agent)
  <2>1. /\ agents \in Nat /\ DOMAIN setup.agent = 1..agents
        /\ Len(setup.files) \in Nat /\ DOMAIN setup.files = 1..Len(setup.files)
        /\ Len(Attempts) = agents + Len(setup.files)
        /\ \A i \in 1..agents :
             Attempts[i] = Attempt(setup.agent[i], FALSE, FALSE, ~setup.agent[i].locked)
        /\ \A i \in 1..Len(setup.files) : Attempts[agents + i] =
             Attempt(setup.files[i], TRUE, setup.files[i].locked, TRUE)
    BY <1>1, <1>4, AttemptsAre
  <2>2. /\ \A i \in 1..agents : Cardinality(Offered(i)) = i - 1
        /\ \A i \in 1..Len(setup.files) : Cardinality(Offered(agents + i)) =
             agents + Cardinality({j \in 1..(i - 1) : ~setup.files[j].locked})
    BY <1>1, <1>4, OfferedBefore
  <2> HIDE DEF agents
  <2>3. ASSUME NEW i \in 1..agents, i - 1 < MaxAuthTries
        PROVE  ~(setup.agent[i].good /\ ~setup.agent[i].locked) \/ setup.agent[i].rsa
    <3>1. i \in 1..Len(Attempts) /\ i - 1 \in Nat
      BY <2>1
    <3>2. Attempts[i].locked \/ ~Accepted(Attempts[i])
      BY <1>2, <2>2, <2>3, <3>1
    <3>3. Attempts[i] = Attempt(setup.agent[i], FALSE, FALSE, ~setup.agent[i].locked)
      BY <2>1
    <3>4. /\ Attempts[i].key = setup.agent[i] /\ Attempts[i].hash = FALSE
          /\ Attempts[i].locked = FALSE /\ Attempts[i].signs = ~setup.agent[i].locked
      BY <3>3 DEF Attempt
    <3> HIDE <3>3
    <3> QED
      BY <3>2, <3>4, Zenon DEF Accepted, Asked
  <2>4. ASSUME NEW i \in 1..Len(setup.files),
               agents + Cardinality({j \in 1..(i - 1) : ~setup.files[j].locked}) < MaxAuthTries
        PROVE  ~(setup.files[i].good /\ ~setup.files[i].locked)
    <3>1. agents + i \in 1..Len(Attempts) /\ agents + i \in Nat \ {0}
      BY <2>1
    <3>2. Cardinality(Offered(agents + i)) \in Nat
      BY <3>1, OfferedCounts
    <3>3. Attempts[agents + i].locked \/ ~Accepted(Attempts[agents + i])
      BY <1>2, <2>2, <2>4, <3>1, <3>2
    <3>4. Attempts[agents + i] = Attempt(setup.files[i], TRUE, setup.files[i].locked, TRUE)
      BY <2>1
    <3> QED
      BY <3>3, <3>4 DEF Attempt, Accepted, Asked
  <2> QED
    BY <1>4, <2>1, <2>3, <2>4 DEF agents
<1> QED
  BY <1>3, <1>4

\* Each key before the next could not be read, was not accepted, or came when the
\* server had closed the connection (connect_ssh, transport.rs 142-239).
THEOREM KeysHold == Spec => []KeysInv
<1>1. Init => SessionInv /\ KeysInv
  BY InitSession, InitKeys
<1>2. (SessionInv /\ KeysInv) /\ [Next]_vars => (SessionInv /\ KeysInv)'
  BY NextSession, NextKeys
<1> QED
  BY <1>1, <1>2, PTL DEF Spec

\* A session gives up only when none of the keys davgit turns to for it
\* (transport.rs 142-239: the one of --ssh-key alone or, without it, those the
\* agent signs with that are not RSA and the readable default files) is both known
\* to the server and among the first MaxAuthTries offered.
THEOREM GoodKeyGetsIn == Spec => []KeyGetsIn
  BY KeysGetIn, KeysHold, SessionHolds, PTL
===============================================================================

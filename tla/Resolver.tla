------------------------------ MODULE Resolver ------------------------------
(***************************************************************************)
(* The DNS client of src/internal/dns.cpp, Query::send, over a network     *)
(* that loses, delays and misdirects messages.  Every attempt uses a       *)
(* socket of its own, bound to a port the system picks; every query has    *)
(* the same transaction id (1234), and an answer is recognised by nothing  *)
(* else.  A socket is always of the family AF_INET, so a request to a name *)
(* server with an IPv6 address is never sent.  The lookups of hosts and    *)
(* services that make queries follow behind it.                            *)
(***************************************************************************)
EXTENDS Integers, FiniteSets, FiniteSetsExt, SequencesExt, Samples

CONSTANTS
  Servers,      \* the name servers of /etc/resolv.conf: "v4" or "v6" each
  Questions, Ports,
  Junk,         \* an answer with another transaction id
  Tries,        \* attempts with every server (3)
  MaxQueries,   \* bound: queries
  MaxJunk       \* bound: foreign packets

VARIABLES
  query,        \* the query under way: where it is, its question and attempt
  requests,     \* requests on their way, [q, port]
  answers,      \* answers on their way, [q, port]
  sockets,      \* ports of open sockets
  used,         \* history: per port, the questions asked from it
  asked,        \* history: attempts of this query with IPv4 servers
  result,       \* how the last query ended, and what it answers
  queries, junk

dnsVars == <<query, requests, answers, sockets, used, asked, result, queries, junk>>

NoQuery == [pc |-> "idle", q |-> Junk, try |-> 0, server |-> 1, port |-> 0]
NoResult == [state |-> "none", q |-> Junk, of |-> Junk]

DnsInit ==
  /\ query = NoQuery /\ requests = {} /\ answers = {} /\ sockets = {}
  /\ used = [p \in Ports |-> {}] /\ asked = 0
  /\ result = NoResult /\ queries = 0 /\ junk = 0

QAt(pc) == query.pc = pc
Ended(state, answer) == /\ query' = NoQuery
                        /\ result' = [state |-> state, q |-> query.q, of |-> answer]

(* The next server, the next round, or the last error. *)
Further(q) ==
  IF q.server < Len(Servers) THEN [q EXCEPT !.pc = "socket", !.server = @ + 1]
  ELSE IF q.try + 1 < Tries THEN [q EXCEPT !.pc = "socket", !.server = 1, !.try = @ + 1]
  ELSE [q EXCEPT !.pc = "failed"]

dns_query(q) ==
  /\ QAt("idle") /\ queries < MaxQueries
  /\ queries' = queries + 1
  /\ query' = [NoQuery EXCEPT !.pc = "socket", !.q = q]
  /\ asked' = 0
  /\ UNCHANGED <<requests, answers, sockets, used, result, junk>>

dns_socket(p) ==
  /\ QAt("socket") /\ p \notin sockets
  /\ sockets' = sockets \cup {p}
  /\ query' = [query EXCEPT !.pc = "send", !.port = p]
  /\ used' = [used EXCEPT ![p] = @ \cup {query.q}]
  /\ UNCHANGED <<requests, answers, asked, result, queries, junk>>

dns_no_socket ==
  /\ QAt("socket")
  /\ Ended("no_socket", Junk)
  /\ UNCHANGED <<requests, answers, sockets, used, asked, queries, junk>>

(* sendto: the failing one closes the socket. *)
dns_send(sent) ==
  /\ QAt("send") /\ (sent => Servers[query.server] = "v4")
  /\ IF sent
       THEN /\ requests' = requests \cup {[q |-> query.q, port |-> query.port]}
            /\ query' = [query EXCEPT !.pc = "recv"]
            /\ UNCHANGED sockets
       ELSE /\ sockets' = sockets \ {query.port}
            /\ query' = Further(query)
            /\ UNCHANGED requests
  /\ asked' = IF Servers[query.server] = "v4" THEN asked + 1 ELSE asked
  /\ UNCHANGED <<answers, used, result, queries, junk>>

(* recvfrom times out, or gets a packet that is no answer. *)
dns_timeout ==
  /\ QAt("recv")
  /\ sockets' = sockets \ {query.port}
  /\ query' = Further(query)
  /\ UNCHANGED <<requests, answers, used, asked, result, queries, junk>>

(* Mutant: whatever answer is under way is taken. *)
DnsReceiveAny(a, fits) ==
  /\ QAt("recv") /\ a \in answers
  /\ answers' = answers \ {a}
  /\ sockets' = sockets \ {query.port}
  /\ IF a.q = Junk THEN Ended("foreign", Junk) ELSE Ended("answered", a.q)
  /\ UNCHANGED <<requests, used, asked, queries, junk>>

(* recvfrom: a packet with another id ends the query, and so does one too  *)
(* long for the caller's buffer.                                           *)
dns_receive(a, fits) ==
  /\ QAt("recv") /\ a \in answers /\ a.port = query.port
  /\ answers' = answers \ {a}
  /\ sockets' = sockets \ {query.port}
  /\ IF a.q = Junk THEN Ended("foreign", Junk)
     ELSE IF fits THEN Ended("answered", a.q) ELSE Ended("overflow", Junk)
  /\ UNCHANGED <<requests, used, asked, queries, junk>>

dns_failed ==
  /\ QAt("failed")
  /\ Ended("failed", Junk)
  /\ UNCHANGED <<requests, answers, sockets, used, asked, queries, junk>>

-----------------------------------------------------------------------------
(* Servers and network.  A packet for a closed port is dropped when it     *)
(* arrives; until then it may outlive the socket.                          *)

server_answers(r) ==
  /\ r \in requests
  /\ requests' = requests \ {r}
  /\ answers' = answers \cup {r}
  /\ UNCHANGED <<query, sockets, used, asked, result, queries, junk>>

net_loses(m) ==
  /\ m \in requests \cup answers
  /\ requests' = requests \ {m} /\ answers' = answers \ {m}
  /\ UNCHANGED <<query, sockets, used, asked, result, queries, junk>>

net_foreign(p) ==
  /\ p \in sockets /\ junk < MaxJunk
  /\ junk' = junk + 1
  /\ answers' = answers \cup {[q |-> Junk, port |-> p]}
  /\ UNCHANGED <<query, requests, sockets, used, asked, result, queries>>

QueryStep == \/ \E p \in Ports : dns_socket(p)
             \/ \E sent \in BOOLEAN : dns_send(sent)
             \/ dns_timeout \/ dns_failed

DnsNext ==
  \/ QueryStep \/ dns_no_socket
  \/ \E q \in Questions : dns_query(q)
  \/ \E a \in answers, fits \in BOOLEAN : dns_receive(a, fits)
  \/ \E m \in requests \cup answers : server_answers(m) \/ net_loses(m)
  \/ \E p \in Ports : net_foreign(p)

(* The thread that asks gets to run, and its polls time out. *)
DnsFairness == WF_dnsVars(QueryStep)


-----------------------------------------------------------------------------

(* An answer taken for the answer to a query is one, unless the system     *)
(* gave the query a port from which another question was asked before:     *)
(* then a late answer to that question is taken.                           *)
AnswerIsOurs ==
  result.state = "answered" =>
    result.of = result.q \/ \E p \in Ports : {result.q, result.of} \subseteq used[p]

(* No attempt leaves its socket behind, however it ends. *)
NoSocketLeft == sockets = (IF query.pc \in {"send", "recv"} THEN {query.port} ELSE {})

(* A query fails only after every IPv4 server has been tried three times;  *)
(* a foreign packet, one that is too long and a missing socket end it      *)
(* earlier.                                                                *)
AskedEnough ==
  QAt("failed") => asked = Tries * Len(SelectSeq(Servers, LAMBDA s : s = "v4"))

(* Every query ends. *)
QueryEnds == ~QAt("idle") ~> QAt("idle")

-----------------------------------------------------------------------------
(***************************************************************************)
(* Addresses and domain names as text: parse_ipv4 and parse_ipv6 of        *)
(* src/posix/net_utils.cpp, inet_aton and inet_ntop of src/posix/inet.cpp, *)
(* parse_dns_name and expand_dns_name of src/internal/dns.cpp.             *)
(* In an address's text a run of digits is one token, its number.          *)
(***************************************************************************)

CONSTANTS
  NumGroups,      \* groups of an IPv6 address; 8 in the code
  MaxSegments, \* bound: segments of an IPv6 text, empty ones too
  GroupValues, \* values a group is tried with
  PartValues,  \* values a part of an IPv4 text is tried with
  Pads,        \* bytes in a message before the names
  NameRooms    \* sizes of the buffer a name is expanded to

Colon == -1
NotNumber  == -2    \* characters that are no number, or the empty part of a text
None  == <<>>

-----------------------------------------------------------------------------
(* IPv4.  An address is its four bytes, the low one of s_addr first.       *)

Point == -4
INET_ADDRSTRLEN == 16

(* The parts of a text between its points: the number a part is, or        *)
(* NotNumber for any other.                                                *)
PartsOf(t) ==
  LET points == SelectSeq([i \in 1..Len(t) |-> i], LAMBDA i : t[i] = Point)
      ends == <<0>> \o points \o <<Len(t) + 1>>
      part(k) == SubSeq(t, ends[k] + 1, ends[k + 1] - 1)
  IN  [k \in 1..(Len(ends) - 1) |-> IF Len(part(k)) = 1 THEN part(k)[1] ELSE NotNumber]

(* hz::to_integer<uint8_t>: the whole part is a number *)
to_byte(part) == part \in 0..255

(* s_addr after the first n parts: part i is shifted to byte i. *)
Placed(parts, n) == [i \in 1..4 |-> IF i \in 1..n THEN parts[i] ELSE 0]

parse_ipv4(t) ==
  LET parts == PartsOf(t)
  IN  IF Len(parts) = 4 /\ \A i \in 1..4 : to_byte(parts[i]) THEN Placed(parts, 4) ELSE None

(* The last number of a short text: its low byte comes first. *)
ByteOf(num, k) == (num \div 256^k) % 256

inet_aton(t) ==
  LET parts == PartsOf(t)
      n    == Len(parts)
      rest == parts[n]
      Fits == rest >= 0 /\ (n > 1 => rest < 256^(5 - n))
  IN  IF n > 3 THEN parse_ipv4(t)
      ELSE IF Fits /\ \A i \in 1..(n - 1) : to_byte(parts[i])
      THEN [i \in 1..4 |-> IF i < n THEN Placed(parts, n - 1)[i] ELSE ByteOf(rest, i - n)]
      ELSE None

(* inet_ntop of AF_INET: a buffer that could not hold every address is     *)
(* refused (ENOSPC), whatever this one needs.                              *)
inet_ntop4(addr, size) ==
  IF size < INET_ADDRSTRLEN THEN None
  ELSE <<addr[1], Point, addr[2], Point, addr[3], Point, addr[4]>>

-----------------------------------------------------------------------------
(* IPv6 *)

Colons(t) == Cardinality({i \in 1..Len(t) : t[i] = Colon})
CompressedPos(t) ==
  SelectInSubSeq([i \in 1..(Len(t) - 1) |-> t[i] = Colon /\ t[i + 1] = Colon],
                 1, Len(t) - 1, LAMBDA b : b)

(* The groups that "::" stands for. *)
Zeros(t) ==
  LET inside == CompressedPos(t) \notin {1, Len(t) - 1}
  IN  NumGroups - (Colons(t) - 1) - (IF inside THEN 1 ELSE 0)

Outside == <<-3>>   \* a group is written outside the address

RECURSIVE ParseFrom(_, _, _, _)
ParseFrom(t, offset, i, addr) ==
  IF CompressedPos(t) > 0 /\ offset = CompressedPos(t)
  THEN IF i + Zeros(t) = NumGroups THEN addr
       ELSE ParseFrom(t, offset + 2, i + Zeros(t), addr)
  ELSE LET colons == {k \in offset..Len(t) : t[k] = Colon}
           last   == colons = {}
           segEnd == IF last THEN Len(t) + 1 ELSE Min(colons)
       IN  IF segEnd # offset + 1 \/ t[offset] < 0 THEN None
           ELSE IF i >= NumGroups THEN Outside
           ELSE LET a == [addr EXCEPT ![i + 1] = t[offset]]
                IN  IF last THEN IF i + 1 = NumGroups THEN a ELSE None
                    ELSE IF i + 1 = NumGroups THEN None
                    ELSE ParseFrom(t, IF segEnd = CompressedPos(t) THEN segEnd ELSE segEnd + 1,
                                   i + 1, a)

parse_ipv6(t) ==
  IF CompressedPos(t) > 0 /\ Colons(t) - 1 > NumGroups - 1 THEN None
  ELSE ParseFrom(t, 1, 0, [i \in 1..NumGroups |-> 0])

(* to_ne_from_be of a group on a little-endian machine *)
Swapped(v) == (v % 256) * 256 + v \div 256

LeadingZeros(a) == LET nz == {i \in 1..NumGroups : a[i] # 0}
                   IN  IF nz = {} THEN NumGroups ELSE Min(nz) - 1

INET6_ADDRSTRLEN == 46

(* The text inet_ntop leaves in the buffer: zeros in front are compressed, *)
(* no others.  (The pointer it returns is the end of that text.)           *)
inet_ntop6(a, size) ==
  LET z == LeadingZeros(a)
      group(i) == IF i = z + 1 THEN <<Swapped(a[i])>> ELSE <<Colon, Swapped(a[i])>>
  IN  IF size < INET6_ADDRSTRLEN THEN None
      ELSE (IF z > 0 THEN <<Colon, Colon>> ELSE <<>>)
             \o FlattenSeq([k \in 1..(NumGroups - z) |-> group(z + k)])

-----------------------------------------------------------------------------
(* Domain names in a message: a byte is a number, the first at offset 0.   *)

Byte(msg, at) == IF at < Len(msg) THEN msg[at + 1] ELSE 0
IsPointer(len) == len >= 192
Dot == 46

(* uint8_t str_offset: the high six bits of a pointer are lost. *)
Target(msg, at) == ((Byte(msg, at) - 192) * 256 + Byte(msg, at + 1)) % 256

Ensure    == <<-1>>   \* __ensure stops the program
EMSGSIZE  == <<-2>>
EOVERFLOW == <<-3>>

(* A label, and the dot after it if one follows, must fit what is left. *)
LabelRoom(dest, len, dotted, room) ==
  Len(dest) + len + (IF dotted THEN 1 ELSE 0) <= room

RECURSIVE ExpandName(_, _, _, _, _)
ExpandName(msg, at, dest, room, followed) ==
  LET len    == Byte(msg, at)
      dotted == Byte(msg, at + 1 + len) # 0
      label  == SubSeq(msg, at + 2, at + 1 + len)
  IN  IF at >= Len(msg) THEN EMSGSIZE
      ELSE IF IsPointer(len)
      THEN IF followed THEN Ensure ELSE ExpandName(msg, Target(msg, at), dest, room, TRUE)
      ELSE IF len = 0 THEN IF Len(dest) = room THEN EOVERFLOW ELSE Append(dest, 0)
      ELSE IF at + 1 + len > Len(msg) THEN EMSGSIZE
      ELSE IF ~LabelRoom(dest, len, dotted, room) THEN EOVERFLOW
      ELSE ExpandName(msg, at + 1 + len, dest \o label \o (IF dotted THEN <<Dot>> ELSE <<>>),
                  room, followed)

expand_dns_name(msg, at, room) == ExpandName(msg, at, <<>>, room, FALSE)

(* parse_dns_name is the same walk into a string that grows. *)
RECURSIVE ParseName(_, _, _, _)
ParseName(msg, at, name, followed) ==
  LET len    == Byte(msg, at)
      dotted == Byte(msg, at + 1 + len) # 0
  IN  IF IsPointer(len)
      THEN IF followed THEN Ensure ELSE ParseName(msg, Target(msg, at), name, TRUE)
      ELSE IF len = 0 THEN name
      ELSE ParseName(msg, at + 1 + len,
                 name \o SubSeq(msg, at + 2, at + 1 + len) \o (IF dotted THEN <<Dot>> ELSE <<>>),
                 followed)

parse_dns_name(msg, at) == ParseName(msg, at, <<>>, FALSE)

-----------------------------------------------------------------------------
(* Samples *)

(* A text is its parts, some of them empty, with points between them. *)
Parts == {<<v>> : v \in PartValues \cup {NotNumber}} \cup {<<>>}
Ipv4Init == \E p \in UNION {[1..n -> Parts] : n \in 1..5},
               size \in {INET_ADDRSTRLEN - 1, INET_ADDRSTRLEN} :
              sample = [of |-> "ipv4", size |-> size,
                        text |-> FlattenSeq([i \in 1..Len(p) |->
                                   IF i = 1 THEN p[i] ELSE <<Point>> \o p[i]])]

(* A text is its segments, some of them empty, with colons between them. *)
Segments == {<<v>> : v \in GroupValues \cup {NotNumber}} \cup {<<>>}
Ipv6Init == \E g \in UNION {[1..n -> Segments] : n \in 2..MaxSegments} :
              sample = [of |-> "ipv6",
                        text |-> FlattenSeq([i \in 1..Len(g) |->
                                   IF i = 1 THEN g[i] ELSE <<Colon>> \o g[i]])]

GroupInit == \E a \in [1..NumGroups -> GroupValues],
                size \in {INET6_ADDRSTRLEN - 1, INET6_ADDRSTRLEN} :
               sample = [of |-> "groups", addr |-> a, size |-> size]

(* How a server lays out two names: the first in full, labels of one and   *)
(* two letters; the second as labels of its own before a pointer to one of *)
(* the first's labels, or to the second's own end (a pointer to a pointer).*)
Labels == {<<97>>, <<98, 99>>}
LabelBytes(l) == <<Len(l)>> \o l
Encoded(labels) == FlattenSeq([i \in 1..Len(labels) |-> LabelBytes(labels[i])])
LabelSeqs(n) == UNION {[1..k -> Labels] : k \in 0..n}

MessageInit ==
  \E pad \in Pads, first \in LabelSeqs(2) \ {<<>>}, own \in LabelSeqs(1),
     k \in 0..2, chained \in BOOLEAN, room \in NameRooms :
    LET start  == pad + Len(Encoded(SubSeq(first, 1, k)))
        second == pad + Len(Encoded(first)) + 1
        ptr(o) == <<192 + (o \div 256), o % 256>>
        third  == second + Len(Encoded(own)) + 2
    IN  /\ k < Len(first)
        /\ sample = [of     |-> "dns",
                     msg    |-> [i \in 1..pad |-> 0] \o Encoded(first) \o <<0>>
                                  \o Encoded(own) \o ptr(start) \o ptr(second),
                     at     |-> IF chained THEN third ELSE second,
                     target |-> IF chained THEN second ELSE start,
                     chained |-> chained,
                     labels |-> own \o SubSeq(first, k + 1, Len(first)),
                     room   |-> room]

-----------------------------------------------------------------------------
(* parse_ipv4 takes exactly the texts of four bytes, inet_ntop writes the  *)
(* text it took if the buffer could hold any address, and inet_aton reads  *)
(* such a text the same.                                                   *)
DottedReadsBack ==
  sample.of = "ipv4" =>
    LET t == sample.text
        dotted == /\ Len(t) = 7 /\ \A i \in {2, 4, 6} : t[i] = Point
                  /\ \A i \in {1, 3, 5, 7} : t[i] \in 0..255
        back == inet_ntop4(parse_ipv4(t), sample.size)
    IN  /\ (parse_ipv4(t) # None) = dotted
        /\ dotted => /\ back = IF sample.size >= INET_ADDRSTRLEN THEN t ELSE None
                     /\ inet_aton(t) = parse_ipv4(t)

(* inet_aton keeps every part of a short text: the bytes before the last   *)
(* are the parts, and the others hold the whole of the last number.        *)
ShortFormsWhole ==
  sample.of = "ipv4" /\ Len(PartsOf(sample.text)) < 4 /\ inet_aton(sample.text) # None =>
    LET p == PartsOf(sample.text)
        a == inet_aton(sample.text)
        n == Len(p)
    IN  /\ \A i \in 1..(n - 1) : a[i] = p[i]
        /\ p[n] = SumSet({256^(i - n) * a[i] : i \in {j \in n..4 : a[j] # 0}})

(* The groups a text names on both sides of "::". *)
GroupsIn(t) == SelectSeq(t, LAMBDA x : x # Colon)

(* A text parse_ipv6 takes has its groups where they belong: those before  *)
(* "::" first, those behind it last and zeros between, never one outside   *)
(* the address; and a text of all groups, or of some groups and one "::",  *)
(* is taken ("::" alone is not).                                           *)
GroupsInPlace ==
  sample.of = "ipv6" =>
    LET t   == sample.text
        r   == parse_ipv6(t)
        pos == CompressedPos(t)
        gs  == GroupsIn(t)
        before == IF pos = 0 THEN NumGroups ELSE Len(GroupsIn(SubSeq(t, 1, pos - 1)))
        whole  == /\ NotNumber \notin ToSet(t)
                  /\ \A i \in 1..(Len(t) - 1) : t[i] = Colon /\ t[i + 1] = Colon => i = pos
                  /\ t[1] = Colon => pos = 1
                  /\ t[Len(t)] = Colon => pos = Len(t) - 1
                  /\ IF pos = 0 THEN Len(gs) = NumGroups ELSE Len(gs) \in 1..(NumGroups - 1)
    IN  /\ r # Outside
        /\ whole => r # None
        /\ r # None => r = [i \in 1..NumGroups |->
             IF i <= before /\ i <= Len(gs) THEN gs[i]
             ELSE IF i > NumGroups - (Len(gs) - before) THEN gs[Len(gs) - (NumGroups - i)]
             ELSE 0]

(* What inet_ntop leaves in the buffer is read back by parse_ipv6 with the *)
(* bytes of every group exchanged (parse_ipv6 does not swap, inet_ntop     *)
(* does); the text "::" of the address of all zeros is not read back, and  *)
(* neither is what a short buffer is left with.                            *)
GroupsReadBack ==
  sample.of = "groups" =>
    LET text == inet_ntop6(sample.addr, sample.size)
    IN  IF sample.size < INET6_ADDRSTRLEN THEN text = None
        ELSE parse_ipv6(text) = IF \A i \in 1..NumGroups : sample.addr[i] = 0 THEN None
                                ELSE [i \in 1..NumGroups |-> Swapped(sample.addr[i])]

(* The labels with dots between them. *)
Dotted(labels) ==
  FlattenSeq([i \in 1..Len(labels) |->
                IF i = Len(labels) THEN labels[i] ELSE Append(labels[i], Dot)])

(* A name whose pointer is within the first 256 bytes comes out as its     *)
(* labels with dots between them, from both functions; a pointer to a      *)
(* pointer stops the program.                                              *)
NamesWhole ==
  sample.of = "dns" /\ sample.target < 256 =>
    LET name == Dotted(sample.labels)
        e == expand_dns_name(sample.msg, sample.at, sample.room)
    IN  IF sample.chained
        THEN e \in {Ensure, EOVERFLOW} /\ parse_dns_name(sample.msg, sample.at) = Ensure
        ELSE /\ parse_dns_name(sample.msg, sample.at) = name
             /\ e \in {Append(name, 0), EOVERFLOW}

(* An expanded name fits its buffer with its terminator, and only a name   *)
(* that would not is refused as too long.                                  *)
NamesFit ==
  sample.of = "dns" =>
    LET e == expand_dns_name(sample.msg, sample.at, sample.room)
    IN  /\ e \notin {Ensure, EMSGSIZE, EOVERFLOW} => Len(e) <= sample.room
        /\ e = EOVERFLOW /\ sample.target < 256 => Len(Dotted(sample.labels)) + 1 > sample.room

(* An answer that is taken is ours, a query asks long enough, and no       *)
(* attempt leaves its socket behind.                                       *)
QueryIsSound == AnswerIsOurs /\ NoSocketLeft /\ AskedEnough

(* Addresses and names survive the way through their texts and through the *)
(* messages, and what is written fits.                                     *)
NamesReadBack ==
  /\ DottedReadsBack /\ ShortFormsWhole /\ GroupsInPlace /\ GroupsReadBack
  /\ NamesWhole /\ NamesFit

-----------------------------------------------------------------------------
(***************************************************************************)
(* getaddrinfo, freeaddrinfo, getnameinfo and getservbyname of             *)
(* src/posix/netdb.cpp, with the searches of /etc/hosts and /etc/services  *)
(* they make.  A query to a name server (above) is an outcome:             *)
(* whether it failed and the addresses or the name it gave.  A file may    *)
(* not open, and every other system call may fail as well.                 *)
(***************************************************************************)

CONSTANTS
  HostsFile,      \* lines: [ip, hosts], ip one of the next two or NoIp
  V4, V6,         \* addresses that parse_ipv4 and parse_ipv6 accept
  Zero6,          \* the one of V6 that is all zeros
  NoIp,
  ServicesFile,   \* lines: [name, port, rest, aliases], rest the text after the number
  NodeNames,      \* names of nodes; those in V4 are dotted addresses
  ServiceTexts,   \* names of services
  PortOf,         \* per service text: its number, or NoPort
  NoPort,
  FlagSets,       \* ai_flags
  CanonOf,        \* per node name: its canonical name
  DnsAnswers,     \* answers of a name server: sequences of addresses
  NameLen,        \* lengths of the names that are returned
  HostRooms, ServRooms,   \* sizes of a caller's buffers
  MaxArrays       \* bound: arrays of aliases allocated

VARIABLES
  gai,            \* the call of getaddrinfo
  gai_sockets,    \* its sockets
  gai_heap,       \* the blocks it allocated and nobody freed
  gai_res,        \* *res
  gai_asked,      \* history: the files and servers this call consulted
  serv,           \* getservbyname's entry
  serv_heap,      \* its blocks
  serv_bad        \* history: a block was freed that was not allocated

hostVars == <<gai, gai_sockets, gai_heap, gai_res, gai_asked, serv, serv_heap, serv_bad>>
gaiVars == <<gai, gai_sockets, gai_heap, gai_res, gai_asked>>
servVars == <<serv, serv_heap, serv_bad>>

NoName == "null"
IdleCall == [pc |-> "idle"]
NoServent == [line |-> 0, aliases |-> <<>>]

HostInit ==
  /\ gai = IdleCall /\ gai_sockets = {} /\ gai_heap = {} /\ gai_res = <<>> /\ gai_asked = {}
  /\ serv = NoServent /\ serv_heap = [strings |-> {}, arrays |-> 0] /\ serv_bad = FALSE

-----------------------------------------------------------------------------
(* The lines fgets gives: none if the file could not be opened. *)
LinesRead(file, opens) == IF opens THEN file ELSE <<>>

(* The addresses of the right family on the lines that have the name, once *)
(* for every time it is there.                                             *)
resolve_name_in_hosts(name, ipv6, opens) ==
  LET family == IF ipv6 THEN V6 ELSE V4
      read == LinesRead(HostsFile, opens)
      line(i) == LET l == read[i]
                     named == SelectSeq(l.hosts, LAMBDA h : h = name)
                 IN IF l.ip \in family THEN [k \in 1..Len(named) |-> l.ip] ELSE <<>>
  IN FlattenSeq([i \in 1..Len(read) |-> line(i)])

(* The first host of the first line with the address that has one. *)
resolve_addr_in_hosts(ip, opens) ==
  LET lines == {i \in 1..Len(LinesRead(HostsFile, opens)) :
                  HostsFile[i].ip = ip /\ HostsFile[i].hosts # <<>>}
  IN IF lines = {} THEN NoName
     ELSE HostsFile[CHOOSE i \in lines : \A j \in lines : i <= j].hosts[1]

(* What a line says of a service: by its own name the text after the       *)
(* number is compared without its first character, by an alias whole.      *)
ByOwnName(l, name, proto) == l.name = name /\ Tail(l.rest) = <<"/", proto>>
ByAlias(l, name, proto) == name \in ToSet(l.aliases) /\ l.rest = <<"/", proto>>

LinesOf(name, tcp, opens) ==
  LET proto == IF tcp THEN "tcp" ELSE "udp"
  IN {i \in 1..Len(LinesRead(ServicesFile, opens)) :
        ByOwnName(ServicesFile[i], name, proto) \/ ByAlias(ServicesFile[i], name, proto)}

resolve_name_in_services(name, tcp, opens) ==
  LET lines == LinesOf(name, tcp, opens)
  IN IF lines = {} THEN NoPort
     ELSE ServicesFile[CHOOSE i \in lines : \A j \in lines : i <= j].port

resolve_port_in_services(port, opens) ==
  LET lines == {i \in 1..Len(LinesRead(ServicesFile, opens)) : ServicesFile[i].port = port}
  IN IF lines = {} THEN NoName
     ELSE ServicesFile[CHOOSE i \in lines : \A j \in lines : i <= j].name

-----------------------------------------------------------------------------
(* getaddrinfo *)

GaiAt(pc) == gai.pc = pc
GaiGoto(pc) == gai' = [gai EXCEPT !.pc = pc]
GaiReturn(err) == gai' = [gai EXCEPT !.pc = "returned", !.err = err]

gai_call(node, service, family, flags, socktype) ==
  /\ GaiAt("idle")
  /\ gai' = [pc |-> IF node = NoName /\ service = NoName THEN "returned"
                    ELSE IF "ADDRCONFIG" \in flags THEN "socket4" ELSE "node",
             err |-> IF node = NoName /\ service = NoName THEN "EAI_NONAME" ELSE "none",
             node |-> node, service |-> service, family |-> family, flags |-> flags,
             socktype |-> socktype, use_ipv4 |-> family \in {"inet", "unspec"},
             ips |-> <<>>, dns |-> <<>>, name |-> NoName, port |-> 0]
  /\ gai_asked' = {}
  /\ UNCHANGED <<gai_sockets, gai_heap, gai_res>>

(* AI_ADDRCONFIG: whether a datagram socket can be connected to the        *)
(* loopback address.  IPv6 is probed, and not used in any case.            *)
gai_socket(fails) ==
  \E v \in {4, 6} :
    /\ GaiAt(IF v = 4 THEN "socket4" ELSE "socket6")
    /\ IF fails
         THEN /\ gai' = [gai EXCEPT !.pc = IF v = 4 THEN "socket6" ELSE "node",
                                    !.use_ipv4 = @ /\ v # 4]
              /\ UNCHANGED gai_sockets
         ELSE /\ GaiGoto(IF v = 4 THEN "connect4" ELSE "connect6")
              /\ gai_sockets' = gai_sockets \cup {v}
    /\ UNCHANGED <<gai_heap, gai_res, gai_asked>>

gai_connect(fails) ==
  \E v \in {4, 6} :
    /\ GaiAt(IF v = 4 THEN "connect4" ELSE "connect6")
    /\ gai' = [gai EXCEPT !.pc = IF v = 4 THEN "socket6" ELSE "node",
                          !.use_ipv4 = @ /\ ~(v = 4 /\ fails)]
    /\ gai_sockets' = gai_sockets \ {v}
    /\ UNCHANGED <<gai_heap, gai_res, gai_asked>>

(* No node: the wildcard or the loopback address, when IPv4 is usable. *)
gai_no_node ==
  /\ GaiAt("node") /\ gai.node = NoName
  /\ gai' = [gai EXCEPT !.pc = "service",
               !.ips = IF ~gai.use_ipv4 THEN <<>>
                       ELSE <<IF "PASSIVE" \in gai.flags THEN "any" ELSE "loopback">>]
  /\ UNCHANGED <<gai_sockets, gai_heap, gai_res, gai_asked>>

(* AI_NUMERICHOST: only a dotted address, and only when IPv4 is usable. *)
gai_numeric ==
  /\ GaiAt("node") /\ gai.node # NoName /\ "NUMERICHOST" \in gai.flags
  /\ IF gai.use_ipv4 /\ gai.node \in V4
       THEN gai' = [gai EXCEPT !.pc = "service", !.ips = <<gai.node>>]
       ELSE GaiReturn("EAI_NONAME")
  /\ UNCHANGED <<gai_sockets, gai_heap, gai_res, gai_asked>>

(* A query for the canonical name either finds one or leaves the name. *)
resolve_canon_dns(name, found) == IF found THEN CanonOf[name] ELSE name

(* The name that is looked up: with AI_CANONNAME the canonical one. *)
gai_name(found) ==
  /\ GaiAt("node") /\ gai.node # NoName /\ "NUMERICHOST" \notin gai.flags
  /\ LET canon == "CANONNAME" \in gai.flags
     IN /\ gai' = [gai EXCEPT !.pc = "lookup",
                     !.name = IF canon THEN resolve_canon_dns(gai.node, found) ELSE gai.node]
        /\ gai_asked' = IF canon THEN gai_asked \cup {"dns"} ELSE gai_asked
  /\ UNCHANGED <<gai_sockets, gai_heap, gai_res>>

(* resolve_name_dns: the addresses that came before a failure are kept. *)
resolve_name_dns(ips, failed) ==
  IF failed THEN "EAI_FAIL" ELSE IF ips # <<>> THEN "none" ELSE "EAI_NONAME"

(* The servers are asked after the file, and whatever the file has. *)
gai_lookup(answer, failed, opens) ==
  /\ GaiAt("lookup")
  /\ LET ips == IF gai.use_ipv4
                  THEN resolve_name_in_hosts(gai.name, FALSE, opens)
                         \o SelectSeq(answer, LAMBDA ip : ip \in V4)
                  ELSE <<>>
     IN gai' = IF ips # <<>>
                 THEN [gai EXCEPT !.pc = "service", !.ips = ips, !.dns = answer]
                 ELSE [gai EXCEPT !.pc = "returned",
                         !.err = IF gai.use_ipv4 THEN resolve_name_dns(ips, failed) ELSE "EAI_NONAME"]
  /\ gai_asked' = IF ~gai.use_ipv4 THEN gai_asked
                  ELSE gai_asked \cup {"dns"} \cup (IF opens THEN {"hosts"} ELSE {})
  /\ UNCHANGED <<gai_sockets, gai_heap, gai_res>>

(* A number is a port with or without AI_NUMERICSERV; a name is looked up  *)
(* for the kind of socket, and then decides it.                            *)
gai_service(opens) ==
  /\ GaiAt("service")
  /\ LET text == gai.service
         tcp == gai.socktype \in {"stream", "any"}
         port == resolve_name_in_services(text, tcp, opens)
     IN CASE text = NoName -> GaiGoto("build") /\ UNCHANGED gai_asked
          [] text # NoName /\ PortOf[text] # NoPort ->
               gai' = [gai EXCEPT !.pc = "build", !.port = PortOf[text]] /\ UNCHANGED gai_asked
          [] text # NoName /\ PortOf[text] = NoPort /\ "NUMERICSERV" \in gai.flags ->
               GaiReturn("EAI_NONAME") /\ UNCHANGED gai_asked
          [] OTHER -> /\ gai_asked' = gai_asked \cup (IF opens THEN {"services"} ELSE {})
                      /\ gai' = IF port = NoPort
                                  THEN [gai EXCEPT !.pc = "returned", !.err = "EAI_SERVICE"]
                                  ELSE [gai EXCEPT !.pc = "build", !.port = port,
                                          !.socktype = IF tcp THEN "stream" ELSE "dgram"]
  /\ UNCHANGED <<gai_sockets, gai_heap, gai_res>>

(* The list: an entry, an address and a copy of the name for every address. *)
gai_build ==
  /\ GaiAt("build")
  /\ LET named == gai.name # NoName
         kinds == {"addr", "info"} \cup (IF named THEN {"canon"} ELSE {})
     IN /\ gai_heap' = gai_heap \cup (kinds \X (1..Len(gai.ips)))
        /\ gai_res' = [i \in 1..Len(gai.ips) |->
                         [ip |-> gai.ips[i], port |-> gai.port, canon |-> named]]
  /\ GaiReturn("none")
  /\ UNCHANGED <<gai_sockets, gai_asked>>

freeaddrinfo ==
  /\ GaiAt("returned")
  /\ gai_heap' = gai_heap \ UNION {{<<"addr", i>>, <<"info", i>>}
                                   \cup (IF gai_res[i].canon THEN {<<"canon", i>>} ELSE {}) :
                                     i \in 1..Len(gai_res)}
  /\ gai_res' = <<>> /\ gai' = IdleCall
  /\ UNCHANGED <<gai_sockets, gai_asked>>

-----------------------------------------------------------------------------
(* getservbyname *)

(* The array of aliases, one entry longer: two entries at first, then a    *)
(* copy with the null pointer behind the new alias.                        *)
AliasArray(array, count, alias) ==
  [k \in 1..count + 2 |-> IF k <= count THEN array[k] ELSE IF k = count + 1 THEN alias
                          ELSE NoName]

Aliases(l) == FoldLeft(LAMBDA array, k : AliasArray(array, k - 1, l.aliases[k]), <<>>,
                       [k \in 1..Len(l.aliases) |-> k])

(* The strings of the entry; the aliases are those in front of the null.   *)
AliasesHeld(array) ==
  LET nulls == {k \in 1..Len(array) : array[k] = NoName}
  IN IF nulls = {} THEN 1..Len(array)
     ELSE 1..(CHOOSE k \in nulls : \A j \in nulls : k <= j) - 1
StringsOf(entry) ==
  IF entry.line = 0 THEN {}
  ELSE {<<"name", 0>>, <<"proto", 0>>} \cup {<<"alias", k>> : k \in AliasesHeld(entry.aliases)}

(* Frees the entry of the call before and fills it anew from the first     *)
(* line of that name and protocol; the arrays that were outgrown are lost. *)
getservbyname(name, proto, opens) ==
  LET kept == serv_heap.strings \ StringsOf(serv)
      arrays == serv_heap.arrays - (IF serv.aliases = <<>> THEN 0 ELSE 1)
      lines == {i \in 1..Len(ServicesFile) :
                  /\ opens /\ ServicesFile[i].name = name
                  /\ proto = NoName \/ Tail(ServicesFile[i].rest) = <<proto>>}
      i == CHOOSE k \in lines : \A j \in lines : k <= j
      entry == [line |-> i, aliases |-> Aliases(ServicesFile[i])]
  IN /\ serv_bad' = (serv_bad \/ ~(StringsOf(serv) \subseteq serv_heap.strings))
     /\ IF lines = {}
          THEN /\ serv' = NoServent
               /\ serv_heap' = [strings |-> kept, arrays |-> arrays]
          ELSE /\ arrays + Len(ServicesFile[i].aliases) <= MaxArrays
               /\ serv' = entry
               /\ serv_heap' = [strings |-> kept \cup {<<"name", 0>>, <<"proto", 0>>}
                                   \cup {<<"alias", k>> : k \in 1..Len(ServicesFile[i].aliases)},
                                arrays |-> arrays + Len(ServicesFile[i].aliases)]

GaiNext ==
  /\ \/ \E node \in NodeNames \cup {NoName}, service \in ServiceTexts \cup {NoName},
          family \in {"inet", "inet6", "unspec"}, socktype \in {"any", "stream", "dgram"},
          flags \in FlagSets : gai_call(node, service, family, flags, socktype)
     \/ \E fails \in BOOLEAN : gai_socket(fails) \/ gai_connect(fails)
     \/ gai_no_node \/ gai_numeric
     \/ \E found \in BOOLEAN : gai_name(found)
     \/ \E answer \in DnsAnswers, failed \in BOOLEAN, opens \in BOOLEAN :
          gai_lookup(answer, failed, opens)
     \/ \E opens \in BOOLEAN : gai_service(opens)
     \/ gai_build \/ freeaddrinfo
  /\ UNCHANGED servVars

ServNext ==
  /\ \E name \in ServiceTexts, proto \in {NoName, "tcp", "udp"}, opens \in BOOLEAN :
       getservbyname(name, proto, opens)
  /\ UNCHANGED gaiVars

-----------------------------------------------------------------------------
(* getnameinfo *)

NameFits(name, room) == room >= NameLen[name] + 1

(* A reverse query writes the name it finds itself.  That of an IPv6       *)
(* address is made from the address's text, which parse_ipv6 must take:    *)
(* that of all zeros stops the program (GroupsReadBack).                   *)
resolve_addr_dns(ip, dns, room) ==
  CASE ip = Zero6 -> "panic"
    [] ip # Zero6 /\ dns = "none" -> "EAI_NONAME"
    [] ip # Zero6 /\ dns = "fail" -> "EAI_FAIL"
    [] OTHER -> IF NameFits(dns, room) THEN "none" ELSE "EAI_OVERFLOW"

(* The address's own text; its buffer has the size for an IPv6 address. *)
TextOf(ip) == IF ip \in V6 THEN "coloned" ELSE "dotted"

(* The host: the first name of the address in /etc/hosts, else that of the *)
(* servers, else, unless a name is required, the address itself.           *)
HostText(ip, host_len, flags, dns, opens) ==
  LET local == resolve_addr_in_hosts(ip, opens)
      err == resolve_addr_dns(ip, dns, host_len)
      copied(name) == [host |-> IF NameFits(name, host_len) THEN name ELSE NoName,
                       err |-> IF NameFits(name, host_len) THEN "none" ELSE "EAI_OVERFLOW"]
      asks == "NUMERICHOST" \notin flags
  IN IF asks /\ local # NoName THEN copied(local)
     ELSE IF asks /\ err # "EAI_NONAME"
       THEN [host |-> IF err = "none" THEN dns ELSE NoName, err |-> err]
     ELSE IF "NAMEREQD" \in flags THEN [host |-> NoName, err |-> "EAI_NONAME"]
     ELSE copied(TextOf(ip))

(* What getnameinfo writes of a port and an address into buffers of the    *)
(* given sizes (0: not asked for): the service first.  NoIp is a sockaddr  *)
(* of another family, or too short for its own.  A stream is left open     *)
(* when the service is found by its port.                                  *)
getnameinfo(ip, port, host_len, serv_len, flags, dns, files) ==
  LET text == resolve_port_in_services(port, "services" \in files)
      named == "NUMERICSERV" \notin flags /\ text # NoName
      service == IF serv_len = 0 THEN NoName ELSE IF named THEN text ELSE "number"
      open == IF serv_len > 0 /\ named THEN 1 ELSE 0
      node == IF host_len = 0 THEN [host |-> NoName, err |-> "none"]
              ELSE HostText(ip, host_len, flags, dns, "hosts" \in files)
  IN IF ip = NoIp
       THEN [err |-> "EAI_FAMILY", serv |-> NoName, host |-> NoName, open |-> 0]
     ELSE IF service # NoName /\ ~NameFits(service, serv_len)
       THEN [err |-> "EAI_OVERFLOW", serv |-> NoName, host |-> NoName, open |-> open]
       ELSE [err |-> node.err, serv |-> service, host |-> node.host, open |-> open]

NameinfoInit ==
  \E ip \in V4 \cup V6 \cup {NoIp}, port \in {l.port : l \in ToSet(ServicesFile)} \cup {1},
     host_len \in HostRooms, serv_len \in ServRooms,
     flags \in SUBSET {"NUMERICHOST", "NUMERICSERV", "NAMEREQD"},
     dns \in {"none", "fail", "farname"}, files \in SUBSET {"hosts", "services"} :
    sample = [of |-> "nameinfo", ip |-> ip, port |-> port, host_len |-> host_len,
              serv_len |-> serv_len, flags |-> flags, dns |-> dns, files |-> files]

-----------------------------------------------------------------------------
(* Between calls nothing of getaddrinfo is left: its sockets are closed    *)
(* whichever way a probe ends, an error return has allocated nothing, and  *)
(* freeaddrinfo frees all that a successful call allocated.                *)
NothingKept ==
  /\ GaiAt("idle") => gai_heap = {} /\ gai_sockets = {}
  /\ GaiAt("returned") /\ gai.err # "none" => gai_heap = {} /\ gai_res = <<>>
  /\ GaiAt("node") => gai_sockets = {}

(* With AI_NUMERICHOST neither a file nor a server is asked for the node.  *)
NumericAsksNobody ==
  ~GaiAt("idle") /\ "NUMERICHOST" \in gai.flags => gai_asked \subseteq {"services"}

(* A successful call gives addresses of the name it looked up (the         *)
(* canonical one if asked for), those of /etc/hosts in front if it opened, *)
(* the addresses of the servers included although the file had some; and it    *)
(* gives at least one, unless no node was named and IPv4 is not usable.    *)
AddressesOfName ==
  GaiAt("returned") /\ gai.err = "none" =>
    LET given == {gai_res[i].ip : i \in 1..Len(gai_res)}
        named == {h \in ToSet(HostsFile) : gai.name \in ToSet(h.hosts)}
        file == IF "hosts" \in gai_asked THEN {l.ip : l \in named} \cap V4 ELSE {}
    IN /\ gai_res = <<>> => gai.node = NoName /\ ~gai.use_ipv4
       /\ gai.name # NoName => /\ given = file \cup (ToSet(gai.dns) \cap V4)
                               /\ file # {} => gai_res[1].ip \in file
       /\ \A i \in 1..Len(gai_res) : gai_res[i].port = gai.port

(* The port of a named service is that of a line which has the name as an  *)
(* alias for this protocol, or as its own name when a character comes      *)
(* between the number and the protocol; a service that no line has as an   *)
(* alias is unknown to getaddrinfo in a well-formed file, although         *)
(* getservbyname knows it by its own name.                                 *)
ServiceByAlias ==
  ~GaiAt("idle") /\ "services" \in gai_asked =>
    LET proto == IF gai.socktype = "dgram" THEN "udp" ELSE "tcp"
        whole == {l \in ToSet(ServicesFile) : l.rest = <<"/", proto>>}
    IN /\ gai.err = "none" =>
            \E l \in ToSet(ServicesFile) :
              /\ l.port = gai.port /\ Last(l.rest) = proto
              /\ IF l \in whole THEN gai.service \in ToSet(l.aliases)
                                ELSE gai.service = l.name
       /\ gai.err = "EAI_SERVICE" =>
            \A l \in whole : gai.service \notin ToSet(l.aliases)

(* The entry of getservbyname has the aliases of its line up to a null     *)
(* pointer (no array at all when there are none); the strings that are     *)
(* allocated are those of the entry, so none is lost or freed twice.       *)
ServentWhole ==
  /\ ~serv_bad
  /\ serv_heap.strings = StringsOf(serv)
  /\ serv.line # 0 =>
       LET names == ServicesFile[serv.line].aliases
       IN serv.aliases = IF names = <<>> THEN <<>> ELSE Append(names, NoName)

(* getnameinfo writes what was asked for and only what fits with its       *)
(* terminator; it fails for a buffer only if the text does not fit, and    *)
(* for a missing name only if the caller requires one.  It stops the       *)
(* program only for the IPv6 address of all zeros, when that is to be      *)
(* looked up and /etc/hosts does not have it; and a stream is left open    *)
(* only if the service was found by its port.                              *)
NameinfoFits ==
  sample.of = "nameinfo" =>
    LET out == getnameinfo(sample.ip, sample.port, sample.host_len, sample.serv_len,
                           sample.flags, sample.dns, sample.files)
    IN /\ out.serv # NoName => NameLen[out.serv] < sample.serv_len
       /\ out.host # NoName => NameLen[out.host] < sample.host_len
       /\ out.err = "none" => /\ (out.serv # NoName) = (sample.serv_len > 0)
                              /\ (out.host # NoName) = (sample.host_len > 0)
       /\ out.err = "EAI_NONAME" => "NAMEREQD" \in sample.flags
       /\ sample.host_len > 7 /\ sample.serv_len > 3 => out.err # "EAI_OVERFLOW"
       /\ out.err = "panic" => /\ sample.ip = Zero6 /\ sample.host_len > 0
                               /\ "NUMERICHOST" \notin sample.flags
       /\ out.open > 0 => out.err = "EAI_OVERFLOW" \/ out.serv \notin {NoName, "number"}

(* Hosts and services are looked up as asked, and what is returned is of   *)
(* the name and fits.  What a call needs for itself is released again, but *)
(* for the stream of a service that getnameinfo finds by its port and the  *)
(* arrays of aliases that getservbyname outgrows.                          *)
HostsFound ==
  /\ NothingKept /\ NumericAsksNobody /\ AddressesOfName /\ ServiceByAlias
  /\ ServentWhole /\ NameinfoFits
=============================================================================

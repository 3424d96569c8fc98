----------------------------- MODULE MCLibrary -----------------------------
(* The services of the C library, for TLC.  The modules share no state, so *)
(* a behaviour is a behaviour of one of them, its focus; the variables of  *)
(* the others keep their first value.                                      *)
EXTENDS Resolver, Syslog, FileStream, Environment, Databases, Directory

CONSTANTS nameA, nameB, root, joe

VARIABLE focus

MCServers == <<"v6", "v4">>
MCContent == <<1, 0, 1>>
Entry(n, v) == [name |-> n, val |-> v, str |-> 0]
MCStartups == {<<>>, <<Entry(nameA, 1)>>, <<Entry(nameA, 1), Entry(nameB, 1)>>,
               <<Entry(nameB, 1), Entry(nameA, 1), Entry(nameA, 2)>>}
MCPasswd == <<root, Malformed, joe>>
MCDirEntries == <<20, 40, 30, 10>>

(* Groups: a line with two members, one that has three segments, one with  *)
(* a name longer than its pointers and no member, one whose id is no       *)
(* number, and one with the id of the first.                               *)
MCGroupFile ==
  << << <<1>>, <<2, 2>>, 1, << <<7>>, <<8, 8>> >> >>,
     << <<3>>, <<>>, 2 >>,
     << <<1, 2, 3, 4, 5, 6>>, <<>>, 2, << <<>> >> >>,
     << <<4>>, <<>>, -1, << <<7>> >> >>,
     << <<5>>, <<2>>, 1, << <<8, 8>>, <<9>>, <<7>> >> >> >>
MCNoNumber == -1
MCGroupKeys == [nam |-> {<<1>>, <<1, 2, 3, 4, 5, 6>>, <<4>>, <<5>>}, gid |-> {1, 2}]
MCGroupUsers == {<<7>>, <<9>>, <<>>, <<6>>}

(* Host lookup: a name on two lines of the file, a line for IPv6, one      *)
(* without a host; services by alias, by name, and one whose protocol      *)
(* comes a character late.                                                 *)
MCHosts == <<[ip |-> "127.1", hosts |-> <<"near", "box">>], [ip |-> "fe80", hosts |-> <<"box">>],
             [ip |-> "10.1", hosts |-> <<>>], [ip |-> "10.1", hosts |-> <<"box", "box">>],
             [ip |-> NoIp, hosts |-> <<"far">>]>>
MCServices == <<[name |-> "web", port |-> 80, rest |-> <<"/", "tcp">>, aliases |-> <<"www", "w3", "w">>],
                [name |-> "www", port |-> 81, rest |-> <<"/", "udp">>, aliases |-> <<>>],
                [name |-> "odd", port |-> 7, rest |-> <<"x", "/", "tcp">>, aliases |-> <<"www">>],
                [name |-> "web", port |-> 82, rest |-> <<"/", "udp">>, aliases |-> <<"www">>]>>
MCPortOf == [web |-> -1, www |-> -1, odd |-> -1, w |-> -1, n80 |-> 80]
MCCanonOf == [near |-> "near", box |-> "box", far |-> "box"] @@ [d \in {"10.1"} |-> d]
MCAnswers == {<<>>, <<"10.1">>, <<"fe80", "10.2">>}
MCNoPort == -1
MCNameLen == [web |-> 3, www |-> 3, odd |-> 3, number |-> 2, near |-> 4, box |-> 3,
              farname |-> 7, dotted |-> 4, coloned |-> 6]
MCFlagSets == {{}, {"ADDRCONFIG"}, {"NUMERICHOST"}, {"NUMERICHOST", "ADDRCONFIG"}, {"CANONNAME"},
               {"PASSIVE", "NUMERICSERV"}, {"CANONNAME", "ADDRCONFIG", "NUMERICSERV"}}

serviceVars == <<dnsVars, logVars, dbVars, grVars, hostVars>>
fileVars == <<streamVars, envVars, dirVars>>

(* Functions without state: their inputs are initial states. *)
Sampled == {"area", "grouplist", "nameinfo", "sort", "ipv4", "ipv6", "groups", "dnsname"}

Stepped == {"dns", "log", "stream", "env", "db", "groups_db", "hosts", "services", "dir"}

MCInit ==
  /\ focus \in Stepped \cup Sampled
  /\ \/ focus = "area" /\ AreaInit
     \/ focus = "grouplist" /\ ListInit
     \/ focus = "nameinfo" /\ NameinfoInit
     \/ focus = "sort" /\ SortInit
     \/ focus = "ipv4" /\ Ipv4Init
     \/ focus = "ipv6" /\ Ipv6Init
     \/ focus = "groups" /\ GroupInit
     \/ focus = "dnsname" /\ MessageInit
     \/ focus \notin Sampled /\ NoSample
  /\ DnsInit
  /\ LogInit /\ (focus # "log" => daemon /\ ~log_cons)
  /\ StreamInit
  /\ EnvInit /\ (focus # "env" => env = <<>>)
  /\ DbInit /\ GrInit /\ HostInit
  /\ DirInit /\ (focus # "dir" => ~narrow)

ServiceNext ==
  /\ UNCHANGED <<focus, sample, fileVars>>
  /\ \/ focus = "dns" /\ DnsNext /\ UNCHANGED <<logVars, dbVars, grVars, hostVars>>
     \/ focus = "log" /\ LogNext /\ UNCHANGED <<dnsVars, dbVars, grVars, hostVars>>
     \/ focus = "db" /\ DbNext /\ UNCHANGED <<dnsVars, logVars, grVars, hostVars>>
     \/ focus = "groups_db" /\ GrNext /\ UNCHANGED <<dnsVars, logVars, dbVars, hostVars>>
     \/ focus = "hosts" /\ GaiNext /\ UNCHANGED <<dnsVars, logVars, dbVars, grVars>>
     \/ focus = "services" /\ ServNext /\ UNCHANGED <<dnsVars, logVars, dbVars, grVars>>

FileNext ==
  /\ UNCHANGED <<focus, sample, serviceVars>>
  /\ \/ focus = "stream" /\ StreamNext /\ UNCHANGED <<envVars, dirVars>>
     \/ focus = "env" /\ EnvNext /\ UNCHANGED <<streamVars, dirVars>>
     \/ focus = "dir" /\ DirNext /\ UNCHANGED <<streamVars, envVars>>

MCNext ==
  \/ ServiceNext
  \/ FileNext

MCSpec == MCInit /\ [][MCNext]_<<focus, sample, serviceVars, fileVars>>

-----------------------------------------------------------------------------
(* Streams and directories hand on what the files hold, once and in order  *)
(* (fread, ungetc, fseek, freopen, fclose, readdir, scandir).              *)
FilesRead == StreamIsSound /\ []DirectoryRead

(* Names of hosts and services are resolved to addresses of theirs, by     *)
(* queries that take no foreign answer (getaddrinfo, getnameinfo,          *)
(* getservbyname, the queries and texts of addresses).                     *)
NamesResolved == QueryIsSound /\ NamesReadBack /\ HostsFound
=============================================================================

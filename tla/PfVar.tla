---------------------------------- MODULE PfVar ----------------------------------
(***************************************************************************)
(* What src/originaldest/darwin/include/net/pfvar.h computes: comparison   *)
(* of addresses, packing of numbers, and the conversion of states for user *)
(* space.  On darwin the request of GetOriginalDst                         *)
(* (src/originaldest/originaldest_darwin.go) is looked up with it.         *)
(***************************************************************************)
EXTENDS Integers, Sequences

Word == {x \in Nat : x < 65536}         \* u_int16_t
Long == {x \in Nat : x < 4294967296}    \* u_int32_t
Byte8 == {x \in Nat : x < 256}          \* u_int8_t

(***************************************************************************)
(* Addresses: four 32-bit words, of which IPv4 uses the first.             *)
(***************************************************************************)
pf_addr == [0 .. 3 -> Long]
Families == {"AF_INET", "AF_INET6"}
Builds == {"PF_INET_INET6", "PF_INET6_ONLY", "PF_INET_ONLY"}

\* The macros of the build for both families: IPv4 is an additional way to be
\* true, never a way to be false.
Both_AEQ(a, b, c) ==
    \/ c = "AF_INET" /\ a[0] = b[0]
    \/ a[3] = b[3] /\ a[2] = b[2] /\ a[1] = b[1] /\ a[0] = b[0]
Both_ANEQ(a, b, c) ==
    \/ c = "AF_INET" /\ a[0] # b[0]
    \/ a[3] # b[3] \/ a[2] # b[2] \/ a[1] # b[1] \/ a[0] # b[0]
Both_ALEQ(a, b, c) ==
    \/ c = "AF_INET" /\ a[0] <= b[0]
    \/ a[3] <= b[3] /\ a[2] <= b[2] /\ a[1] <= b[1] /\ a[0] <= b[0]
Both_AZERO(a, c) ==
    \/ c = "AF_INET" /\ a[0] = 0
    \/ a[0] = 0 /\ a[1] = 0 /\ a[2] = 0 /\ a[3] = 0

\* Those of the build for IPv6 only.
Six_AEQ(a, b) == \A i \in 0 .. 3 : a[i] = b[i]
Six_ANEQ(a, b) == \E i \in 0 .. 3 : a[i] # b[i]
Six_ALEQ(a, b) == \A i \in 0 .. 3 : a[i] <= b[i]
Six_AZERO(a) == \A i \in 0 .. 3 : a[i] = 0

\* Those of the build for IPv4 only.
Four_AEQ(a, b) == a[0] = b[0]
Four_ANEQ(a, b) == a[0] # b[0]
Four_ALEQ(a, b) == a[0] <= b[0]
Four_AZERO(a) == a[0] = 0

PF_AEQ(build, a, b, c) ==
    \/ build = "PF_INET_INET6" /\ Both_AEQ(a, b, c)
    \/ build = "PF_INET6_ONLY" /\ Six_AEQ(a, b)
    \/ build = "PF_INET_ONLY" /\ Four_AEQ(a, b)
PF_ANEQ(build, a, b, c) ==
    \/ build = "PF_INET_INET6" /\ Both_ANEQ(a, b, c)
    \/ build = "PF_INET6_ONLY" /\ Six_ANEQ(a, b)
    \/ build = "PF_INET_ONLY" /\ Four_ANEQ(a, b)
PF_ALEQ(build, a, b, c) ==
    \/ build = "PF_INET_INET6" /\ Both_ALEQ(a, b, c)
    \/ build = "PF_INET6_ONLY" /\ Six_ALEQ(a, b)
    \/ build = "PF_INET_ONLY" /\ Four_ALEQ(a, b)
PF_AZERO(build, a, c) ==
    \/ build = "PF_INET_INET6" /\ Both_AZERO(a, c)
    \/ build = "PF_INET6_ONLY" /\ Six_AZERO(a)
    \/ build = "PF_INET_ONLY" /\ Four_AZERO(a)

\* PF_MISMATCHAW.  is holds the answers of the functions it calls for the address.
PF_MISMATCHAW(type, is, neg) ==
    (\/ type = "PF_ADDR_NOROUTE" /\ is.routable
     \/ type = "PF_ADDR_URPFFAILED" /\ is.interface /\ is.routableBy
     \/ type = "PF_ADDR_RTLABEL" /\ ~is.labelled
     \/ type = "PF_ADDR_TABLE" /\ ~is.inTable
     \/ type = "PF_ADDR_DYNIFTL" /\ ~is.ofInterface
     \/ type = "PF_ADDR_RANGE" /\ ~is.inRange
     \/ type = "PF_ADDR_ADDRMASK" /\ ~is.maskZero /\ ~is.inNetwork) # neg

(***************************************************************************)
(* The request of GetOriginalDst: new() zeroes it, copy fills the first 4  *)
(* of 16 bytes of each address, PutUint16 the first 2 of 4 of each port.   *)
(***************************************************************************)
V4(word) == [i \in 0 .. 3 |-> IF i = 0 THEN word ELSE 0]
\* The union of a 16-bit port and a 32-bit spi: the port in network order.
Xport(port) == [port |-> port, call_id |-> port, spi |-> port]
pfioc_natlook ==
    LET xport == [port : Word, call_id : Word, spi : Long]
    IN  [saddr : pf_addr, daddr : pf_addr, rsaddr : pf_addr, rdaddr : pf_addr,
         sxport : xport, dxport : xport, rsxport : xport, rdxport : xport,
         af : Families, proto : Byte8, proto_variant : Byte8, direction : Byte8]
IPPROTO_TCP == 6
PF_OUT == 2
NatLook(client, local) ==
    [saddr |-> V4(client.addr), daddr |-> V4(local.addr),
     rsaddr |-> V4(0), rdaddr |-> V4(0),
     sxport |-> Xport(client.port), dxport |-> Xport(local.port),
     rsxport |-> Xport(0), rdxport |-> Xport(0),
     af |-> "AF_INET", proto |-> IPPROTO_TCP, proto_variant |-> 0, direction |-> PF_OUT]

(***************************************************************************)
(* Operating system fingerprints                                           *)
(***************************************************************************)
PF_OSFP_ANY == 0
PF_OSFP_UNKNOWN == 4294967295
PF_OSFP_NOMATCH == 4294967294
\* Three fields of 10 bits.
FIELD == 1024
PF_OSFP_PACK(class, version, subtype) ==
    ((class % FIELD) * FIELD * FIELD) + ((version % FIELD) * FIELD) + (subtype % FIELD)
PF_OSFP_UNPACK(osfp) ==
    [class |-> (osfp \div (FIELD * FIELD)) % FIELD,
     version |-> (osfp \div FIELD) % FIELD,
     subtype |-> osfp % FIELD]

(***************************************************************************)
(* States for user space                                                   *)
(***************************************************************************)
pf_state_scrub == [pfss_flags : Word, pfss_ttl : Byte8, pfss_ts_mod : Long]
\* scrub is a pointer, which scrubbed says is not NULL.
pf_state_peer ==
    [seqlo : Long, seqhi : Long, seqdiff : Long, max_win : Word, state : Byte8,
     wscale : Byte8, mss : Word, tcp_est : Byte8, scrub : pf_state_scrub,
     scrubbed : BOOLEAN]
\* scrub_flag tells whether the state had a scrub.
pfsync_state_peer ==
    [seqlo : Long, seqhi : Long, seqdiff : Long, max_win : Word, mss : Word,
     state : Byte8, wscale : Byte8, scrub : pf_state_scrub, scrub_flag : Byte8]

\* ntohs on a little-endian machine.
ntohs(x) == ((x % 256) * 256) + (x \div 256)
\* x & PFSS_TIMESTAMP, the lowest bit.
Timestamp(x) == x % 2

\* What d is after the macro.
pf_state_peer_to_pfsync(s, d) ==
    [seqlo |-> s.seqlo, seqhi |-> s.seqhi, seqdiff |-> s.seqdiff,
     max_win |-> s.max_win, mss |-> s.mss, state |-> s.state, wscale |-> s.wscale,
     scrub |-> IF s.scrubbed
               THEN [pfss_flags |-> Timestamp(s.scrub.pfss_flags),
                     pfss_ttl |-> s.scrub.pfss_ttl, pfss_ts_mod |-> s.scrub.pfss_ts_mod]
               ELSE d.scrub,
     scrub_flag |-> IF s.scrubbed THEN 1 ELSE d.scrub_flag]
pf_state_peer_from_pfsync(s, d) ==
    [seqlo |-> s.seqlo, seqhi |-> s.seqhi, seqdiff |-> s.seqdiff,
     max_win |-> s.max_win, mss |-> ntohs(s.mss), state |-> s.state, wscale |-> s.wscale,
     tcp_est |-> d.tcp_est,
     scrub |-> IF s.scrub_flag = 1 /\ d.scrubbed
               THEN [pfss_flags |-> Timestamp(ntohs(s.scrub.pfss_flags)),
                     pfss_ttl |-> s.scrub.pfss_ttl, pfss_ts_mod |-> s.scrub.pfss_ts_mod]
               ELSE d.scrub,
     scrubbed |-> d.scrubbed]

\* 64-bit counters as two words.
pf_state_counter_to_pfsync(s) ==
    <<(s \div 4294967296) % 4294967296, s % 4294967296>>
pf_state_counter_from_pfsync(d) == (d[1] * 4294967296) + d[2]

(***************************************************************************)
(* The members of the structures that are searched for, and of those that  *)
(* are searched for them, in their order: RB_FIND is given the one and     *)
(* compares it as the other.                                               *)
(***************************************************************************)
pf_state_key_cmp ==
    <<"lan", "gwy", "ext_lan", "ext_gwy", "af_lan", "af_gwy", "proto", "direction",
      "proto_variant", "app_state">>
pf_state_key ==
    <<"lan", "gwy", "ext_lan", "ext_gwy", "af_lan", "af_gwy", "proto", "direction",
      "proto_variant", "app_state", "flowsrc", "flowhash", "entry_lan_ext",
      "entry_ext_gwy", "states", "refcnt">>
pf_state_cmp == <<"id", "creatorid", "pad">>
pf_state ==
    <<"id", "creatorid", "pad", "entry_list", "next", "entry_id", "src", "dst", "rule",
      "anchor", "nat_rule", "rt_addr", "unlink_hooks", "state_key", "kif", "rt_kif",
      "src_node", "nat_src_node", "packets", "bytes", "creation", "expire",
      "pfsync_time", "tag", "log", "allow_opts", "timeout", "sync_flags">>

(***************************************************************************)
(* REASON_SET on a packet's reason, which can be absent, and the counters  *)
(* of pf_status.                                                           *)
(***************************************************************************)
\* The constants in the order of their values, which begin with 0, and how many
\* there are; the names are an array with NULL behind the last one.
PFRES ==
    <<"MATCH", "BADOFF", "FRAG", "SHORT", "NORM", "MEMORY", "TS", "CONGEST",
      "IPOPTIONS", "PROTCKSUM", "BADSTATE", "STATEINS", "MAXSTATES", "SRCLIMIT",
      "SYNPROXY", "DUMMYNET">>
PFRES_MAX == 16
PFRES_NAMES ==
    <<"match", "bad-offset", "fragment", "short", "normalize", "memory",
      "bad-timestamp", "congestion", "ip-option", "proto-cksum", "state-mismatch",
      "state-insert", "state-limit", "src-limit", "synproxy", "dummynet", "NULL">>
REASON_SET(wanted, reason, x, counters) ==
    [reason |-> IF wanted THEN x ELSE reason,
     counters |-> IF x < PFRES_MAX THEN [counters EXCEPT ![x] = @ + 1] ELSE counters]

\* Other counters, and the levels of states.
LCNT ==
    <<"STATES", "SRCSTATES", "SRCNODES", "SRCCONN", "SRCCONNRATE", "OVERLOAD_TABLE",
      "OVERLOAD_FLUSH">>
LCNT_MAX == 7
LCNT_NAMES ==
    <<"max states per rule", "max-src-states", "max-src-nodes", "max-src-conn",
      "max-src-conn-rate", "overload table insertion", "overload flush states", "NULL">>
PFUDPS == <<"NO_TRAFFIC", "SINGLE", "MULTIPLE">>
PFUDPS_NSTATES == 3
PFUDPS_NAMES == <<"NO_TRAFFIC", "SINGLE", "MULTIPLE", "NULL">>
PFGRE1S == <<"NO_TRAFFIC", "INITIATING", "ESTABLISHED">>
PFGRE1S_NSTATES == 3
PFGRE1S_NAMES == <<"NO_TRAFFIC", "INITIATING", "ESTABLISHED", "NULL">>
PFESPS == <<"NO_TRAFFIC", "INITIATING", "ESTABLISHED">>
PFESPS_NSTATES == 3
PFESPS_NAMES == <<"NO_TRAFFIC", "INITIATING", "ESTABLISHED", "NULL">>
PFOTHERS == <<"NO_TRAFFIC", "SINGLE", "MULTIPLE">>
PFOTHERS_NSTATES == 3
PFOTHERS_NAMES == <<"NO_TRAFFIC", "SINGLE", "MULTIPLE", "NULL">>

(***************************************************************************)
(* Flags of tables and of requests for them                                *)
(***************************************************************************)
PFR_TFLAG == <<1, 2, 4, 8, 16, 32>>
PFR_TFLAG_USRMASK == 3
PFR_TFLAG_SETMASK == 60
PFR_TFLAG_ALLMASK == 63
PFR_FLAG == <<1, 2, 4, 8, 16, 32, 64>>
PFR_FLAG_ALLMASK == 127
==================================================================================

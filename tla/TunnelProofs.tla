----------------------------- MODULE TunnelProofs -----------------------------
(***************************************************************************)
(* The proofs about one tunnelled connection.  Part one is about where it  *)
(* goes: what net/pfvar.h, from which GetOriginalDst of darwin builds its  *)
(* request, does for every address, number and state.  Part two is about   *)
(* what it keeps, however much its ends send and however little of it they *)
(* read: the proofs of the safety properties of Tunnel.                    *)
(***************************************************************************)
EXTENDS Tunnel, PfVar, TLAPS

(***************************************************************************)
(* Addresses                                                               *)
(***************************************************************************)
\* Where the words that the family does not use are equal, PF_ANEQ is the
\* negation of PF_AEQ in every build.
LEMMA NegationLemma ==
    ASSUME NEW build \in Builds, NEW c \in Families,
           NEW a \in pf_addr, NEW b \in pf_addr,
           c = "AF_INET" => \A i \in 1 .. 3 : a[i] = b[i]
    PROVE  PF_ANEQ(build, a, b, c) <=> ~PF_AEQ(build, a, b, c)
<1>1. /\ c = "AF_INET" => a[1] = b[1] /\ a[2] = b[2] /\ a[3] = b[3]
      /\ Six_AEQ(a, b) <=> a[0] = b[0] /\ a[1] = b[1] /\ a[2] = b[2] /\ a[3] = b[3]
      /\ Six_ANEQ(a, b) <=> ~Six_AEQ(a, b)
    BY DEF Six_AEQ, Six_ANEQ
<1>2. CASE build = "PF_INET_INET6"
    BY <1>1, <1>2 DEF PF_AEQ, PF_ANEQ, Both_AEQ, Both_ANEQ, Families
<1>3. CASE build = "PF_INET6_ONLY"
    BY <1>1, <1>3 DEF PF_AEQ, PF_ANEQ
<1>4. CASE build = "PF_INET_ONLY"
    BY <1>4 DEF PF_AEQ, PF_ANEQ, Four_AEQ, Four_ANEQ
<1>. QED BY <1>2, <1>3, <1>4 DEF Builds

\* An address and a port, as a request of GetOriginalDst names them.
Endpoints == [addr : Long, port : Word]

\* Of two addresses with zeroes behind the first word.
LEMMA V4Lemma ==
    ASSUME NEW build \in Builds, NEW x \in Long, NEW y \in Long
    PROVE  /\ PF_ANEQ(build, V4(x), V4(y), "AF_INET") <=> ~PF_AEQ(build, V4(x), V4(y), "AF_INET")
           /\ PF_AEQ(build, V4(x), V4(y), "AF_INET") <=> x = y
<1>1. V4(x) \in pf_addr /\ V4(y) \in pf_addr
    BY SMT DEF V4, pf_addr, Long
<1>2. /\ V4(x)[0] = x /\ V4(y)[0] = y
      /\ \A i \in 1 .. 3 : V4(x)[i] = V4(y)[i]
      /\ V4(x)[1] = V4(y)[1] /\ V4(x)[2] = V4(y)[2] /\ V4(x)[3] = V4(y)[3]
    BY DEF V4
<1>3. PF_ANEQ(build, V4(x), V4(y), "AF_INET") <=> ~PF_AEQ(build, V4(x), V4(y), "AF_INET")
    BY <1>1, <1>2, NegationLemma DEF Families
<1>4. Six_AEQ(V4(x), V4(y)) <=> x = y
    BY <1>2 DEF Six_AEQ
<1>5. PF_AEQ(build, V4(x), V4(y), "AF_INET") <=> x = y
    BY <1>2, <1>4 DEF PF_AEQ, Both_AEQ, Four_AEQ, Builds
<1>. QED BY <1>3, <1>5

\* originaldest_darwin.go:49-61: the request is zeroed before its addresses are
\* filled, so that comparing two of them has one answer, which is that of their
\* IPv4 addresses.
THEOREM RequestsCompare ==
    ASSUME NEW build \in Builds, NEW client \in Endpoints, NEW local \in Endpoints,
           NEW client2 \in Endpoints, NEW local2 \in Endpoints
    PROVE  LET pnl == NatLook(client, local)
               other == NatLook(client2, local2)
           IN  /\ PF_AEQ(build, pnl.saddr, other.saddr, pnl.af) <=> client.addr = client2.addr
               /\ PF_AEQ(build, pnl.daddr, other.daddr, pnl.af) <=> local.addr = local2.addr
               /\ PF_ANEQ(build, pnl.saddr, other.saddr, pnl.af) <=> client.addr # client2.addr
               /\ PF_ANEQ(build, pnl.daddr, other.daddr, pnl.af) <=> local.addr # local2.addr
<1>1. \A e \in Endpoints : e.addr \in Long
    BY DEF Endpoints
<1>2. \A c, l \in Endpoints : /\ NatLook(c, l).saddr = V4(c.addr)
                         /\ NatLook(c, l).daddr = V4(l.addr)
                         /\ NatLook(c, l).af = "AF_INET"
    BY DEF NatLook
<1>. QED BY <1>1, <1>2, V4Lemma

\* pfvar.h:346-358: without that, two IPv4 addresses can be equal and not equal
\* in the build for both families.
THEOREM EqualAndNotEqual ==
    ASSUME NEW a \in pf_addr, NEW b \in pf_addr, a[0] = b[0], a[1] # b[1]
    PROVE  /\ PF_AEQ("PF_INET_INET6", a, b, "AF_INET")
           /\ PF_ANEQ("PF_INET_INET6", a, b, "AF_INET")
BY DEF PF_AEQ, PF_ANEQ, Both_AEQ, Both_ANEQ

\* pfvar.h:360, 402 and 437: PF_ALEQ in both directions is PF_AEQ.
THEOREM AleqAntisymmetric ==
    ASSUME NEW build \in Builds, NEW c \in Families,
           NEW a \in pf_addr, NEW b \in pf_addr,
           PF_ALEQ(build, a, b, c), PF_ALEQ(build, b, a, c)
    PROVE  PF_AEQ(build, a, b, c)
<1>1. \A i \in 0 .. 3 : a[i] \in Int /\ b[i] \in Int
    BY SMT DEF pf_addr, Long
<1>2. CASE build = "PF_INET_INET6"
  <2>1. PF_ALEQ(build, a, b, c) <=> Both_ALEQ(a, b, c)
    BY <1>2 DEF PF_ALEQ
  <2>2. PF_ALEQ(build, b, a, c) <=> Both_ALEQ(b, a, c)
    BY <1>2 DEF PF_ALEQ
  <2>3. Both_AEQ(a, b, c)
    BY <1>1, <2>1, <2>2 DEF Both_ALEQ, Both_AEQ
  <2>. QED BY <1>2, <2>3 DEF PF_AEQ
<1>3. CASE build = "PF_INET6_ONLY"
    BY <1>1, <1>3 DEF PF_ALEQ, PF_AEQ, Six_ALEQ, Six_AEQ
<1>4. CASE build = "PF_INET_ONLY"
    BY <1>1, <1>4 DEF PF_ALEQ, PF_AEQ, Four_ALEQ, Four_AEQ
<1>. QED BY <1>2, <1>3, <1>4 DEF Builds

(***************************************************************************)
(* Numbers                                                                 *)
(***************************************************************************)
\* pfvar.h:586-600: what PF_OSFP_PACK packs, PF_OSFP_UNPACK gets back, and the
\* result is none of the two special values.
THEOREM FingerprintRoundTrip ==
    ASSUME NEW class \in Nat, NEW version \in Nat, NEW subtype \in Nat,
           class < 1024, version < 1024, subtype < 1024
    PROVE  /\ PF_OSFP_UNPACK(PF_OSFP_PACK(class, version, subtype))
                = [class |-> class, version |-> version, subtype |-> subtype]
           /\ PF_OSFP_PACK(class, version, subtype) \notin {PF_OSFP_UNKNOWN, PF_OSFP_NOMATCH}
<1>. DEFINE osfp == PF_OSFP_PACK(class, version, subtype)
<1>1. class % 1024 = class /\ version % 1024 = version /\ subtype % 1024 = subtype
    BY SMT
<1>2. osfp = class * 1048576 + version * 1024 + subtype
    BY <1>1, SMT DEF PF_OSFP_PACK, FIELD
<1>3. osfp \in Nat /\ osfp < 1073741824
    BY <1>2, SMT
<1>. HIDE DEF osfp
<1>4. osfp % 1024 = subtype
    BY <1>2, SMT
<1>5. osfp \div 1024 = class * 1024 + version
    BY <1>2, SMT
<1>6. (osfp \div 1024) % 1024 = version
    BY <1>5, SMT
<1>7. osfp \div 1048576 = class
    BY <1>2, SMT
<1>8. PF_OSFP_UNPACK(osfp) = [class |-> class, version |-> version, subtype |-> subtype]
  <2>1. FIELD * FIELD = 1048576 /\ FIELD = 1024
    BY SMT DEF FIELD
  <2>. QED BY <1>1, <1>4, <1>6, <1>7, <2>1, SMT DEF PF_OSFP_UNPACK
<1>9. osfp \notin {PF_OSFP_UNKNOWN, PF_OSFP_NOMATCH}
    BY <1>3, SMT DEF PF_OSFP_UNKNOWN, PF_OSFP_NOMATCH
<1>. QED BY <1>8, <1>9 DEF osfp

\* pfvar.h:1182-1188: a 64-bit counter survives the way through two words.
THEOREM CounterRoundTrip ==
    ASSUME NEW s \in Nat, s < 4294967296 * 4294967296
    PROVE  /\ pf_state_counter_to_pfsync(s) \in Seq(Long)
           /\ pf_state_counter_from_pfsync(pf_state_counter_to_pfsync(s)) = s
<1>1. s \div 4294967296 \in Long /\ s % 4294967296 \in Long
    BY SMT DEF Long
<1>2. (s \div 4294967296) % 4294967296 = s \div 4294967296
    BY <1>1, SMT DEF Long
<1>3. (s \div 4294967296) * 4294967296 + (s % 4294967296) = s
    BY SMT
<1>. QED BY <1>1, <1>2, <1>3, SMT
         DEF pf_state_counter_to_pfsync, pf_state_counter_from_pfsync

(***************************************************************************)
(* States                                                                  *)
(***************************************************************************)
\* Exchanging the bytes of a word changes it unless they are equal.
LEMMA SwapLemma ==
    ASSUME NEW x \in Word
    PROVE  ntohs(x) = x <=> x \div 256 = x % 256
<1>1. PICK high \in Nat, low \in Nat :
         high = x \div 256 /\ low = x % 256 /\ x = 256 * high + low
    BY SMT DEF Word
<1>2. ntohs(x) = 256 * low + high
    BY <1>1, SMT DEF ntohs
<1>3. 256 * low + high = 256 * high + low <=> high = low
    BY <1>1, SMT
<1>. QED BY <1>1, <1>2, <1>3

\* The lowest bit of a word is not the lowest one of its exchanged bytes.
LEMMA FlagLemma ==
    ASSUME NEW x \in Word
    PROVE  Timestamp(ntohs(Timestamp(x))) = 0
<1>1. Timestamp(x) = 0 \/ Timestamp(x) = 1
    BY SMT DEF Timestamp, Word
<1>2. ntohs(0) = 0 /\ ntohs(1) = 256
    BY SMT DEF ntohs
<1>3. Timestamp(0) = 0 /\ Timestamp(256) = 0
    BY SMT DEF Timestamp
<1>. QED BY <1>1, <1>2, <1>3

\* pfvar.h:1147-1179: ntohs is applied on the way back only.  A state keeps its
\* sequence numbers and its window; its mss comes back with its bytes
\* exchanged, the same only if they are equal, and the timestamp flag of its
\* scrub is lost.
THEOREM PeerRoundTrip ==
    ASSUME NEW s \in pf_state_peer, NEW d \in pf_state_peer, NEW e \in pfsync_state_peer
    PROVE  LET back == pf_state_peer_from_pfsync(pf_state_peer_to_pfsync(s, e), d) IN
           /\ back.seqlo = s.seqlo /\ back.seqhi = s.seqhi /\ back.seqdiff = s.seqdiff
           /\ back.max_win = s.max_win /\ back.state = s.state /\ back.wscale = s.wscale
           /\ back.mss = s.mss <=> s.mss \div 256 = s.mss % 256
           /\ s.scrubbed /\ d.scrubbed => back.scrub.pfss_flags = 0
<1>. DEFINE packed == pf_state_peer_to_pfsync(s, e)
            back == pf_state_peer_from_pfsync(packed, d)
<1>1. s.mss \in Word /\ s.scrub \in pf_state_scrub
    BY DEF pf_state_peer
<1>2. s.scrub.pfss_flags \in Word
    BY <1>1 DEF pf_state_scrub
<1>3. /\ packed.seqlo = s.seqlo /\ packed.seqhi = s.seqhi /\ packed.seqdiff = s.seqdiff
      /\ packed.max_win = s.max_win /\ packed.state = s.state /\ packed.wscale = s.wscale
      /\ packed.mss = s.mss
    BY DEF pf_state_peer_to_pfsync
<1>4. s.scrubbed => packed.scrub_flag = 1 /\ packed.scrub.pfss_flags = Timestamp(s.scrub.pfss_flags)
    BY DEF pf_state_peer_to_pfsync
<1>. HIDE DEF packed
<1>5. /\ back.seqlo = s.seqlo /\ back.seqhi = s.seqhi /\ back.seqdiff = s.seqdiff
      /\ back.max_win = s.max_win /\ back.state = s.state /\ back.wscale = s.wscale
      /\ back.mss = ntohs(s.mss)
    BY <1>3 DEF pf_state_peer_from_pfsync
<1>6. s.scrubbed /\ d.scrubbed
        => back.scrub.pfss_flags = Timestamp(ntohs(Timestamp(s.scrub.pfss_flags)))
    BY <1>4 DEF pf_state_peer_from_pfsync
<1>. HIDE DEF back
<1>7. s.scrubbed /\ d.scrubbed => back.scrub.pfss_flags = 0
    BY <1>2, <1>6, FlagLemma
<1>8. back.mss = s.mss <=> s.mss \div 256 = s.mss % 256
    BY <1>1, <1>5, SwapLemma
<1>. QED BY <1>5, <1>7, <1>8 DEF back, packed

\* pfvar.h:977 and :1014: "keep synced with struct pf_state, used in RB_FIND".
\* The members that are compared are the first ones of the structure in the tree,
\* so that a search key can stand for an element.
THEOREM KeysInSync ==
    /\ \A i \in 1 .. 10 : pf_state_key_cmp[i] = pf_state_key[i]
    /\ \A i \in 1 .. 3 : pf_state_cmp[i] = pf_state[i]
<1>1. \A i \in 1 .. 10 : pf_state_key_cmp[i] = pf_state_key[i]
    BY DEF pf_state_key_cmp, pf_state_key
<1>2. \A i \in 1 .. 3 : pf_state_cmp[i] = pf_state[i]
    BY DEF pf_state_cmp, pf_state
<1>. QED BY <1>1, <1>2

\* pfvar.h:465-485: whatever a rule's address is, negating it inverts the match;
\* "any", a network with an empty mask, mismatches nothing unless it is negated.
THEOREM NegationInverts ==
    ASSUME NEW type, NEW is, NEW neg \in BOOLEAN
    PROVE  /\ PF_MISMATCHAW(type, is, ~neg) <=> ~PF_MISMATCHAW(type, is, neg)
           /\ type = "PF_ADDR_ADDRMASK" /\ is.maskZero
                => (PF_MISMATCHAW(type, is, neg) <=> neg)
BY Zenon DEF PF_MISMATCHAW

\* pfvar.h:1592-1598: every reason is counted once and within the counters.
THEOREM ReasonCounted ==
    ASSUME NEW counters \in [0 .. 15 -> Nat], NEW x \in Nat, NEW wanted \in BOOLEAN, NEW reason
    PROVE  LET set == REASON_SET(wanted, reason, x, counters) IN
           /\ set.counters \in [0 .. 15 -> Nat]
           /\ \A i \in 0 .. 15 : set.counters[i] = counters[i] + IF i = x THEN 1 ELSE 0
           /\ wanted => set.reason = x
BY DEF REASON_SET, PFRES_MAX

\* pfvar.h:1465-1573: a value that is counted, or a level that a state can have,
\* has a name, and the array of names ends behind the last one, where a loop over
\* it and an index of MAX or NSTATES find NULL.
InSync(constants, max, names) ==
    /\ Len(constants) = max
    /\ Len(names) = max + 1 /\ names[max + 1] = "NULL"
    /\ \A i \in 1 .. max : names[i] # "NULL"
THEOREM NamesInSync ==
    /\ InSync(PFRES, PFRES_MAX, PFRES_NAMES) /\ InSync(LCNT, LCNT_MAX, LCNT_NAMES)
    /\ InSync(PFUDPS, PFUDPS_NSTATES, PFUDPS_NAMES)
    /\ InSync(PFGRE1S, PFGRE1S_NSTATES, PFGRE1S_NAMES)
    /\ InSync(PFESPS, PFESPS_NSTATES, PFESPS_NAMES)
    /\ InSync(PFOTHERS, PFOTHERS_NSTATES, PFOTHERS_NAMES)
<1>1. InSync(PFRES, PFRES_MAX, PFRES_NAMES)
    BY DEF InSync, PFRES, PFRES_MAX, PFRES_NAMES
<1>2. InSync(LCNT, LCNT_MAX, LCNT_NAMES)
    BY DEF InSync, LCNT, LCNT_MAX, LCNT_NAMES
<1>3. InSync(PFUDPS, PFUDPS_NSTATES, PFUDPS_NAMES)
    BY DEF InSync, PFUDPS, PFUDPS_NSTATES, PFUDPS_NAMES
<1>4. InSync(PFGRE1S, PFGRE1S_NSTATES, PFGRE1S_NAMES)
    BY DEF InSync, PFGRE1S, PFGRE1S_NSTATES, PFGRE1S_NAMES
<1>5. InSync(PFESPS, PFESPS_NSTATES, PFESPS_NAMES)
    BY DEF InSync, PFESPS, PFESPS_NSTATES, PFESPS_NAMES
<1>6. InSync(PFOTHERS, PFOTHERS_NSTATES, PFOTHERS_NAMES)
    BY DEF InSync, PFOTHERS, PFOTHERS_NSTATES, PFOTHERS_NAMES
<1>. QED BY <1>1, <1>2, <1>3, <1>4, <1>5, <1>6

\* pfvar.h:1239-1247 and :1984-1991: every flag is a bit of its own, the masks
\* hold all of them, and a flag of a table is the user's or is set by the kernel.
Bits(flags, mask) ==
    /\ flags[1] = 1
    /\ \A i \in 1 .. Len(flags) - 1 : flags[i + 1] = 2 * flags[i]
    /\ mask = 2 * flags[Len(flags)] - 1
THEOREM MasksCoverFlags ==
    /\ Bits(PFR_TFLAG, PFR_TFLAG_ALLMASK) /\ Bits(PFR_FLAG, PFR_FLAG_ALLMASK)
    /\ PFR_TFLAG_USRMASK + PFR_TFLAG_SETMASK = PFR_TFLAG_ALLMASK
    /\ PFR_TFLAG_USRMASK = PFR_TFLAG[1] + PFR_TFLAG[2]
<1>1. Bits(PFR_TFLAG, PFR_TFLAG_ALLMASK)
    BY SMT DEF Bits, PFR_TFLAG, PFR_TFLAG_ALLMASK
<1>2. Bits(PFR_FLAG, PFR_FLAG_ALLMASK)
    BY SMT DEF Bits, PFR_FLAG, PFR_FLAG_ALLMASK
<1>3. /\ PFR_TFLAG_USRMASK + PFR_TFLAG_SETMASK = PFR_TFLAG_ALLMASK
      /\ PFR_TFLAG_USRMASK = PFR_TFLAG[1] + PFR_TFLAG[2]
    BY SMT DEF PFR_TFLAG_USRMASK, PFR_TFLAG_SETMASK, PFR_TFLAG_ALLMASK, PFR_TFLAG
<1>. QED BY <1>1, <1>2, <1>3


(***************************************************************************)
(* The inductive invariant                                                 *)
(***************************************************************************)
Setup == {"accept", "file", "sockopt", "fileconn", "resolve", "dial", "hijack", "panic"}
Copying == {"read", "write"}
Closing == {"close1", "close2", "end"}

TypeInv ==
    /\ kind \in {"transparent", "http"}
    /\ step \in Setup \cup {"wait1", "wait2", "end"}
    /\ fd \in [Descriptors -> {"none", "open", "closed"}]
    /\ peer \in [Ends -> {"up", "shut", "gone"}]
    /\ sent \in [Directions -> Nat] /\ taken \in [Directions -> Nat]
    /\ written \in [Directions -> Nat] /\ counts \in [Directions -> Nat]
    /\ copier \in [Directions -> {"none", "done"} \cup Copying \cup Closing]
    /\ ended \in [Directions -> {"no", "eof", "error"}]

\* How far the handler is and how far the copies are: forwardConnection releases
\* a copy to its closes only by receiving its report.
HandlerInv ==
    /\ step \in {"resolve", "hijack"} => kind = "http"
    /\ step \in {"file", "sockopt", "fileconn", "wait1", "wait2"} => kind = "transparent"
    /\ step \in Setup => \A d \in Directions : copier[d] = "none"
    /\ step = "wait1" => \A d \in Directions : copier[d] \in Copying \cup {"done"}
    /\ step = "wait2" => \E d \in Directions : /\ copier[d] \in Closing
                                               /\ copier[Other(d)] \in Copying \cup {"done"}
    /\ step = "end" => \/ \A d \in Directions : copier[d] = "none"
                       \/ kind = "http" /\ \A d \in Directions : copier[d] \in Copying \cup Closing
                       \/ \A d \in Directions : copier[d] \in Closing

\* A copy holds one chunk at most, between its read and its write.  It has ended,
\* and reported what it wrote, when it is past its loop; an end of file means that
\* everything has been written and nothing more will be sent.
CopyInv ==
    \A d \in Directions :
        /\ copier[d] \in {"none", "read"} => taken[d] = written[d]
        /\ copier[d] = "write" => taken[d] = written[d] + 1
        /\ copier[d] \in Copying \cup {"none"} => ended[d] = "no"
        /\ copier[d] \in Closing \cup {"done"} => ended[d] # "no" /\ counts[d] = written[d]
        /\ ended[d] = "eof" => written[d] = sent[d] /\ peer[From(d)] # "up"

\* The descriptors of GetOriginalDst are closed when the server is dialled.  The
\* two ends are closed by copies that have ended, both of them by each copy.
FdInv ==
    /\ step \in {"sockopt", "fileconn"} => fd["accepted"] # "open"
    /\ kind = "http" \/ step \in {"dial", "wait1", "wait2"} \/ copier["send"] # "none" =>
          fd["accepted"] # "open" /\ fd["file"] # "open"
    /\ \A e \in Ends : fd[e] = "closed" => \E d \in Directions : ended[d] # "no"
    /\ \A d \in Directions :
          /\ copier[d] = "close2" => fd[Closings(d)[1]] # "open"
          /\ copier[d] = "end" => \A e \in Ends : fd[e] # "open"

TunnelInv == TypeInv /\ HandlerInv /\ CopyInv /\ FdInv /\ LossExplained

USE TunnelAssumption DEF Ends, Directions, Descriptors, Setup, Copying, Closing

\* The handlers: what comes before the copies, and the reception of their reports.
LEMMA HandlerKeepsInv == TunnelInv /\ HandlerNext => TunnelInv'
<1>. SUFFICES ASSUME TunnelInv, HandlerNext
              PROVE  TunnelInv'
  OBVIOUS
<1>. USE DEF TunnelInv, TypeInv, HandlerInv, CopyInv, FdInv, LossExplained, Open, Close,
             Closings, From, To, Other, streams, copies
<1>1. CASE Accept
  BY <1>1 DEF Accept
<1>2. CASE DuplicateFile
  <2>1. TypeInv' /\ HandlerInv'
    BY <1>2 DEF DuplicateFile
  <2>2. CopyInv' /\ LossExplained'
    BY <1>2 DEF DuplicateFile
  <2>3. FdInv'
    BY <1>2 DEF DuplicateFile
  <2>. QED
    BY <2>1, <2>2, <2>3
<1>3. CASE GetSockopt
  BY <1>3 DEF GetSockopt
<1>4. CASE FileConn
  <2>1. TypeInv' /\ HandlerInv'
    BY <1>4 DEF FileConn, FileAfterwards
  <2>2. CopyInv' /\ LossExplained'
    BY <1>4 DEF FileConn, FileAfterwards
  <2>3. FdInv'
    BY <1>4 DEF FileConn, FileAfterwards
  <2>. QED
    BY <2>1, <2>2, <2>3
<1>5. CASE ResolveDNS
  BY <1>5 DEF ResolveDNS
<1>6. CASE Dial
  BY <1>6 DEF Dial, StartCopies, StartStep
<1>7. CASE Hijack
  BY <1>7 DEF Hijack, StartCopies, StartStep
<1>8. CASE Received
  BY <1>8 DEF Received, AfterFirst
<1>. QED
  BY <1>1, <1>2, <1>3, <1>4, <1>5, <1>6, <1>7, <1>8 DEF HandlerNext

\* The copies.
LEMMA CopyKeepsInv ==
    ASSUME TunnelInv, NEW d \in Directions, CopyNext(d)
    PROVE  TunnelInv'
<1>. USE DEF TunnelInv, TypeInv, HandlerInv, CopyInv, FdInv, LossExplained, Close,
             Closings, From, To, Other, streams, copies
<1>1. CASE CopyRead(d)
  <2>1. TypeInv'
    BY <1>1 DEF CopyRead, Finish
  <2>2. HandlerInv'
    BY <1>1 DEF CopyRead, Finish
  <2>3. CopyInv'
    BY <1>1 DEF CopyRead, Finish
  <2>4. FdInv'
    BY <1>1 DEF CopyRead, Finish
  <2>5. LossExplained'
    BY <1>1 DEF CopyRead, Finish
  <2>. QED
    BY <2>1, <2>2, <2>3, <2>4, <2>5
<1>2. CASE CopyWrite(d)
  <2>1. TypeInv'
    BY <1>2 DEF CopyWrite, Finish
  <2>2. HandlerInv'
    BY <1>2 DEF CopyWrite, Finish
  <2>3. CopyInv'
    BY <1>2 DEF CopyWrite, Finish
  <2>4. FdInv'
    BY <1>2 DEF CopyWrite, Finish
  <2>5. LossExplained'
    BY <1>2 DEF CopyWrite, Finish
  <2>. QED
    BY <2>1, <2>2, <2>3, <2>4, <2>5
<1>3. CASE CopyClose(d)
  BY <1>3 DEF CopyClose
<1>. QED
  BY <1>1, <1>2, <1>3 DEF CopyNext

\* The ends.
LEMMA PeerKeepsInv ==
    ASSUME TunnelInv, NEW e \in Ends, PeerSend(e) \/ PeerReceive(e) \/ PeerLeaves(e)
    PROVE  TunnelInv'
<1>. USE DEF TunnelInv, TypeInv, HandlerInv, CopyInv, FdInv, LossExplained,
             Closings, From, To, Other, Out, streams, copies
<1>1. CASE PeerSend(e)
  BY <1>1 DEF PeerSend
<1>2. CASE PeerReceive(e)
  BY <1>2 DEF PeerReceive
<1>3. CASE PeerLeaves(e)
  BY <1>3 DEF PeerLeaves
<1>. QED
  BY <1>1, <1>2, <1>3

\* TunnelInv holds in every state of a connection.
THEOREM TunnelInvariant == Spec => []TunnelInv
<1>. USE DEF TunnelInv, TypeInv, HandlerInv, CopyInv, FdInv, LossExplained
<1>1. Init => TunnelInv
  BY DEF Init, Zero
<1>2. TunnelInv /\ [Next]_vars => TunnelInv'
  <2>1. TunnelInv /\ Next => TunnelInv'
    BY HandlerKeepsInv, CopyKeepsInv, PeerKeepsInv DEF Next
  <2>2. TunnelInv /\ UNCHANGED vars => TunnelInv'
    BY DEF vars, streams, copies, Closings
  <2>. QED
    BY <2>1, <2>2
<1>. QED
  BY <1>1, <1>2, PTL DEF Spec

(***************************************************************************)
(* The properties                                                          *)
(***************************************************************************)
\* The numbers forwardConnection returns are those of the chunks written, although
\* the goroutines that assign them and the handler share them without a lock.
THEOREM CountsAlwaysTruthful == Spec => []CountsTruthful
<1>1. TunnelInv => CountsTruthful
  BY DEF TunnelInv, TypeInv, HandlerInv, CopyInv, CountsTruthful, Forwarded
<1>. QED
  BY <1>1, TunnelInvariant, PTL

\* No direction of a tunnel is cut off or falls short unless the other direction
\* has ended or an end has gone.
THEOREM LossAlwaysExplained == Spec => []LossExplained
<1>. QED
  BY TunnelInvariant, PTL DEF TunnelInv

\* When both copies are over no descriptor of the connection is left open.
THEOREM DescriptorsAlwaysReleased == Spec => []DescriptorsReleased
<1>1. TunnelInv => DescriptorsReleased
  BY DEF TunnelInv, TypeInv, FdInv, DescriptorsReleased
<1>. QED
  BY <1>1, TunnelInvariant, PTL
================================================================================

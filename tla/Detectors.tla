----------------------------- MODULE Detectors -----------------------------
(***************************************************************************)
(* The detectors of analysis/analyzer.c, for the packets of one source:    *)
(* its Suspect entry from the moment find_or_create_suspect makes it.      *)
(* Module Analyzer, which follows many sources, leaves open which attack a *)
(* packet is reported as; here it is computed.                             *)
(*                                                                         *)
(*  - A packet is what the detectors look at: TCP flags and port; whether  *)
(*    a DNS name looks suspicious (long label, entropy); bytes.            *)
(*  - Counters that are only compared with a threshold stop just over it.  *)
(*  - The EWMA arithmetic is abstracted: once calibrated, the adaptive     *)
(*    threshold is any number from its floor up, and any query may be an   *)
(*    anomaly.                                                             *)
(***************************************************************************)
EXTENDS Naturals, Sequences, FiniteSets, Functions

CONSTANTS Protocols,                     \* the kinds of packets that arrive
          Ports, AuthPorts,              \* destination ports; 22, 21 and 3389
          FlagSets,                      \* combinations of TCP flags that arrive
          Sizes,                         \* packet lengths of DNS traffic
          ScanThreshold, IcmpThreshold, SynThreshold, StealthThreshold,
          BruteThreshold, BruteWindow,   \* BRUTE_THRESHOLD, BRUTE_WINDOW_SEC
          DnsMax, AmpFloor, AmpRatio,    \* DNS_SUSPICIOUS_MAX, 100 bytes, AMPLIFICATION_RATIO
          Calibration, EwmaWindow,       \* EWMA_CALIBRATION, EWMA_WINDOW_SEC
          SynFloor, IcmpFloor,           \* the least adaptive thresholds
          MaxPackets, MaxTime            \* bounds: packets analysed, the last tick

ASSUME KindsAssumption ==
  /\ Protocols \subseteq {"ICMP", "TCP", "UDP"} /\ AuthPorts \subseteq Ports
  /\ \A f \in FlagSets : f \subseteq {"FIN", "SYN", "PSH", "ACK", "URG"}
ASSUME ThresholdsAssumption ==
  {ScanThreshold, IcmpThreshold, SynThreshold, StealthThreshold, BruteThreshold, DnsMax,
   AmpFloor, AmpRatio, Calibration, EwmaWindow, SynFloor, IcmpFloor} \subseteq Nat \ {0}
ASSUME SizesAssumption == Sizes \subseteq Nat
ASSUME BoundsAssumption == {BruteWindow, MaxPackets, MaxTime} \subseteq Nat

VARIABLES now, s,          \* the clock and the Suspect
          attack,          \* what the last packet was reported as
          packets,
          authLog,         \* history: the last SYNs to an authentication port
          portsSeen        \* history: ports of all TCP packets

vars == <<now, s, attack, packets, authLog, portsSeen>>

NewSuspect ==
  [ports |-> <<>>, icmp |-> 0, syn |-> 0, null |-> 0, xmas |-> 0, synfin |-> 0,
   brute |-> 0, bruteStart |-> now, dnsSuspicious |-> 0, req |-> 0, resp |-> 0,
   samples |-> 0, windowStart |-> now]

UpTo(n, cap) == IF n > cap THEN cap ELSE n
Verdict(t, a) == [s |-> t, attack |-> a]

\* Counters stop at the largest number a threshold is compared with, plus one.
SynCap  == 1 + (IF SynThreshold > SynFloor THEN SynThreshold ELSE SynFloor)
IcmpCap == 1 + (IF IcmpThreshold > IcmpFloor THEN IcmpThreshold ELSE IcmpFloor)

InitialSyn(flags) == "SYN" \in flags /\ "ACK" \notin flags

(***************************************************************************)
(* Bugs that mutation runs plant in the definitions below.                 *)
(***************************************************************************)
MutPortScanUnbounded(t, port) ==
  LET u == [t EXCEPT !.ports = Append(t.ports, port)]
  IN  IF port \in Range(t.ports) THEN Verdict(t, "NONE")
      ELSE Verdict(u, IF Len(u.ports) >= ScanThreshold THEN "PORT_SCAN" ELSE "NONE")

MutPortScanRepeats(t, port) ==
  LET u == IF Len(t.ports) < ScanThreshold THEN [t EXCEPT !.ports = Append(t.ports, port)] ELSE t
  IN  Verdict(u, IF Len(u.ports) >= ScanThreshold THEN "PORT_SCAN" ELSE "NONE")

MutBruteForceKeepsCount(t, flags, port) ==
  LET w == IF now - t.bruteStart > BruteWindow THEN [t EXCEPT !.bruteStart = now] ELSE t
      u == [w EXCEPT !.brute = UpTo(w.brute + 1, BruteThreshold)]
  IN  IF ~InitialSyn(flags) \/ port \notin AuthPorts THEN Verdict(t, "NONE")
      ELSE Verdict(u, IF u.brute >= BruteThreshold THEN "BRUTE_FORCE" ELSE "NONE")

MutBruteForceOffByOne(t, flags, port) ==
  LET w == IF now - t.bruteStart > BruteWindow
             THEN [t EXCEPT !.brute = 0, !.bruteStart = now] ELSE t
      u == [w EXCEPT !.brute = UpTo(w.brute + 1, BruteThreshold)]
  IN  IF ~InitialSyn(flags) \/ port \notin AuthPorts THEN Verdict(t, "NONE")
      ELSE Verdict(u, IF w.brute >= BruteThreshold THEN "BRUTE_FORCE" ELSE "NONE")

(***************************************************************************)
(* The baseline, and the thresholds that adapt to it.                      *)
(***************************************************************************)
WindowOver(t) == now - t.windowStart >= EwmaWindow

update_baseline(t) ==
  IF WindowOver(t) THEN [t EXCEPT !.samples = UpTo(t.samples + 1, Calibration), !.windowStart = now]
                   ELSE t

\* Fixed until calibrated and while the variance is zero; then any number from the
\* floor up, there is no upper bound: no counter exceeds its cap.
Thresholds(t, fixed, floor, cap) ==
  IF t.samples >= Calibration THEN {fixed} \cup floor .. cap ELSE {fixed}

(***************************************************************************)
(* Each detector takes a suspect and gives its new state and its verdict.  *)
(***************************************************************************)
detect_icmp_flood(t, threshold) ==
  LET u == [t EXCEPT !.icmp = UpTo(t.icmp + 1, IcmpCap)]
  IN  Verdict(u, IF u.icmp > threshold THEN "ICMP_FLOOD" ELSE "NONE")

detect_stealth_scan(t, flags) ==
  LET Bump(b, n) == IF b THEN UpTo(n + 1, StealthThreshold) ELSE n
      isXmas == {"FIN", "PSH", "URG"} \subseteq flags
      isSynfin == {"SYN", "FIN"} \subseteq flags
      u == [t EXCEPT !.null = Bump(flags = {}, t.null), !.xmas = Bump(isXmas, t.xmas)]
      v == [u EXCEPT !.synfin = Bump(isSynfin, u.synfin)]
  IN  IF flags = {} /\ u.null >= StealthThreshold THEN Verdict(u, "NULL_SCAN")
      ELSE IF isXmas /\ u.xmas >= StealthThreshold THEN Verdict(u, "XMAS_SCAN")
      ELSE Verdict(v, IF isSynfin /\ v.synfin >= StealthThreshold THEN "SYNFIN_SCAN" ELSE "NONE")

detect_syn_flood(t, flags, threshold) ==
  LET u == [t EXCEPT !.syn = UpTo(t.syn + 1, SynCap)]
  IN  IF ~InitialSyn(flags) THEN Verdict(t, "NONE")
      ELSE Verdict(u, IF u.syn > threshold THEN "SYN_FLOOD" ELSE "NONE")

detect_brute_force(t, flags, port) ==
  LET w == IF now - t.bruteStart > BruteWindow
             THEN [t EXCEPT !.brute = 0, !.bruteStart = now] ELSE t
      u == [w EXCEPT !.brute = UpTo(w.brute + 1, BruteThreshold)]
  IN  IF ~InitialSyn(flags) \/ port \notin AuthPorts THEN Verdict(t, "NONE")
      ELSE Verdict(u, IF u.brute >= BruteThreshold THEN "BRUTE_FORCE" ELSE "NONE")

detect_port_scan(t, port) ==
  LET u == IF Len(t.ports) < ScanThreshold THEN [t EXCEPT !.ports = Append(t.ports, port)] ELSE t
  IN  IF port \in Range(t.ports) THEN Verdict(t, "NONE")
      ELSE Verdict(u, IF Len(u.ports) >= ScanThreshold THEN "PORT_SCAN" ELSE "NONE")

detect_dns_tunnel(t, suspicious) ==
  LET u == [t EXCEPT !.dnsSuspicious = UpTo(t.dnsSuspicious + 1, DnsMax)]
  IN  IF ~suspicious THEN Verdict(t, "NONE")
      ELSE Verdict(u, IF u.dnsSuspicious >= DnsMax THEN "DNS_TUNNEL" ELSE "NONE")

detect_amplification(t, bytes, response) ==
  LET u == IF response THEN [t EXCEPT !.resp = t.resp + bytes] ELSE [t EXCEPT !.req = t.req + bytes]
  IN  Verdict(u, IF u.req >= AmpFloor /\ u.resp > u.req * AmpRatio THEN "AMPLIFICATION" ELSE "NONE")

\* The first detector that speaks ends the analysis: the later ones do not even
\* count the packet.
TcpVerdict(t, flags, port, threshold) ==
  LET stealth == detect_stealth_scan(t, flags)
      syn     == detect_syn_flood(stealth.s, flags, threshold)
      brute   == detect_brute_force(syn.s, flags, port)
  IN  IF stealth.attack # "NONE" THEN stealth
      ELSE IF syn.attack # "NONE" THEN syn
      ELSE IF brute.attack # "NONE" THEN brute
      ELSE detect_port_scan(brute.s, port)

DnsVerdict(t, bytes, response, suspicious) ==
  LET tunnel == detect_dns_tunnel(t, suspicious)
  IN  IF response THEN detect_amplification(t, bytes, TRUE)
      ELSE IF tunnel.attack # "NONE" THEN tunnel
      ELSE detect_amplification(tunnel.s, bytes, FALSE)

(***************************************************************************)
(* The three branches of analyze_packet.                                   *)
(***************************************************************************)
Init ==
  /\ now = 0 /\ s = NewSuspect
  /\ attack = "NONE" /\ packets = 0 /\ authLog = <<>> /\ portsSeen = {}

Tick ==
  /\ now < MaxTime
  /\ now' = now + 1
  /\ attack' = "NONE"
  /\ UNCHANGED <<s, packets, authLog, portsSeen>>

Analyzed(verdict) ==
  /\ packets < MaxPackets /\ packets' = packets + 1
  /\ s' = verdict.s /\ attack' = verdict.attack
  /\ UNCHANGED now

AnalyzeIcmp ==
  LET t == update_baseline(s)
  IN  /\ "ICMP" \in Protocols
      /\ \E threshold \in Thresholds(t, IcmpThreshold, IcmpFloor, IcmpCap) :
           Analyzed(detect_icmp_flood(t, threshold))
      /\ UNCHANGED <<authLog, portsSeen>>

\* As much of the history as the properties look back on.
LogLength == 2 * BruteThreshold - 1
LastOf(log) == IF Len(log) > LogLength THEN Tail(log) ELSE log

AnalyzeTcp(flags, port) ==
  LET t == update_baseline(s)
  IN  /\ "TCP" \in Protocols
      /\ \E threshold \in Thresholds(t, SynThreshold, SynFloor, SynCap) :
           Analyzed(TcpVerdict(t, flags, port, threshold))
      /\ portsSeen' = portsSeen \cup {port}
      /\ authLog' = IF InitialSyn(flags) /\ port \in AuthPorts
                      THEN LastOf(Append(authLog, [at |-> now, attack |-> attack'])) ELSE authLog

AnalyzeDns(bytes, response, suspicious) ==
  /\ "UDP" \in Protocols
  /\ Analyzed(DnsVerdict(update_baseline(s), bytes, response, suspicious))
  /\ UNCHANGED <<authLog, portsSeen>>

AnalyzeUdp ==                  \* not DNS, or too short for it
  /\ "UDP" \in Protocols
  /\ Analyzed(Verdict(update_baseline(s), "NONE"))
  /\ UNCHANGED <<authLog, portsSeen>>

Done ==                        \* the clock and the packets stop at their bounds
  /\ now = MaxTime /\ packets = MaxPackets
  /\ UNCHANGED vars

Next ==
  \/ Tick \/ AnalyzeIcmp \/ AnalyzeUdp \/ Done
  \/ \E flags \in FlagSets, port \in Ports : AnalyzeTcp(flags, port)
  \/ \E bytes \in Sizes, response, suspicious \in BOOLEAN : AnalyzeDns(bytes, response, suspicious)

Spec == Init /\ [][Next]_vars

(***************************************************************************)
(* Properties.                                                             *)
(***************************************************************************)
Attacks == {"NONE", "ICMP_FLOOD", "NULL_SCAN", "XMAS_SCAN", "SYNFIN_SCAN", "SYN_FLOOD",
            "BRUTE_FORCE", "PORT_SCAN", "DNS_TUNNEL", "AMPLIFICATION"}

\* Values every variable keeps to; ports fits the array of SCAN_THRESHOLD.
TypeOK ==
  /\ now \in Nat /\ packets \in Nat /\ attack \in Attacks
  /\ s.ports \in Seq(Ports) /\ Len(s.ports) <= ScanThreshold
  /\ s.icmp \in 0 .. IcmpCap /\ s.syn \in 0 .. SynCap
  /\ {s.null, s.xmas, s.synfin} \subseteq 0 .. StealthThreshold
  /\ s.brute \in 0 .. BruteThreshold /\ s.dnsSuspicious \in 0 .. DnsMax
  /\ s.samples \in 0 .. Calibration
  /\ {s.bruteStart, s.windowStart, s.req, s.resp} \subseteq Nat
  /\ portsSeen \subseteq Ports

\* SYNs to an authentication port in the last BruteWindow seconds.
Recent == {i \in 1 .. Len(authLog) : now - authLog[i].at <= BruteWindow}

\* BRUTE_FORCE is no false alarm: BRUTE_THRESHOLD such SYNs did come within
\* BRUTE_WINDOW_SEC, however they lie across the detector's windows.
BruteForceSound == attack = "BRUTE_FORCE" => Cardinality(Recent) >= BruteThreshold

\* A burst is never silent: of 2 * BRUTE_THRESHOLD - 1 such SYNs within
\* BRUTE_WINDOW_SEC one at least was reported, as something, although the window
\* starts anew in the middle of the burst and other detectors take packets away.
BurstNeverSilent ==
  Cardinality(Recent) >= 2 * BruteThreshold - 1 => \E i \in Recent : authLog[i].attack # "NONE"

\* PORT_SCAN is no false alarm: SCAN_THRESHOLD different ports were addressed,
\* and the ports kept are different ones.
PortScanSound ==
  /\ attack = "PORT_SCAN" => Cardinality(portsSeen) >= ScanThreshold
  /\ Cardinality(Range(s.ports)) = Len(s.ports) /\ Range(s.ports) \subseteq portsSeen
=============================================================================

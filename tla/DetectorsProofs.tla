-------------------------- MODULE DetectorsProofs ---------------------------
(***************************************************************************)
(* PORT_SCAN and BRUTE_FORCE are no false alarms, and a burst of SYNs to   *)
(* an authentication port is not silent, whatever the thresholds and the   *)
(* windows are.                                                            *)
(***************************************************************************)
EXTENDS Detectors, SequenceTheorems, FiniteSetTheorems, TLAPS

Suspects ==
  [ports : Seq(Ports), icmp : 0 .. IcmpCap, syn : 0 .. SynCap, null : 0 .. StealthThreshold,
   xmas : 0 .. StealthThreshold, synfin : 0 .. StealthThreshold, brute : 0 .. BruteThreshold,
   bruteStart : Nat, dnsSuspicious : 0 .. DnsMax, req : Nat, resp : Nat,
   samples : 0 .. Calibration, windowStart : Nat]

\* What the other detectors leave alone.
SamePorts(t, u) == u.ports = t.ports
SameBrute(t, u) == u.brute = t.brute /\ u.bruteStart = t.bruteStart

(***************************************************************************)
(* The detectors.                                                          *)
(***************************************************************************)
\* A counter that stops at its cap.
LEMMA UpToInRange ==
  ASSUME NEW n \in Nat, NEW cap \in Nat
  PROVE  UpTo(n, cap) \in 0 .. cap
BY DEF UpTo

\* The thresholds and caps are positive numbers.
LEMMA ThresholdsArePositive ==
  /\ ScanThreshold \in Nat \ {0} /\ StealthThreshold \in Nat \ {0}
  /\ BruteThreshold \in Nat \ {0} /\ DnsMax \in Nat \ {0} /\ Calibration \in Nat \ {0}
  /\ IcmpCap \in Nat \ {0} /\ SynCap \in Nat \ {0}
  /\ BruteWindow \in Nat
<1>1. /\ ScanThreshold \in Nat \ {0} /\ StealthThreshold \in Nat \ {0}
      /\ BruteThreshold \in Nat \ {0} /\ DnsMax \in Nat \ {0} /\ Calibration \in Nat \ {0}
      /\ IcmpThreshold \in Nat /\ IcmpFloor \in Nat /\ SynThreshold \in Nat /\ SynFloor \in Nat
  BY ThresholdsAssumption
<1>2. IcmpCap \in Nat \ {0} /\ SynCap \in Nat \ {0}
  BY <1>1 DEF IcmpCap, SynCap
<1> QED BY <1>1, <1>2, BoundsAssumption

\* The counters of a suspect are numbers.
LEMMA CountersAreNumbers ==
  ASSUME NEW t \in Suspects
  PROVE  /\ t.samples \in Nat /\ t.icmp \in Nat /\ t.syn \in Nat /\ t.dnsSuspicious \in Nat
         /\ t.brute \in Nat /\ t.req \in Nat /\ t.resp \in Nat
<1>1. /\ t.samples \in 0 .. Calibration /\ t.icmp \in 0 .. IcmpCap /\ t.syn \in 0 .. SynCap
      /\ t.dnsSuspicious \in 0 .. DnsMax /\ t.brute \in 0 .. BruteThreshold
      /\ t.req \in Nat /\ t.resp \in Nat
  BY DEF Suspects
<1> QED BY <1>1

\* The baseline is none of the detectors' business.
LEMMA BaselineFrame ==
  ASSUME NEW t \in Suspects, now \in Nat
  PROVE  LET u == update_baseline(t)
         IN  u \in Suspects /\ SamePorts(t, u) /\ SameBrute(t, u)
<1>1. t.samples + 1 \in Nat
  BY CountersAreNumbers
<1>2. UpTo(t.samples + 1, Calibration) \in 0 .. Calibration
  BY <1>1, ThresholdsArePositive, UpToInRange
<1> QED BY <1>2 DEF update_baseline, Suspects, SamePorts, SameBrute

\* ICMP flood.
LEMMA IcmpFrame ==
  ASSUME NEW t \in Suspects, NEW threshold
  PROVE  LET v == detect_icmp_flood(t, threshold)
         IN  /\ v.s \in Suspects /\ SamePorts(t, v.s) /\ SameBrute(t, v.s)
             /\ v.attack \in {"ICMP_FLOOD", "NONE"}
<1>1. t.icmp + 1 \in Nat
  BY CountersAreNumbers
<1>2. UpTo(t.icmp + 1, IcmpCap) \in 0 .. IcmpCap
  BY <1>1, ThresholdsArePositive, UpToInRange
<1> DEFINE u == [t EXCEPT !.icmp = UpTo(t.icmp + 1, IcmpCap)]
<1>3. u \in Suspects /\ SamePorts(t, u) /\ SameBrute(t, u)
  BY <1>2 DEF Suspects, SamePorts, SameBrute
<1>4. /\ detect_icmp_flood(t, threshold).s = u
      /\ detect_icmp_flood(t, threshold).attack \in {"ICMP_FLOOD", "NONE"}
  BY DEF detect_icmp_flood, Verdict
<1> HIDE DEF u
<1> QED BY <1>3, <1>4

\* Stealth scans.
LEMMA StealthFrame ==
  ASSUME NEW t \in Suspects, NEW flags
  PROVE  LET v == detect_stealth_scan(t, flags)
         IN  /\ v.s \in Suspects /\ SamePorts(t, v.s) /\ SameBrute(t, v.s)
             /\ v.attack \in {"NULL_SCAN", "XMAS_SCAN", "SYNFIN_SCAN", "NONE"}
<1> DEFINE Bump(b, n) == IF b THEN UpTo(n + 1, StealthThreshold) ELSE n
           isXmas == {"FIN", "PSH", "URG"} \subseteq flags
           isSynfin == {"SYN", "FIN"} \subseteq flags
           u == [t EXCEPT !.null = Bump(flags = {}, t.null), !.xmas = Bump(isXmas, t.xmas)]
           w == [u EXCEPT !.synfin = Bump(isSynfin, u.synfin)]
<1>1. \A b \in BOOLEAN, n \in 0 .. StealthThreshold : Bump(b, n) \in 0 .. StealthThreshold
  BY ThresholdsArePositive DEF UpTo
<1>2. /\ Bump(flags = {}, t.null) \in 0 .. StealthThreshold
      /\ Bump(isXmas, t.xmas) \in 0 .. StealthThreshold
      /\ Bump(isSynfin, t.synfin) \in 0 .. StealthThreshold
  <2>1. t.null \in 0 .. StealthThreshold /\ t.xmas \in 0 .. StealthThreshold
        /\ t.synfin \in 0 .. StealthThreshold
    BY DEF Suspects
  <2> HIDE DEF Bump
  <2> QED BY <1>1, <2>1
<1>3. /\ \/ detect_stealth_scan(t, flags).s = u
         \/ detect_stealth_scan(t, flags).s = w
      /\ detect_stealth_scan(t, flags).attack
           \in {"NULL_SCAN", "XMAS_SCAN", "SYNFIN_SCAN", "NONE"}
  <2>1. \A x, a : Verdict(x, a).s = x /\ Verdict(x, a).attack = a
    BY DEF Verdict
  <2>2. \/ detect_stealth_scan(t, flags) = Verdict(u, "NULL_SCAN")
        \/ detect_stealth_scan(t, flags) = Verdict(u, "XMAS_SCAN")
        \/ detect_stealth_scan(t, flags) = Verdict(w, "SYNFIN_SCAN")
        \/ detect_stealth_scan(t, flags) = Verdict(w, "NONE")
    BY DEF detect_stealth_scan
  <2> HIDE DEF u, w
  <2> QED BY <2>1, <2>2
<1> HIDE DEF Bump
<1>4. u \in Suspects /\ SamePorts(t, u) /\ SameBrute(t, u) /\ u.synfin = t.synfin
  BY <1>2 DEF Suspects, SamePorts, SameBrute
<1> HIDE DEF u
<1>5. w \in Suspects /\ SamePorts(t, w) /\ SameBrute(t, w)
  BY <1>2, <1>4 DEF Suspects, SamePorts, SameBrute
<1> HIDE DEF w
<1> QED BY <1>3, <1>4, <1>5

\* SYN flood.
LEMMA SynFrame ==
  ASSUME NEW t \in Suspects, NEW flags, NEW threshold
  PROVE  LET v == detect_syn_flood(t, flags, threshold)
         IN  /\ v.s \in Suspects /\ SamePorts(t, v.s) /\ SameBrute(t, v.s)
             /\ v.attack \in {"SYN_FLOOD", "NONE"}
<1>1. t.syn + 1 \in Nat
  BY CountersAreNumbers
<1>2. UpTo(t.syn + 1, SynCap) \in 0 .. SynCap
  BY <1>1, ThresholdsArePositive, UpToInRange
<1> DEFINE u == [t EXCEPT !.syn = UpTo(t.syn + 1, SynCap)]
<1>3. u \in Suspects /\ SamePorts(t, u) /\ SameBrute(t, u)
  BY <1>2 DEF Suspects, SamePorts, SameBrute
<1>4. /\ detect_syn_flood(t, flags, threshold).s \in {t, u}
      /\ detect_syn_flood(t, flags, threshold).attack \in {"SYN_FLOOD", "NONE"}
  BY DEF detect_syn_flood, Verdict
<1>5. SamePorts(t, t) /\ SameBrute(t, t)
  BY DEF SamePorts, SameBrute
<1> HIDE DEF u
<1> QED BY <1>3, <1>4, <1>5

\* DNS tunnel.
LEMMA DnsFrame ==
  ASSUME NEW t \in Suspects, NEW suspicious
  PROVE  LET v == detect_dns_tunnel(t, suspicious)
         IN  /\ v.s \in Suspects /\ SamePorts(t, v.s) /\ SameBrute(t, v.s)
             /\ v.attack \in {"DNS_TUNNEL", "NONE"}
<1>1. t.dnsSuspicious + 1 \in Nat
  BY CountersAreNumbers
<1>2. UpTo(t.dnsSuspicious + 1, DnsMax) \in 0 .. DnsMax
  BY <1>1, ThresholdsArePositive, UpToInRange
<1> DEFINE u == [t EXCEPT !.dnsSuspicious = UpTo(t.dnsSuspicious + 1, DnsMax)]
<1>3. u \in Suspects /\ SamePorts(t, u) /\ SameBrute(t, u)
  BY <1>2 DEF Suspects, SamePorts, SameBrute
<1>4. /\ detect_dns_tunnel(t, suspicious).s \in {t, u}
      /\ detect_dns_tunnel(t, suspicious).attack \in {"DNS_TUNNEL", "NONE"}
  BY DEF detect_dns_tunnel, Verdict
<1>5. SamePorts(t, t) /\ SameBrute(t, t)
  BY DEF SamePorts, SameBrute
<1> HIDE DEF u
<1> QED BY <1>3, <1>4, <1>5

\* Amplification.
LEMMA AmplificationFrame ==
  ASSUME NEW t \in Suspects, NEW bytes \in Nat, NEW response
  PROVE  LET v == detect_amplification(t, bytes, response)
         IN  /\ v.s \in Suspects /\ SamePorts(t, v.s) /\ SameBrute(t, v.s)
             /\ v.attack \in {"AMPLIFICATION", "NONE"}
<1>1. t.resp + bytes \in Nat /\ t.req + bytes \in Nat
  BY CountersAreNumbers
<1> DEFINE u == IF response THEN [t EXCEPT !.resp = t.resp + bytes]
                            ELSE [t EXCEPT !.req = t.req + bytes]
<1>2. u \in Suspects /\ SamePorts(t, u) /\ SameBrute(t, u)
  BY <1>1 DEF Suspects, SamePorts, SameBrute
<1>3. /\ detect_amplification(t, bytes, response).s = u
      /\ detect_amplification(t, bytes, response).attack \in {"AMPLIFICATION", "NONE"}
  BY DEF detect_amplification, Verdict
<1> HIDE DEF u
<1> QED BY <1>2, <1>3
\* The ports kept are different ones, and were seen.
PortsOK(ports, seen) ==
  /\ Len(ports) <= ScanThreshold
  /\ \A i, j \in 1 .. Len(ports) : ports[i] = ports[j] => i = j
  /\ \A i \in 1 .. Len(ports) : ports[i] \in seen

\* Port scan: a port that is kept is a new one.
LEMMA PortScanFrame ==
  ASSUME NEW t \in Suspects, NEW port \in Ports, NEW seen, PortsOK(t.ports, seen)
  PROVE  LET v == detect_port_scan(t, port)
         IN  /\ v.s \in Suspects /\ SameBrute(t, v.s) /\ v.attack \in {"PORT_SCAN", "NONE"}
             /\ PortsOK(v.s.ports, seen \cup {port})
             /\ v.attack = "PORT_SCAN" => Len(v.s.ports) >= ScanThreshold
<1> DEFINE added == Append(t.ports, port)
           u == IF Len(t.ports) < ScanThreshold THEN [t EXCEPT !.ports = added] ELSE t
           v == detect_port_scan(t, port)
<1>1. t.ports \in Seq(Ports) /\ Len(t.ports) \in Nat /\ DOMAIN t.ports = 1 .. Len(t.ports)
  BY LenProperties DEF Suspects
<1>2. SameBrute(t, t) /\ PortsOK(t.ports, seen \cup {port})
  BY DEF SameBrute, PortsOK
<1>3. CASE port \in Range(t.ports)
  <2>1. v = Verdict(t, "NONE")
    BY <1>3 DEF detect_port_scan
  <2>2. v.s = t /\ v.attack = "NONE"
    BY <2>1 DEF Verdict
  <2> HIDE DEF v
  <2> QED BY <1>2, <2>2 DEF v
<1>4. CASE port \notin Range(t.ports)
  <2>1. \A i \in 1 .. Len(t.ports) : t.ports[i] # port
    BY <1>1, <1>4 DEF Range
  <2>2. /\ added \in Seq(Ports) /\ Len(added) = Len(t.ports) + 1
        /\ \A i \in 1 .. Len(t.ports) : added[i] = t.ports[i]
        /\ added[Len(t.ports) + 1] = port
    BY <1>1, AppendProperties
  <2>3. Len(t.ports) < ScanThreshold => PortsOK(added, seen \cup {port})
    <3> HIDE DEF added
    <3> SUFFICES ASSUME Len(t.ports) < ScanThreshold PROVE PortsOK(added, seen \cup {port})
      OBVIOUS
    <3>1. \A i \in 1 .. Len(added) : i \in 1 .. Len(t.ports) \/ i = Len(t.ports) + 1
      BY <1>1, <2>2
    <3>2. ASSUME NEW i \in 1 .. Len(added), NEW j \in 1 .. Len(added), added[i] = added[j]
          PROVE  i = j
      BY <1>1, <2>1, <2>2, <3>1, <3>2 DEF PortsOK
    <3>3. ASSUME NEW i \in 1 .. Len(added) PROVE added[i] \in seen \cup {port}
      BY <2>2, <3>1 DEF PortsOK
    <3>4. Len(added) <= ScanThreshold
      BY <1>1, <2>2, ThresholdsArePositive
    <3> QED BY <3>2, <3>3, <3>4 DEF PortsOK
  <2>4. u \in Suspects /\ SameBrute(t, u) /\ PortsOK(u.ports, seen \cup {port})
    <3>1. CASE Len(t.ports) < ScanThreshold
      <4> HIDE DEF added
      <4>1. u = [t EXCEPT !.ports = added]
        BY <3>1
      <4>2. u \in Suspects /\ SameBrute(t, u) /\ u.ports = added
        BY <2>2, <4>1 DEF Suspects, SameBrute
      <4> QED BY <2>3, <3>1, <4>2
    <3>2. CASE ~(Len(t.ports) < ScanThreshold)
      BY <1>2, <3>2
    <3> QED BY <3>1, <3>2
  <2>5. v = Verdict(u, IF Len(u.ports) >= ScanThreshold THEN "PORT_SCAN" ELSE "NONE")
    BY <1>4 DEF detect_port_scan
  <2> HIDE DEF u, v
  <2>6. v.s = u /\ v.attack = IF Len(u.ports) >= ScanThreshold THEN "PORT_SCAN" ELSE "NONE"
    BY <2>5 DEF Verdict
  <2> QED BY <2>4, <2>6 DEF v
<1> QED BY <1>3, <1>4

\* A SYN to an authentication port is counted, in the window or as the first of a
\* new one.
ToAuth(flags, port) == InitialSyn(flags) /\ port \in AuthPorts
Counted(t, u) ==
  IF now - t.bruteStart > BruteWindow
    THEN u.brute = 1 /\ u.bruteStart = now
    ELSE u.brute = UpTo(t.brute + 1, BruteThreshold) /\ u.bruteStart = t.bruteStart

\* Brute force.
LEMMA BruteForceFrame ==
  ASSUME NEW t \in Suspects, NEW flags, NEW port, now \in Nat
  PROVE  LET v == detect_brute_force(t, flags, port)
         IN  /\ v.s \in Suspects /\ SamePorts(t, v.s) /\ v.attack \in {"BRUTE_FORCE", "NONE"}
             /\ ToAuth(flags, port) => /\ Counted(t, v.s)
                                       /\ v.attack = "NONE" <=> v.s.brute < BruteThreshold
             /\ ~ToAuth(flags, port) => SameBrute(t, v.s) /\ v.attack = "NONE"
<1> DEFINE w == IF now - t.bruteStart > BruteWindow
                  THEN [t EXCEPT !.brute = 0, !.bruteStart = now] ELSE t
           u == [w EXCEPT !.brute = UpTo(w.brute + 1, BruteThreshold)]
           v == detect_brute_force(t, flags, port)
<1>1. CASE ToAuth(flags, port)
  <2>1. /\ w \in Suspects /\ SamePorts(t, w)
        /\ IF now - t.bruteStart > BruteWindow
             THEN w.brute = 0 /\ w.bruteStart = now
             ELSE w.brute = t.brute /\ w.bruteStart = t.bruteStart
    <3>1. 0 \in 0 .. BruteThreshold
      BY ThresholdsArePositive
    <3> QED BY <3>1 DEF Suspects, SamePorts
  <2> HIDE DEF w
  <2>2. w.brute + 1 \in Nat
    <3>1. w.brute \in 0 .. BruteThreshold
      BY <2>1 DEF Suspects
    <3> QED BY <3>1, ThresholdsArePositive
  <2>3. UpTo(w.brute + 1, BruteThreshold) \in 0 .. BruteThreshold
    BY <2>2, ThresholdsArePositive, UpToInRange
  <2>4. /\ u \in Suspects /\ SamePorts(t, u) /\ u.bruteStart = w.bruteStart
        /\ u.brute = UpTo(w.brute + 1, BruteThreshold)
    BY <2>1, <2>3 DEF Suspects, SamePorts
  <2>5. v = Verdict(u, IF u.brute >= BruteThreshold THEN "BRUTE_FORCE" ELSE "NONE")
    BY <1>1 DEF detect_brute_force, ToAuth, w
  <2> HIDE DEF u, v
  <2>6. v.s = u /\ v.attack = IF u.brute >= BruteThreshold THEN "BRUTE_FORCE" ELSE "NONE"
    BY <2>5 DEF Verdict
  <2>7. Counted(t, u)
    <3>1. UpTo(1, BruteThreshold) = 1
      BY ThresholdsArePositive DEF UpTo
    <3>2. 0 + 1 = 1
      OBVIOUS
    <3> QED BY <2>1, <2>4, <3>1, <3>2 DEF Counted
  <2>8. u.brute \in Nat /\ BruteThreshold \in Nat
    BY <2>3, <2>4, ThresholdsArePositive
  <2> QED BY <1>1, <2>4, <2>6, <2>7, <2>8 DEF v
<1>2. CASE ~ToAuth(flags, port)
  <2>1. v = Verdict(t, "NONE")
    BY <1>2 DEF detect_brute_force, ToAuth
  <2> HIDE DEF v
  <2>2. v.s = t /\ v.attack = "NONE"
    BY <2>1 DEF Verdict
  <2> QED BY <1>2, <2>2 DEF SamePorts, SameBrute, v
<1> QED BY <1>1, <1>2

\* What TcpVerdict makes of a packet, whoever speaks first.
LEMMA TcpFrame ==
  ASSUME NEW t \in Suspects, NEW flags, NEW port \in Ports, NEW threshold, NEW seen,
         PortsOK(t.ports, seen), now \in Nat
  PROVE  LET v == TcpVerdict(t, flags, port, threshold)
         IN  /\ v.s \in Suspects /\ v.attack \in Attacks
             /\ PortsOK(v.s.ports, seen \cup {port})
             /\ v.attack = "PORT_SCAN" => Len(v.s.ports) >= ScanThreshold
             /\ ~ToAuth(flags, port) => SameBrute(t, v.s) /\ v.attack # "BRUTE_FORCE"
             /\ ToAuth(flags, port) => Counted(t, v.s) \/ SameBrute(t, v.s)
             /\ ToAuth(flags, port) /\ v.attack = "NONE"
                  => Counted(t, v.s) /\ v.s.brute < BruteThreshold
             /\ v.attack = "BRUTE_FORCE" => Counted(t, v.s) /\ v.s.brute >= BruteThreshold
<1> DEFINE stealth == detect_stealth_scan(t, flags)
           syn == detect_syn_flood(stealth.s, flags, threshold)
           brute == detect_brute_force(syn.s, flags, port)
           scan == detect_port_scan(brute.s, port)
           v == TcpVerdict(t, flags, port, threshold)
<1>1. \/ v = stealth /\ stealth.attack # "NONE"
      \/ v = syn /\ syn.attack # "NONE"
      \/ v = brute /\ brute.attack # "NONE"
      \/ v = scan /\ brute.attack = "NONE"
  BY DEF TcpVerdict
<1>2. /\ stealth.s \in Suspects /\ SamePorts(t, stealth.s) /\ SameBrute(t, stealth.s)
      /\ stealth.attack \in {"NULL_SCAN", "XMAS_SCAN", "SYNFIN_SCAN", "NONE"}
  BY StealthFrame
<1> HIDE DEF stealth
<1>3. /\ syn.s \in Suspects /\ SamePorts(stealth.s, syn.s) /\ SameBrute(stealth.s, syn.s)
      /\ syn.attack \in {"SYN_FLOOD", "NONE"}
  BY <1>2, SynFrame
<1> HIDE DEF syn
<1>4. /\ brute.s \in Suspects /\ SamePorts(syn.s, brute.s)
      /\ brute.attack \in {"BRUTE_FORCE", "NONE"}
      /\ ToAuth(flags, port) => /\ Counted(syn.s, brute.s)
                                /\ brute.attack = "NONE" <=> brute.s.brute < BruteThreshold
      /\ ~ToAuth(flags, port) => SameBrute(syn.s, brute.s) /\ brute.attack = "NONE"
  BY <1>3, BruteForceFrame
<1> HIDE DEF brute
<1>5. /\ stealth.s.ports = t.ports /\ syn.s.ports = t.ports /\ brute.s.ports = t.ports
      /\ SameBrute(t, stealth.s) /\ SameBrute(t, syn.s)
  BY <1>2, <1>3, <1>4 DEF SamePorts, SameBrute
<1>6. /\ ToAuth(flags, port) => Counted(t, brute.s)
      /\ ~ToAuth(flags, port) => SameBrute(t, brute.s)
  BY <1>4, <1>5 DEF SameBrute, Counted
<1>7. PortsOK(brute.s.ports, seen)
  BY <1>5
<1>8. /\ scan.s \in Suspects /\ SameBrute(brute.s, scan.s)
      /\ scan.attack \in {"PORT_SCAN", "NONE"}
      /\ PortsOK(scan.s.ports, seen \cup {port})
      /\ scan.attack = "PORT_SCAN" => Len(scan.s.ports) >= ScanThreshold
  BY <1>4, <1>7, PortScanFrame
<1> HIDE DEF scan
<1>9. /\ ToAuth(flags, port) => Counted(t, scan.s)
      /\ ~ToAuth(flags, port) => SameBrute(t, scan.s)
  BY <1>6, <1>8 DEF SameBrute, Counted
<1>10. PortsOK(t.ports, seen \cup {port})
  BY DEF PortsOK
<1>11. brute.s.brute \in Nat /\ BruteThreshold \in Nat
  BY <1>4, ThresholdsArePositive, CountersAreNumbers
<1> HIDE DEF v
<1>12. CASE v = stealth /\ stealth.attack # "NONE"
  BY <1>2, <1>5, <1>10, <1>12 DEF v, Attacks
<1>13. CASE v = syn /\ syn.attack # "NONE"
  BY <1>3, <1>5, <1>10, <1>13 DEF v, Attacks
<1>14. CASE v = brute /\ brute.attack # "NONE"
  BY <1>4, <1>5, <1>6, <1>10, <1>11, <1>14 DEF v, Attacks
<1>15. CASE v = scan /\ brute.attack = "NONE"
  BY <1>4, <1>8, <1>9, <1>15 DEF v, Attacks, SameBrute
<1> QED BY <1>1, <1>12, <1>13, <1>14, <1>15

\* What DnsVerdict makes of a packet.
LEMMA DnsVerdictFrame ==
  ASSUME NEW t \in Suspects, NEW bytes \in Nat, NEW response, NEW suspicious
  PROVE  LET v == DnsVerdict(t, bytes, response, suspicious)
         IN  /\ v.s \in Suspects /\ SamePorts(t, v.s) /\ SameBrute(t, v.s)
             /\ v.attack \in {"DNS_TUNNEL", "AMPLIFICATION", "NONE"}
<1> DEFINE tunnel == detect_dns_tunnel(t, suspicious)
           asked == detect_amplification(tunnel.s, bytes, FALSE)
           told == detect_amplification(t, bytes, TRUE)
           v == DnsVerdict(t, bytes, response, suspicious)
<1>1. v = told \/ v = tunnel \/ v = asked
  BY DEF DnsVerdict
<1>2. /\ tunnel.s \in Suspects /\ SamePorts(t, tunnel.s) /\ SameBrute(t, tunnel.s)
      /\ tunnel.attack \in {"DNS_TUNNEL", "NONE"}
  BY DnsFrame
<1> HIDE DEF tunnel
<1>3. /\ asked.s \in Suspects /\ SamePorts(tunnel.s, asked.s) /\ SameBrute(tunnel.s, asked.s)
      /\ asked.attack \in {"AMPLIFICATION", "NONE"}
  BY <1>2, AmplificationFrame
<1>4. /\ told.s \in Suspects /\ SamePorts(t, told.s) /\ SameBrute(t, told.s)
      /\ told.attack \in {"AMPLIFICATION", "NONE"}
  BY AmplificationFrame
<1> HIDE DEF asked, told
<1>5. SamePorts(t, asked.s) /\ SameBrute(t, asked.s)
  BY <1>2, <1>3 DEF SamePorts, SameBrute
<1> HIDE DEF v
<1> QED BY <1>1, <1>2, <1>3, <1>4, <1>5 DEF v
(***************************************************************************)
(* The log of SYNs to authentication ports.                                *)
(***************************************************************************)
Entries == [at : Nat, attack : Attacks]

\* In the order of time, up to now.
InOrder(log, time) ==
  /\ \A i, j \in 1 .. Len(log) : i <= j => log[i].at <= log[j].at
  /\ \A i \in 1 .. Len(log) : log[i].at <= time

\* What the detector has counted are not the last entries, since other detectors take
\* some, but as many of the last entries came within its window.
InWindow(log, brute, start) ==
  /\ brute <= Len(log)
  /\ \A i \in 1 .. Len(log) : i > Len(log) - brute => log[i].at >= start

SilentFrom(log, j) == \A i \in j .. Len(log) : log[i].attack = "NONE"

\* The entries from a silent j on were all counted; or counted but for those before
\* the window started anew, which are fewer than the threshold; or it has started
\* anew twice since, and j is a window ago.
SilentOnes(log, brute, start) ==
  \A j \in 1 .. Len(log) : SilentFrom(log, j) =>
    /\ brute < BruteThreshold
    /\ \/ Len(log) - j + 1 <= brute
       \/ start >= log[j].at /\ Len(log) - j + 1 <= brute + BruteThreshold - 1
       \/ log[j].at + BruteWindow < start

LogOK(log, brute, start, time) ==
  /\ log \in Seq(Entries)
  /\ InOrder(log, time) /\ InWindow(log, brute, start) /\ SilentOnes(log, brute, start)

\* The oldest entry is forgotten when it is out of reach.
LEMMA LogForgets ==
  ASSUME NEW log, NEW brute \in Nat, NEW start \in Nat, NEW time \in Nat,
         LogOK(log, brute, start, time), brute < Len(log)
  PROVE  LogOK(Tail(log), brute, start, time) /\ Len(Tail(log)) = Len(log) - 1
<1> DEFINE rest == Tail(log)
           n == Len(log)
<1>1. log \in Seq(Entries) /\ n \in Nat /\ n > 0 /\ log # <<>>
  <2>1. log \in Seq(Entries) /\ n \in Nat /\ n > 0
    BY LenProperties DEF LogOK
  <2> QED BY <2>1, EmptySeq
<1>2. /\ rest \in Seq(Entries) /\ Len(rest) = n - 1
      /\ \A i \in 1 .. n - 1 : rest[i] = log[i + 1]
  BY <1>1, HeadTailProperties
<1> HIDE DEF rest, n
<1>3. \A i \in 1 .. n - 1 : i + 1 \in 1 .. n
  BY <1>1
<1>4. InOrder(rest, time)
  <2>1. ASSUME NEW i \in 1 .. n - 1, NEW j \in 1 .. n - 1, i <= j
        PROVE  rest[i].at <= rest[j].at
    <3>1. i + 1 \in 1 .. n /\ j + 1 \in 1 .. n /\ i + 1 <= j + 1
      BY <1>1, <2>1
    <3> QED BY <1>2, <3>1 DEF LogOK, InOrder, n
  <2>2. ASSUME NEW i \in 1 .. n - 1 PROVE rest[i].at <= time
    BY <1>2, <1>3 DEF LogOK, InOrder, n
  <2>3. Len(rest) = n - 1
    BY <1>2
  <2> QED BY <2>1, <2>2, <2>3 DEF InOrder
<1>5. InWindow(rest, brute, start)
  <2>1. brute <= n - 1
    BY <1>1 DEF n
  <2>2. ASSUME NEW i \in 1 .. n - 1, i > n - 1 - brute
        PROVE  rest[i].at >= start
    <3>1. i + 1 \in 1 .. n /\ i + 1 > n - brute
      BY <1>1, <2>2
    <3> QED BY <1>2, <3>1 DEF LogOK, InWindow, n
  <2> QED BY <1>2, <2>1, <2>2 DEF InWindow
<1>6. SilentOnes(rest, brute, start)
  <2>1. ASSUME NEW j \in 1 .. n - 1, SilentFrom(rest, j)
        PROVE  /\ brute < BruteThreshold
               /\ \/ n - 1 - j + 1 <= brute
                  \/ /\ start >= rest[j].at
                     /\ n - 1 - j + 1 <= brute + BruteThreshold - 1
                  \/ rest[j].at + BruteWindow < start
    <3>1. j + 1 \in 1 .. n /\ n - (j + 1) + 1 = n - 1 - j + 1
      BY <1>1
    <3>2. ASSUME NEW i \in j + 1 .. n PROVE log[i].attack = "NONE"
      <4>1. i - 1 \in j .. n - 1 /\ i - 1 \in 1 .. n - 1 /\ (i - 1) + 1 = i
        BY <1>1, <3>2
      <4>2. rest[i - 1] = log[i]
        BY <1>2, <4>1
      <4> QED BY <1>2, <2>1, <4>1, <4>2 DEF SilentFrom
    <3>3. SilentFrom(log, j + 1)
      BY <3>2 DEF SilentFrom, n
    <3>4. /\ brute < BruteThreshold
          /\ \/ n - (j + 1) + 1 <= brute
             \/ /\ start >= log[j + 1].at
                /\ n - (j + 1) + 1 <= brute + BruteThreshold - 1
             \/ log[j + 1].at + BruteWindow < start
      BY <3>1, <3>3 DEF LogOK, SilentOnes, n
    <3>5. rest[j] = log[j + 1]
      BY <1>2
    <3> QED BY <3>1, <3>4, <3>5
  <2> QED BY <1>2, <2>1 DEF SilentOnes
<1> QED BY <1>2, <1>4, <1>5, <1>6 DEF LogOK, rest, n

\* A SYN is logged: counted, or taken by another detector.
LEMMA LogGrows ==
  ASSUME NEW log, NEW brute \in 0 .. BruteThreshold, NEW start \in Nat,
         NEW b \in 0 .. BruteThreshold, NEW s1 \in Nat, NEW time \in Nat,
         NEW e \in Entries, e.at = time, start <= time,
         LogOK(log, brute, start, time),
         \/ b = brute /\ s1 = start /\ e.attack # "NONE"
         \/ time - start > BruteWindow /\ b = 1 /\ s1 = time
         \/ /\ time - start <= BruteWindow /\ s1 = start
            /\ b = UpTo(brute + 1, BruteThreshold),
         e.attack = "NONE" => b < BruteThreshold
  PROVE  LogOK(Append(log, e), b, s1, time)
<1> DEFINE more == Append(log, e)
           n == Len(log)
<1>1. log \in Seq(Entries) /\ n \in Nat
  BY LenProperties DEF LogOK
<1>2. /\ more \in Seq(Entries) /\ Len(more) = n + 1 /\ more[n + 1] = e
      /\ \A i \in 1 .. n : more[i] = log[i]
  BY <1>1, AppendProperties
<1>3. /\ \A i \in 1 .. n : log[i].at \in Nat /\ log[i].at <= time
      /\ BruteWindow \in Nat /\ BruteThreshold \in Nat \ {0} /\ brute \in Nat /\ b \in Nat
  <2>1. \A i \in 1 .. n : log[i] \in Entries
    BY <1>1, ElementOfSeq
  <2>2. \A i \in 1 .. n : log[i].at \in Nat
    BY <2>1 DEF Entries
  <2>3. \A i \in 1 .. n : log[i].at <= time
    BY DEF LogOK, InOrder
  <2> QED BY <2>2, <2>3, ThresholdsArePositive
<1>4. /\ \A i, j \in 1 .. n : i <= j => log[i].at <= log[j].at
      /\ brute <= n
      /\ \A i \in 1 .. n : i > n - brute => log[i].at >= start
  BY DEF LogOK, InOrder, InWindow
<1>5. \A j \in 1 .. n : SilentFrom(log, j) =>
        /\ brute < BruteThreshold
        /\ \/ n - j + 1 <= brute
           \/ start >= log[j].at /\ n - j + 1 <= brute + BruteThreshold - 1
           \/ log[j].at + BruteWindow < start
  BY DEF LogOK, SilentOnes
<1> HIDE DEF more, n
<1>6. \A i \in 1 .. n + 1 : i \in 1 .. n \/ i = n + 1
  BY <1>1
<1>7. InOrder(more, time)
  <2>1. ASSUME NEW i \in 1 .. n + 1, NEW j \in 1 .. n + 1, i <= j
        PROVE  more[i].at <= more[j].at
    <3>1. CASE j \in 1 .. n
      <4>1. i \in 1 .. n
        BY <1>1, <2>1, <3>1
      <4> QED BY <1>2, <1>4, <2>1, <3>1, <4>1
    <3>2. CASE j = n + 1
      BY <1>2, <1>3, <1>6, <3>2
    <3> QED BY <1>6, <3>1, <3>2
  <2>2. ASSUME NEW i \in 1 .. n + 1 PROVE more[i].at <= time
    BY <1>2, <1>3, <1>6
  <2> QED BY <1>2, <2>1, <2>2 DEF InOrder
<1>8. b <= brute + 1 /\ (brute + 1 < BruteThreshold => b <= brute + 1)
  <2>1. UpTo(brute + 1, BruteThreshold) <= brute + 1
    BY <1>3 DEF UpTo
  <2> QED BY <1>3, <2>1
<1>9. InWindow(more, b, s1)
  <2>1. b <= n + 1
    BY <1>1, <1>3, <1>4, <1>8
  <2>2. ASSUME NEW i \in 1 .. n + 1, i > n + 1 - b
        PROVE  more[i].at >= s1
    <3>1. CASE i = n + 1
      BY <1>2, <1>3, <3>1
    <3>2. CASE i \in 1 .. n /\ b = 1
      BY <1>1, <2>2, <3>2
    <3>3. CASE i \in 1 .. n /\ s1 = start
      <4>1. i > n - brute
        BY <1>1, <1>3, <1>8, <2>2
      <4> QED BY <1>2, <1>4, <3>3, <4>1
    <3> QED BY <1>6, <3>1, <3>2, <3>3
  <2>3. Len(more) = n + 1
    BY <1>2
  <2> QED BY <1>1, <1>3, <2>1, <2>2, <2>3 DEF InWindow
<1>10. SilentOnes(more, b, s1)
  <2>1. ASSUME NEW j \in 1 .. n + 1, SilentFrom(more, j)
        PROVE  /\ b < BruteThreshold
               /\ \/ n + 1 - j + 1 <= b
                  \/ s1 >= more[j].at /\ n + 1 - j + 1 <= b + BruteThreshold - 1
                  \/ more[j].at + BruteWindow < s1
    <3>1. e.attack = "NONE"
      <4>1. n + 1 \in j .. Len(more)
        BY <1>1, <1>2
      <4> QED BY <1>2, <2>1, <4>1 DEF SilentFrom
    <3>2. b < BruteThreshold
      BY <3>1
    <3>3. \/ time - start > BruteWindow /\ b = 1 /\ s1 = time
          \/ time - start <= BruteWindow /\ s1 = start /\ b = brute + 1
      <4>1. UpTo(brute + 1, BruteThreshold) < BruteThreshold
              => UpTo(brute + 1, BruteThreshold) = brute + 1
        BY <1>3 DEF UpTo
      <4> QED BY <3>1, <3>2, <4>1
    <3>4. CASE j = n + 1
      <4>1. n + 1 - j + 1 = 1 /\ b >= 1
        BY <1>1, <1>3, <3>3, <3>4
      <4> QED BY <3>2, <4>1
    <3>5. CASE j \in 1 .. n
      <4>1. SilentFrom(log, j)
        <5>1. ASSUME NEW i \in j .. n PROVE log[i].attack = "NONE"
          <6>1. i \in 1 .. n /\ i \in j .. n + 1
            BY <1>1, <3>5
          <6> QED BY <1>2, <2>1, <6>1 DEF SilentFrom
        <5> QED BY <5>1 DEF SilentFrom, n
      <4>2. /\ brute < BruteThreshold
            /\ \/ n - j + 1 <= brute
               \/ start >= log[j].at /\ n - j + 1 <= brute + BruteThreshold - 1
               \/ log[j].at + BruteWindow < start
        BY <1>5, <3>5, <4>1
      <4>3. more[j] = log[j] /\ log[j].at \in Nat /\ log[j].at <= time
        BY <1>2, <1>3, <3>5
      <4> DEFINE at == log[j].at
      <4>4. at \in Nat /\ at <= time /\ n \in Nat /\ j \in Nat
        BY <1>1, <3>5, <4>3
      <4>5. \/ n - j + 1 <= brute
            \/ start >= at /\ n - j + 1 <= brute + BruteThreshold - 1
            \/ at + BruteWindow < start
        BY <4>2
      <4>6. \/ n + 1 - j + 1 <= b
            \/ s1 >= at /\ n + 1 - j + 1 <= b + BruteThreshold - 1
            \/ at + BruteWindow < s1
        <5> HIDE DEF at
        <5>1. CASE time - start > BruteWindow /\ b = 1 /\ s1 = time
          BY <1>3, <4>2, <4>4, <4>5, <5>1
        <5>2. CASE s1 = start /\ b = brute + 1
          BY <1>3, <4>4, <4>5, <5>2
        <5> QED BY <3>3, <5>1, <5>2
      <4> QED BY <3>2, <4>3, <4>6
    <3> QED BY <1>6, <3>4, <3>5
  <2>2. Len(more) = n + 1
    BY <1>2
  <2> QED BY <1>1, <1>3, <2>1, <2>2 DEF SilentOnes
<1> QED BY <1>2, <1>7, <1>9, <1>10 DEF LogOK, more
(***************************************************************************)
(* The inductive invariant.                                                *)
(***************************************************************************)
Types ==
  /\ now \in Nat /\ packets \in Nat /\ attack \in Attacks
  /\ s \in Suspects /\ s.bruteStart <= now
  /\ portsSeen \in SUBSET Ports /\ IsFiniteSet(portsSeen)

PortsKept ==
  /\ PortsOK(s.ports, portsSeen)
  /\ attack = "PORT_SCAN" => Len(s.ports) >= ScanThreshold

LogKept ==
  /\ LogOK(authLog, s.brute, s.bruteStart, now)
  /\ Len(authLog) <= LogLength
  /\ attack = "BRUTE_FORCE" => s.brute >= BruteThreshold /\ now - s.bruteStart <= BruteWindow

IInv == Types /\ PortsKept /\ LogKept

\* An entry is made for a source.
LEMMA InitInvariant == Init => IInv
<1> SUFFICES ASSUME Init PROVE IInv
  OBVIOUS
<1>1. /\ now = 0 /\ attack = "NONE" /\ packets = 0 /\ authLog = <<>> /\ portsSeen = {}
      /\ s.ports = <<>> /\ s.brute = 0 /\ s.bruteStart = 0
  BY DEF Init, NewSuspect
<1>2. s \in Suspects
  <2>1. /\ 0 \in 0 .. StealthThreshold /\ 0 \in 0 .. DnsMax /\ 0 \in 0 .. Calibration
        /\ 0 \in 0 .. IcmpCap /\ 0 \in 0 .. SynCap /\ 0 \in 0 .. BruteThreshold
    BY ThresholdsArePositive
  <2>2. <<>> \in Seq(Ports)
    OBVIOUS
  <2> QED BY <2>1, <2>2 DEF Init, NewSuspect, Suspects
<1>3. Types
  BY <1>1, <1>2, FS_EmptySet DEF Types, Attacks
<1>4. Len(s.ports) = 0 /\ Len(authLog) = 0
  BY <1>1
<1>5. PortsKept
  BY <1>1, <1>4, ThresholdsArePositive DEF PortsKept, PortsOK
<1>6. LogOK(authLog, s.brute, s.bruteStart, now)
  <2>1. authLog \in Seq(Entries)
    BY <1>1
  <2>2. InOrder(authLog, now) /\ InWindow(authLog, s.brute, s.bruteStart)
    BY <1>1, <1>4 DEF InOrder, InWindow
  <2>3. SilentOnes(authLog, s.brute, s.bruteStart)
    BY <1>4 DEF SilentOnes
  <2> QED BY <2>1, <2>2, <2>3 DEF LogOK
<1>7. LogKept
  BY <1>1, <1>4, <1>6, ThresholdsArePositive DEF LogKept, LogLength
<1> QED BY <1>3, <1>5, <1>7 DEF IInv

\* Time passes.
LEMMA TickKeeps ==
  ASSUME IInv, Tick
  PROVE  IInv'
<1>1. /\ now' = now + 1 /\ attack' = "NONE" /\ now \in Nat
      /\ s' = s /\ packets' = packets /\ authLog' = authLog /\ portsSeen' = portsSeen
  BY DEF Tick, IInv, Types
<1>2. s.bruteStart \in Nat
  BY DEF IInv, Types, Suspects
<1>3. Types'
  BY <1>1, <1>2 DEF IInv, Types, Attacks
<1>4. PortsKept'
  BY <1>1 DEF IInv, PortsKept
<1>5. InOrder(authLog, now + 1)
  <2>1. authLog \in Seq(Entries) /\ InOrder(authLog, now)
    BY DEF IInv, LogKept, LogOK
  <2>2. \A i \in 1 .. Len(authLog) : authLog[i] \in Entries
    BY <2>1, ElementOfSeq
  <2>3. \A i \in 1 .. Len(authLog) : authLog[i].at \in Nat
    BY <2>2 DEF Entries
  <2>4. \A i \in 1 .. Len(authLog) : authLog[i].at <= now + 1
    BY <1>1, <2>1, <2>3 DEF InOrder
  <2> QED BY <2>1, <2>4 DEF InOrder
<1>6. LogKept'
  BY <1>1, <1>5 DEF IInv, LogKept, LogOK, LogLength
<1> QED BY <1>3, <1>4, <1>6 DEF IInv

\* A packet that touches neither the ports nor the window of SYNs.
LEMMA OtherKeeps ==
  ASSUME IInv, NEW v, Analyzed(v), UNCHANGED <<authLog, portsSeen>>,
         v.s \in Suspects, SamePorts(s, v.s), SameBrute(s, v.s),
         v.attack \in Attacks \ {"PORT_SCAN", "BRUTE_FORCE"}
  PROVE  IInv'
<1>1. /\ s' = v.s /\ attack' = v.attack /\ now' = now /\ packets' = packets + 1
      /\ authLog' = authLog /\ portsSeen' = portsSeen
  BY DEF Analyzed
<1>2. /\ s'.ports = s.ports /\ s'.brute = s.brute /\ s'.bruteStart = s.bruteStart
  BY <1>1 DEF SamePorts, SameBrute
<1>3. Types'
  BY <1>1, <1>2 DEF IInv, Types
<1>4. PortsKept'
  BY <1>1, <1>2 DEF IInv, PortsKept
<1>5. LogKept'
  BY <1>1, <1>2 DEF IInv, LogKept, LogLength
<1> QED BY <1>3, <1>4, <1>5 DEF IInv

\* The suspect, its baseline up to date.
LEMMA BaselineOfSuspect ==
  ASSUME IInv
  PROVE  LET t == update_baseline(s)
         IN  t \in Suspects /\ SamePorts(s, t) /\ SameBrute(s, t) /\ now \in Nat
<1>1. s \in Suspects /\ now \in Nat
  BY DEF IInv, Types
<1> QED BY <1>1, BaselineFrame

\* ICMP, and UDP that is not looked into.
LEMMA IcmpUdpKeeps ==
  ASSUME IInv, AnalyzeIcmp \/ AnalyzeUdp
  PROVE  IInv'
<1> DEFINE t == update_baseline(s)
<1>1. t \in Suspects /\ SamePorts(s, t) /\ SameBrute(s, t)
  BY BaselineOfSuspect
<1>2. CASE AnalyzeIcmp
  <2>1. PICK threshold : Analyzed(detect_icmp_flood(t, threshold))
    BY <1>2 DEF AnalyzeIcmp
  <2> HIDE DEF t
  <2> DEFINE v == detect_icmp_flood(t, threshold)
  <2>2. /\ v.s \in Suspects /\ SamePorts(t, v.s) /\ SameBrute(t, v.s)
        /\ v.attack \in {"ICMP_FLOOD", "NONE"}
    BY <1>1, IcmpFrame
  <2> HIDE DEF v
  <2>3. SamePorts(s, v.s) /\ SameBrute(s, v.s)
    BY <1>1, <2>2 DEF SamePorts, SameBrute
  <2>4. v.attack \in Attacks \ {"PORT_SCAN", "BRUTE_FORCE"}
    BY <2>2 DEF Attacks
  <2>5. Analyzed(v) /\ UNCHANGED <<authLog, portsSeen>>
    BY <1>2, <2>1 DEF AnalyzeIcmp, v
  <2> QED BY <2>2, <2>3, <2>4, <2>5, OtherKeeps
<1>3. CASE AnalyzeUdp
  <2> DEFINE v == Verdict(t, "NONE")
  <2>1. v.s = t /\ v.attack = "NONE"
    BY DEF Verdict
  <2>2. Analyzed(v) /\ UNCHANGED <<authLog, portsSeen>>
    BY <1>3 DEF AnalyzeUdp
  <2> HIDE DEF v, t
  <2>3. v.attack \in Attacks \ {"PORT_SCAN", "BRUTE_FORCE"}
    BY <2>1 DEF Attacks
  <2> QED BY <1>1, <2>1, <2>2, <2>3, OtherKeeps
<1> QED BY <1>2, <1>3

\* DNS.
LEMMA DnsKeeps ==
  ASSUME IInv, NEW bytes \in Sizes, NEW response \in BOOLEAN, NEW suspicious \in BOOLEAN,
         AnalyzeDns(bytes, response, suspicious)
  PROVE  IInv'
<1> DEFINE t == update_baseline(s)
           v == DnsVerdict(t, bytes, response, suspicious)
<1>1. t \in Suspects /\ SamePorts(s, t) /\ SameBrute(s, t)
  BY BaselineOfSuspect
<1>2. Analyzed(v) /\ UNCHANGED <<authLog, portsSeen>>
  BY DEF AnalyzeDns
<1> HIDE DEF t
<1>3. /\ v.s \in Suspects /\ SamePorts(t, v.s) /\ SameBrute(t, v.s)
      /\ v.attack \in {"DNS_TUNNEL", "AMPLIFICATION", "NONE"}
  <2>1. bytes \in Nat
    BY SizesAssumption
  <2> QED BY <1>1, <2>1, DnsVerdictFrame
<1> HIDE DEF v
<1>4. SamePorts(s, v.s) /\ SameBrute(s, v.s)
  BY <1>1, <1>3 DEF SamePorts, SameBrute
<1>5. v.attack \in Attacks \ {"PORT_SCAN", "BRUTE_FORCE"}
  BY <1>3 DEF Attacks
<1> QED BY <1>2, <1>3, <1>4, <1>5, OtherKeeps

\* TCP.
LEMMA TcpKeeps ==
  ASSUME IInv, NEW flags \in FlagSets, NEW port \in Ports, AnalyzeTcp(flags, port)
  PROVE  IInv'
<1> DEFINE t == update_baseline(s)
           auth == ToAuth(flags, port)
           e == [at |-> now, attack |-> attack']
<1>1. t \in Suspects /\ SamePorts(s, t) /\ SameBrute(s, t) /\ now \in Nat
  BY BaselineOfSuspect
<1>2. PICK threshold : Analyzed(TcpVerdict(t, flags, port, threshold))
  BY DEF AnalyzeTcp
<1> DEFINE v == TcpVerdict(t, flags, port, threshold)
<1>3. /\ s' = v.s /\ attack' = v.attack /\ now' = now /\ packets' = packets + 1
      /\ portsSeen' = portsSeen \cup {port}
      /\ authLog' = IF auth THEN LastOf(Append(authLog, e)) ELSE authLog
  <2>1. /\ s' = v.s /\ attack' = v.attack /\ now' = now /\ packets' = packets + 1
    BY <1>2 DEF Analyzed
  <2>2. /\ portsSeen' = portsSeen \cup {port}
        /\ authLog' = IF auth THEN LastOf(Append(authLog, e)) ELSE authLog
    BY DEF AnalyzeTcp, ToAuth
  <2> QED BY <2>1, <2>2
<1> HIDE DEF t
<1>4. PortsOK(t.ports, portsSeen)
  BY <1>1 DEF IInv, PortsKept, SamePorts
<1>5. /\ v.s \in Suspects /\ v.attack \in Attacks
      /\ PortsOK(v.s.ports, portsSeen \cup {port})
      /\ v.attack = "PORT_SCAN" => Len(v.s.ports) >= ScanThreshold
      /\ ~auth => SameBrute(t, v.s) /\ v.attack # "BRUTE_FORCE"
      /\ auth => Counted(t, v.s) \/ SameBrute(t, v.s)
      /\ auth /\ v.attack = "NONE" => Counted(t, v.s) /\ v.s.brute < BruteThreshold
      /\ v.attack = "BRUTE_FORCE" => Counted(t, v.s) /\ v.s.brute >= BruteThreshold
  BY <1>1, <1>4, TcpFrame
<1> HIDE DEF v, auth
<1>6. /\ ~auth => SameBrute(s, s') /\ attack' # "BRUTE_FORCE"
      /\ auth => Counted(s, s') \/ SameBrute(s, s')
      /\ auth /\ attack' = "NONE" => Counted(s, s') /\ s'.brute < BruteThreshold
      /\ attack' = "BRUTE_FORCE" => Counted(s, s') /\ s'.brute >= BruteThreshold
  BY <1>1, <1>3, <1>5 DEF SameBrute, Counted
<1>7. /\ s.bruteStart \in Nat /\ s.brute \in 0 .. BruteThreshold /\ s.bruteStart <= now
      /\ s'.bruteStart \in Nat /\ s'.brute \in 0 .. BruteThreshold
      /\ BruteThreshold \in Nat \ {0} /\ BruteWindow \in Nat
  BY <1>3, <1>5, ThresholdsArePositive DEF IInv, Types, Suspects
<1>8. s'.bruteStart <= now
  BY <1>1, <1>6, <1>7 DEF Counted, SameBrute
<1>9. Types'
  <2>1. portsSeen' \in SUBSET Ports /\ IsFiniteSet(portsSeen')
    BY <1>3, FS_AddElement DEF IInv, Types
  <2>2. packets' \in Nat
    BY <1>3 DEF IInv, Types
  <2> QED BY <1>1, <1>3, <1>5, <1>8, <2>1, <2>2 DEF Types
<1>10. PortsKept'
  BY <1>3, <1>5 DEF PortsKept
<1>11. attack' = "BRUTE_FORCE" => now - s'.bruteStart <= BruteWindow
  BY <1>1, <1>6, <1>7 DEF Counted
<1>12. LogOK(authLog', s'.brute, s'.bruteStart, now) /\ Len(authLog') <= LogLength
  <2>1. LogOK(authLog, s.brute, s.bruteStart, now) /\ Len(authLog) <= LogLength
    BY DEF IInv, LogKept
  <2>2. CASE ~auth
    BY <1>3, <1>6, <2>1, <2>2 DEF SameBrute
  <2>3. CASE auth
    <3> DEFINE more == Append(authLog, e)
    <3>1. e \in Entries /\ e.at = now /\ e.attack = attack'
      BY <1>1, <1>3, <1>5 DEF Entries
    <3>2. \/ s'.brute = s.brute /\ s'.bruteStart = s.bruteStart /\ e.attack # "NONE"
          \/ now - s.bruteStart > BruteWindow /\ s'.brute = 1 /\ s'.bruteStart = now
          \/ /\ now - s.bruteStart <= BruteWindow /\ s'.bruteStart = s.bruteStart
             /\ s'.brute = UpTo(s.brute + 1, BruteThreshold)
      <4>1. now - s.bruteStart > BruteWindow \/ now - s.bruteStart <= BruteWindow
        BY <1>1, <1>7
      <4>2. CASE Counted(s, s')
        BY <4>1, <4>2 DEF Counted
      <4>3. CASE ~Counted(s, s')
        BY <1>6, <2>3, <3>1, <4>3 DEF SameBrute
      <4> QED BY <4>2, <4>3
    <3>3. e.attack = "NONE" => s'.brute < BruteThreshold
      BY <1>6, <2>3, <3>1
    <3> HIDE DEF e
    <3>4. LogOK(more, s'.brute, s'.bruteStart, now)
      BY <1>1, <1>7, <2>1, <3>1, <3>2, <3>3, LogGrows
    <3>5. authLog \in Seq(Entries) /\ Len(authLog) \in Nat /\ LogLength \in Nat
          /\ LogLength >= BruteThreshold
      BY <1>7, <2>1, LenProperties DEF LogOK, LogLength
    <3>6. Len(more) = Len(authLog) + 1
      BY <3>1, <3>5, AppendProperties
    <3> HIDE DEF more
    <3>7. CASE Len(more) > LogLength
      <4>1. authLog' = Tail(more)
        BY <1>3, <2>3, <3>7 DEF LastOf, more
      <4>2. s'.brute < Len(more) /\ s'.brute \in Nat
        BY <1>7, <3>5, <3>6, <3>7
      <4>3. LogOK(Tail(more), s'.brute, s'.bruteStart, now) /\ Len(Tail(more)) = Len(more) - 1
        BY <1>1, <1>7, <3>4, <4>2, LogForgets
      <4>4. Len(more) - 1 <= LogLength
        BY <2>1, <3>5, <3>6
      <4> QED BY <4>1, <4>3, <4>4
    <3>8. CASE ~(Len(more) > LogLength)
      <4>1. authLog' = more
        BY <1>3, <2>3, <3>8 DEF LastOf, more
      <4> QED BY <3>4, <3>5, <3>6, <3>8, <4>1
    <3> QED BY <3>7, <3>8
  <2> QED BY <2>2, <2>3
<1>13. LogKept'
  BY <1>3, <1>6, <1>11, <1>12 DEF LogKept, LogLength
<1> QED BY <1>9, <1>10, <1>13 DEF IInv
\* Every step keeps it.
LEMMA NextKeeps == IInv /\ [Next]_vars => IInv'
<1> SUFFICES ASSUME IInv, [Next]_vars PROVE IInv'
  OBVIOUS
<1>1. CASE UNCHANGED vars
  BY <1>1 DEF vars, IInv, Types, PortsKept, LogKept, LogLength
<1>2. CASE Tick
  BY <1>2, TickKeeps
<1>3. CASE AnalyzeIcmp \/ AnalyzeUdp
  BY <1>3, IcmpUdpKeeps
<1>4. CASE \E flags \in FlagSets, port \in Ports : AnalyzeTcp(flags, port)
  BY <1>4, TcpKeeps
<1>5. CASE \E bytes \in Sizes, response, suspicious \in BOOLEAN :
             AnalyzeDns(bytes, response, suspicious)
  BY <1>5, DnsKeeps
<1>6. CASE Done
  BY <1>1, <1>6 DEF Done
<1> QED BY <1>1, <1>2, <1>3, <1>4, <1>5, <1>6 DEF Next

(***************************************************************************)
(* The theorems.                                                           *)
(***************************************************************************)
\* The invariant that the others follow from.
THEOREM DetectorsInvariant == Spec => []IInv
<1>1. Init => IInv
  BY InitInvariant
<1>2. IInv /\ [Next]_vars => IInv'
  BY NextKeeps
<1> QED BY <1>1, <1>2, PTL DEF Spec

\* Every variable keeps to its values; the ports kept fit the array.
THEOREM TypeCorrect == Spec => []TypeOK
<1>1. IInv => TypeOK
  <2> SUFFICES ASSUME IInv PROVE TypeOK
    OBVIOUS
  <2>1. /\ now \in Nat /\ packets \in Nat /\ attack \in Attacks /\ portsSeen \subseteq Ports
        /\ Len(s.ports) <= ScanThreshold
    BY DEF IInv, Types, PortsKept, PortsOK
  <2>2. /\ s.ports \in Seq(Ports) /\ s.icmp \in 0 .. IcmpCap /\ s.syn \in 0 .. SynCap
        /\ s.null \in 0 .. StealthThreshold /\ s.xmas \in 0 .. StealthThreshold
        /\ s.synfin \in 0 .. StealthThreshold /\ s.brute \in 0 .. BruteThreshold
        /\ s.dnsSuspicious \in 0 .. DnsMax /\ s.samples \in 0 .. Calibration
        /\ s.bruteStart \in Nat /\ s.windowStart \in Nat /\ s.req \in Nat /\ s.resp \in Nat
    BY DEF IInv, Types, Suspects
  <2> QED BY <2>1, <2>2 DEF TypeOK
<1> QED BY <1>1, DetectorsInvariant, PTL

\* The ports of a sequence without repetition.
LEMMA DifferentPorts ==
  ASSUME NEW ports \in Seq(Ports),
         \A i, j \in 1 .. Len(ports) : ports[i] = ports[j] => i = j
  PROVE  IsFiniteSet(Range(ports)) /\ Cardinality(Range(ports)) = Len(ports)
<1>1. Len(ports) \in Nat /\ DOMAIN ports = 1 .. Len(ports) /\ ports \in [1 .. Len(ports) -> Ports]
  BY LenProperties
<1> DEFINE D == 1 .. Len(ports)
           R == Range(ports)
<1>2. ports \in [D -> R] /\ \A r \in R : \E i \in D : ports[i] = r
  BY <1>1 DEF Range
<1>3. \A i, j \in D : ports[i] = ports[j] => i = j
  OBVIOUS
<1>4. IsFiniteSet(D) /\ Cardinality(D) = Len(ports)
  BY <1>1, FS_Interval
<1> HIDE DEF D, R
<1>5. ExistsBijection(D, R)
  <2>1. ports \in Bijection(D, R)
    BY <1>2, <1>3 DEF Bijection, Injection, Surjection, IsInjective
  <2> QED BY <2>1 DEF ExistsBijection
<1>6. IsFiniteSet(R) /\ Cardinality(R) = Len(ports)
  BY <1>4, <1>5, FS_Bijection
<1> QED BY <1>6 DEF R

\* When a port scan is reported, SCAN_THRESHOLD different ports were addressed.
THEOREM PortScanTrue == Spec => []PortScanSound
<1>1. IInv => PortScanSound
  <2> SUFFICES ASSUME IInv PROVE PortScanSound
    OBVIOUS
  <2>1. /\ s.ports \in Seq(Ports) /\ PortsOK(s.ports, portsSeen) /\ IsFiniteSet(portsSeen)
        /\ attack = "PORT_SCAN" => Len(s.ports) >= ScanThreshold
    BY DEF IInv, Types, PortsKept, Suspects
  <2> DEFINE R == Range(s.ports)
  <2>2. IsFiniteSet(R) /\ Cardinality(R) = Len(s.ports)
    BY <2>1, DifferentPorts DEF PortsOK
  <2>3. R \in SUBSET portsSeen
    <3>1. DOMAIN s.ports = 1 .. Len(s.ports)
      BY <2>1, LenProperties
    <3> QED BY <2>1, <3>1 DEF Range, PortsOK
  <2> HIDE DEF R
  <2>4. /\ Cardinality(R) <= Cardinality(portsSeen)
        /\ Cardinality(R) \in Nat /\ Cardinality(portsSeen) \in Nat
    BY <2>1, <2>2, <2>3, FS_Subset, FS_CardinalityType
  <2>5. attack = "PORT_SCAN" => Cardinality(portsSeen) >= ScanThreshold
    BY <2>1, <2>2, <2>4, ThresholdsArePositive
  <2> QED BY <2>2, <2>3, <2>5 DEF PortScanSound, R
<1> QED BY <1>1, DetectorsInvariant, PTL

\* When a brute force attack is reported, BRUTE_THRESHOLD SYNs to authentication ports
\* came within the last BRUTE_WINDOW_SEC seconds.
THEOREM BruteForceTrue == Spec => []BruteForceSound
<1>1. IInv => BruteForceSound
  <2> SUFFICES ASSUME IInv, attack = "BRUTE_FORCE"
               PROVE  Cardinality(Recent) >= BruteThreshold
    BY DEF BruteForceSound
  <2> DEFINE n == Len(authLog)
             last == n - BruteThreshold + 1 .. n
  <2>1. /\ authLog \in Seq(Entries) /\ InWindow(authLog, s.brute, s.bruteStart)
        /\ s.brute >= BruteThreshold /\ now - s.bruteStart <= BruteWindow
    BY DEF IInv, LogKept, LogOK
  <2>2. /\ now \in Nat /\ s.bruteStart \in Nat /\ s.brute \in Nat /\ n \in Nat
        /\ BruteThreshold \in Nat \ {0} /\ BruteWindow \in Nat
    BY <2>1, ThresholdsArePositive, LenProperties DEF IInv, Types, Suspects
  <2>3. \A i \in 1 .. n : authLog[i].at \in Nat
    <3>1. \A i \in 1 .. n : authLog[i] \in Entries
      BY <2>1, ElementOfSeq
    <3> QED BY <3>1 DEF Entries
  <2>4. ASSUME NEW i \in last
        PROVE  i \in 1 .. n /\ now - authLog[i].at <= BruteWindow
    <3>1. s.brute <= n /\ i \in 1 .. n /\ i > n - s.brute
      BY <2>1, <2>2 DEF InWindow
    <3>2. authLog[i].at >= s.bruteStart
      BY <2>1, <3>1 DEF InWindow
    <3> QED BY <2>1, <2>2, <2>3, <3>1, <3>2
  <2>5. last \in SUBSET Recent /\ Recent \in SUBSET (1 .. n)
    BY <2>4 DEF Recent
  <2>6. IsFiniteSet(Recent)
    <3>1. IsFiniteSet(1 .. n)
      BY <2>2, FS_Interval
    <3> QED BY <2>5, <3>1, FS_Subset
  <2>7. Cardinality(last) = BruteThreshold
    <3>1. n - BruteThreshold + 1 \in Int /\ n \in Int
          /\ n - (n - BruteThreshold + 1) + 1 = BruteThreshold
          /\ ~(n - BruteThreshold + 1 > n)
      BY <2>2
    <3> QED BY <3>1, FS_Interval
  <2> HIDE DEF last
  <2>8. Cardinality(last) <= Cardinality(Recent)
    BY <2>5, <2>6, FS_Subset
  <2>9. Cardinality(Recent) \in Nat
    BY <2>6, FS_CardinalityType
  <2> QED BY <2>2, <2>7, <2>8, <2>9
<1> QED BY <1>1, DetectorsInvariant, PTL

\* Of 2 * BRUTE_THRESHOLD - 1 such SYNs in so short a time, one was reported.
THEOREM BurstsHeard == Spec => []BurstNeverSilent
<1>1. IInv => BurstNeverSilent
  <2> SUFFICES ASSUME IInv, Cardinality(Recent) >= 2 * BruteThreshold - 1,
                      \A i \in Recent : authLog[i].attack = "NONE"
               PROVE  FALSE
    BY DEF BurstNeverSilent
  <2> DEFINE n == Len(authLog)
  <2>1. /\ authLog \in Seq(Entries) /\ SilentOnes(authLog, s.brute, s.bruteStart)
        /\ n <= LogLength
    BY DEF IInv, LogKept, LogOK
  <2>2. /\ now \in Nat /\ s.bruteStart \in Nat /\ s.brute \in Nat /\ n \in Nat
        /\ s.bruteStart <= now
        /\ BruteThreshold \in Nat \ {0} /\ BruteWindow \in Nat
    BY <2>1, ThresholdsArePositive, LenProperties DEF IInv, Types, Suspects
  <2>3. Recent \in SUBSET (1 .. n)
    BY DEF Recent
  <2>4. IsFiniteSet(1 .. n) /\ Cardinality(1 .. n) = n
    <3>1. n \in Nat /\ 1 \in Int
      BY <2>2
    <3> HIDE DEF n
    <3>2. IsFiniteSet(1 .. n) /\ Cardinality(1 .. n) = IF 1 > n THEN 0 ELSE n - 1 + 1
      BY <3>1, FS_Interval
    <3> QED BY <3>1, <3>2
  <2>5. /\ Cardinality(Recent) <= n /\ Cardinality(Recent) \in Nat
        /\ Cardinality(Recent) = n => Recent = 1 .. n
    <3>1. IsFiniteSet(Recent) /\ Cardinality(Recent) <= Cardinality(1 .. n)
          /\ (Cardinality(1 .. n) = Cardinality(Recent) => 1 .. n = Recent)
      BY <2>3, <2>4, FS_Subset
    <3> QED BY <2>4, <3>1, FS_CardinalityType
  <2>6. n = 2 * BruteThreshold - 1 /\ Recent = 1 .. n
    BY <2>1, <2>2, <2>5 DEF LogLength
  <2>7. 1 \in 1 .. n /\ SilentFrom(authLog, 1)
    BY <2>2, <2>6 DEF SilentFrom
  <2>8. authLog[1].at \in Nat /\ now - authLog[1].at <= BruteWindow
    <3>1. authLog[1] \in Entries
      BY <2>1, <2>7, ElementOfSeq
    <3> QED BY <2>6, <2>7, <3>1 DEF Recent, Entries
  <2>9. /\ s.brute < BruteThreshold
        /\ \/ n - 1 + 1 <= s.brute
           \/ n - 1 + 1 <= s.brute + BruteThreshold - 1
           \/ authLog[1].at + BruteWindow < s.bruteStart
    BY <2>1, <2>7 DEF SilentOnes
  <2> DEFINE at == authLog[1].at
  <2>10. at \in Nat /\ now - at <= BruteWindow /\ ~(at + BruteWindow < s.bruteStart)
    BY <2>2, <2>8
  <2> HIDE DEF n
  <2> QED BY <2>2, <2>6, <2>9, <2>10
<1> QED BY <1>1, DetectorsInvariant, PTL
=============================================================================

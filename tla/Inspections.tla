------------------------------ MODULE Inspections ------------------------------
(***************************************************************************)
(* The three inspections of a decrypted payload: the content patterns of   *)
(* security/anti_bug.py, the scan of security/antivirus.py and the risk    *)
(* analysis of telemetry/static_analyzer.py, in the order in which         *)
(* process_incoming_frame (core/tunnel.py) runs them.                      *)
(*                                                                         *)
(* A payload is what their patterns find in it: what a regular expression  *)
(* or a signature matches is not modelled, what is made of the matches is. *)
(***************************************************************************)
EXTENDS Integers

Severities == {"LOW", "MEDIUM", "HIGH", "CRITICAL"}

\* In ten-thousandths of a bit: the entropy is rounded to four digits.
MAX_ENTROPY_THRESHOLD == 72000
MAX_RISK_SCORE_THRESHOLD == 40

\* What the patterns look for: repeated format directives or fillers, and
\* repeated steps to the parent directory; the mark of an executable; a long
\* encoded label in a domain name, a long run of base64 characters, a field
\* name of the media adapter's messages, the mark of an archive or an image.
Marks == {"overflow", "traversal", "executable", "dns", "base64", "structured", "embedded"}

Findings ==
    [ marks      : SUBSET Marks,
      signatures : SUBSET Severities,  \* severities of the signatures that match
      entropy    : Nat,
      size       : Nat,
      apis : Nat, ips : Nat, urls : Nat ]  \* how many were found

-----------------------------------------------------------------------------

\* AntiBugEngine.inspect_frame on the decrypted payload, whose length is right.
ContentValid(f) == "overflow" \notin f.marks /\ "traversal" \notin f.marks

\* AntivirusEngine.scan: the severities of the detections.
Detections(f) ==
    f.signatures
    \cup {s \in {"MEDIUM"} : f.entropy >= MAX_ENTROPY_THRESHOLD /\ f.size > 64}
    \cup {s \in {"HIGH"} : "executable" \in f.marks}

ThreatDetected(f) == Detections(f) # {}

ScanSeverity(f) ==
    CASE "CRITICAL" \in Detections(f) -> "CRITICAL"
      [] "HIGH" \in Detections(f) /\ "CRITICAL" \notin Detections(f) -> "HIGH"
      [] Detections(f) = {"MEDIUM"} \/ Detections(f) = {"MEDIUM", "LOW"} -> "MEDIUM"
      [] Detections(f) = {"LOW"} -> "LOW"
      [] OTHER -> "CLEAN"

\* StaticAnalyzer.analyze.  A message that looks like one of the media
\* adapter's may carry base64.
Count(b) == IF b THEN 1 ELSE 0

CovertChannels(f) ==
    Count("dns" \in f.marks) + Count("base64" \in f.marks /\ "structured" \notin f.marks) + Count("embedded" \in f.marks)

Score(f) == 15 * f.apis + 10 * f.ips + 10 * f.urls + 45 * CovertChannels(f)

RiskScore(f) ==
    IF f.size = 0 THEN 0 ELSE IF Score(f) < 100 THEN Score(f) ELSE 100

RiskLevel(f) ==
    IF RiskScore(f) >= 70 THEN "CRITICAL"
    ELSE IF RiskScore(f) >= 40 THEN "HIGH"
    ELSE IF RiskScore(f) >= 20 THEN "MEDIUM"
    ELSE "LOW"

-----------------------------------------------------------------------------
(* The pipeline: the first inspection that objects.                        *)

Objection(f) ==
    IF ~ ContentValid(f) THEN "exploit"
    ELSE IF ThreatDetected(f) THEN "malware"
    ELSE IF RiskScore(f) >= MAX_RISK_SCORE_THRESHOLD THEN "risky"
    ELSE "clean"

\* The severity under which the outcome is logged.
IncidentSeverity(f) ==
    CASE Objection(f) = "exploit" -> "CRITICAL"
      [] Objection(f) = "malware" -> ScanSeverity(f)
      [] Objection(f) = "risky"   -> RiskLevel(f)
      [] Objection(f) = "clean"   -> "LOW"
=============================================================================

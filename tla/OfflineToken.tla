---------------------------- MODULE OfflineToken ----------------------------
(***************************************************************************)
(* `ori token use` (cmd/token.go, internal/token/token.go): an offline     *)
(* token is checked against the trust anchor's public key, the device it   *)
(* is for, and the clock.                                                  *)
(*                                                                         *)
(* Times are in halves of a second: the clock is read in whole seconds     *)
(* (time.Unix) and a claim is cut to one (jsonNumberToInt64).  The skew of *)
(* 300 seconds is a constant.                                              *)
(***************************************************************************)
EXTENDS OriProcess

CONSTANTS
  Tokens,      \* the tokens that may be presented
  KeyFiles,    \* the states the key file may be in; "sound" holds the anchor
  SkewSeconds,
  Moments      \* when a token may be used

VARIABLE use   \* what came of the use, and of which token, when

Claims == {"token_id", "device_id", "action_scope", "issued_at", "expires_at", "nonce", "signature"}
Times == {"issued_at", "expires_at"}
Blankable == {"token_id", "action_scope", "nonce"}

\* What may be wrong with a claim: it is null or absent, a number where a string
\* should be or the reverse, or blank.
Faults == {"missing", "wrong_type", "blank"}

\* A claim that is at fault has one of the faults; times are whole halves of a
\* second.
ASSUME TokenAssumption ==
  /\ \A t \in Tokens :
       /\ t.faulty # "none" => t.faulty \in Claims /\ t.fault \in Faults
       /\ {t.issued_at, t.expires_at} \subseteq Int
  /\ Moments \subseteq Int
  /\ SkewSeconds \in Nat

NoUse == [outcome |-> "none"]

TokenIdle == use = NoUse

\* A token is
\*   [encoding, faulty, fault, issued_at, expires_at, device_id,
\*    scheme, signed_by, signed_over]
\* faulty is a claim or "none"; signed_over is "this", or "other" when the claims
\* are not those that were signed.
Decodes(t) == t.encoding \in {"base64url", "padded_base64url", "json"}

Missing(t) == t.faulty # "none" /\ t.fault = "missing"

ClaimsComplete(t) ==
  /\ ~Missing(t)
  /\ t.faulty \in Blankable => t.fault = "none"

\* The scheme is compared without regard to case.
SignatureVerifies(t, keyfile) ==
  /\ keyfile = "sound"
  /\ t.faulty # "signature"
  /\ t.scheme \in {"ed25519", "Ed25519"}
  /\ t.signed_by = "anchor" /\ t.signed_over = "this"

Seconds(halves) == halves \div 2

\* Mutant: the skew shortens a token's life.
WithinLifeSwapped(t, at) ==
  /\ Seconds(t.issued_at) <= Seconds(at) + SkewSeconds
  /\ Seconds(t.expires_at) >= Seconds(at) + SkewSeconds

WithinLife(t, at) ==
  /\ Seconds(t.issued_at) <= Seconds(at) + SkewSeconds
  /\ Seconds(t.expires_at) >= Seconds(at) - SkewSeconds

Accepts(t, keyfile, at) ==
  /\ Decodes(t)
  /\ ClaimsComplete(t)
  /\ SignatureVerifies(t, keyfile)
  /\ t.faulty # "device_id" /\ t.device_id = "expected"
  /\ t.faulty \notin Times
  /\ WithinLife(t, at)

UsesToken ==
  /\ IsRunning({"token_use"})
  /\ \E t \in Tokens : \E keyfile \in KeyFiles : \E at \in Moments :
       LET accepted == Accepts(t, keyfile, at)
       IN  /\ use' = [outcome |-> IF accepted THEN "accepted" ELSE "refused",
                      token |-> t, keyfile |-> keyfile, at |-> at]
           /\ IF accepted THEN Returns("none", <<"accepted">>) ELSE Returns("error", <<>>)

-----------------------------------------------------------------------------
(***************************************************************************)
(* Property.                                                               *)
(***************************************************************************)
\* The anchor made the token, as it stands, for this device.
Genuine(t) ==
  t.faulty = "none" /\ t.signed_by = "anchor" /\ t.signed_over = "this" /\ t.device_id = "expected"

\* A token is accepted only if the anchor made it for this device, from the skew
\* before its issue to the skew after its expiry, give or take the second that
\* cutting to whole seconds costs; and a genuine one that can be read is
\* refused at no moment in between (token.go:53-98, 225-243).
TokenHonouredInItsTime ==
  LET t == use.token
      skew == 2 * SkewSeconds
  IN  /\ use.outcome = "accepted" =>
           /\ Genuine(t) /\ use.keyfile = "sound"
           /\ use.at > t.issued_at - skew - 2 /\ use.at < t.expires_at + skew + 2
      /\ use.outcome = "refused" /\ Genuine(t) =>
           \/ use.keyfile # "sound" \/ ~Decodes(t) \/ t.scheme \notin {"ed25519", "Ed25519"}
           \/ use.at < t.issued_at - skew \/ use.at > t.expires_at + skew
=============================================================================

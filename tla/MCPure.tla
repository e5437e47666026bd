------------------------------- MODULE MCPure -------------------------------
(***************************************************************************)
(* The configuration loader and the helpers, each on its inputs: Config    *)
(* loads one of its structs, or one of the helpers is called once.         *)
(***************************************************************************)
EXTENDS Config, Helpers

CONSTANTS
  MaxRunes, MaxRuneSize,   \* of the strings given to SubStr
  MaxLetters,              \* of the strings given to GetSubStr, of two letters
  MaxSieve, MaxSubs        \* greatest bound of a sieve, sub-authorities of a SID

VARIABLES call, result

helperVars == <<call, result>>

Call(fn, s, t, u, n, m) == [fn |-> fn, s |-> s, t |-> t, u |-> u, n |-> n, m |-> m]

Calls ==
  {Call("SubStr", s, <<>>, <<>>, n, m) :
     s \in BoundedSeq(1..MaxRuneSize, MaxRunes), n \in -1..MaxInt, m \in -1..MaxInt}
  \cup {Call("GetSubStr", s, t, u, 0, 0) :
     s \in BoundedSeq({0, 1}, MaxLetters), t \in BoundedSeq({0, 1}, 2), u \in BoundedSeq({0, 1}, 2)}
  \cup {Call("Sieve", <<>>, <<>>, <<>>, n, m) : n \in -1..MaxSieve, m \in -1..MaxSieve}
  \cup {Call("SID", [i \in 1..len |-> IF i = 2 THEN subs ELSE (i * step) % Byte], <<>>, <<>>, 0, 0) :
     len \in 0..(SIDHead + SIDSize * (MaxSubs + 1)), subs \in 0..MaxSubs, step \in 0..(Byte - 1)}
  \cup {Call("GUID", Numbers(1, len), <<>>, <<>>, 0, 0) : len \in {0, 15, 16, 17}}

NoCall == Call("none", <<>>, <<>>, <<>>, 0, 0)

Evaluate(c) ==
  CASE c.fn = "SubStr" -> SubStr(c.s, c.n, c.m)
    [] c.fn = "GetSubStr" -> GetSubStr(c.s, c.t, c.u)
    [] c.fn = "Sieve" -> SieveOfEratosthenes(c.n, c.m)
    [] c.fn = "SID" -> decodeSID(c.s)
    [] c.fn = "GUID" -> GuidToOctetString(ConvertToDashedString(c.s))

MCInit == Init /\ call = NoCall /\ result = <<>>

CallHelper ==
  /\ phase = "new" /\ call = NoCall
  /\ file = Empty /\ environ = [S |-> "", I |-> "", B |-> "", cfg |-> ""]
  /\ call' \in Calls
  /\ result' = Evaluate(call')
  /\ UNCHANGED vars

MCNext ==
  \/ CallHelper
  \/ Next /\ call = NoCall /\ UNCHANGED helperVars

MCSpec == MCInit /\ [][MCNext]_<<vars, helperVars>>

(* The helpers return what they are for. SubStr gives the runes that there *)
(* are from start on, also when length goes past the end, and panics on    *)
(* negative arguments and where start + length overflows                   *)
(* (utilsString.go:105-133); GetSubStr gives what is between the first     *)
(* startsWith and the next endsWith (utilsString.go:88-103); the sieve     *)
(* gives the primes of its range in order (utilsNumbers.go:10-31);         *)
(* decodeSID reads no byte that is not there, whatever count the SID       *)
(* claims (ldap/utils.go:111-141); a GUID printed and turned into a search *)
(* filter is the GUID that the directory sent (ldap/utils.go:44-109).      *)
HelpersMeanIt ==
  CASE call.fn = "none" -> TRUE
    [] call.fn = "SubStr" -> SubStrMeans(call.s, call.n, call.m, result)
    [] call.fn = "GetSubStr" -> GetSubStrMeans(call.s, call.t, call.u, result)
    [] call.fn = "Sieve" -> SieveMeans(call.n, call.m, result)
    [] call.fn = "SID" -> DecodeSIDMeans(call.s, result)
    [] call.fn = "GUID" -> result = IF Len(call.s) < 16 THEN <<>> ELSE SubSeq(call.s, 1, 16)
=============================================================================

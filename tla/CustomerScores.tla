--------------------------- MODULE CustomerScores ---------------------------
(***************************************************************************)
(* The five-dimension risk assessment of a customer and its decision       *)
(* gateway (app/services/customer_risk_engine.py).  Scores are whole       *)
(* points; the weights are twentieths, so the overall score is counted in  *)
(* twentieths of a point and every comparison is exact.                    *)
(***************************************************************************)
EXTENDS Integers

CONSTANTS
    Countries,   \* countries that are looked at
    Blacklist,   \* FATF_BLACKLIST
    Greylist,    \* FATF_GREYLIST
    Sanctioned,  \* SANCTIONS_COUNTRIES
    HighRisk     \* HIGH_RISK_COUNTRIES; a country may be on several lists

ASSUME ListsAssumption ==
    /\ "none" \notin Countries
    /\ Blacklist \subseteq Countries /\ Greylist \subseteq Countries
    /\ Sanctioned \subseteq Countries /\ HighRisk \subseteq Countries

(* What the customer record says, and what the analyst enters.  "lived" are   *)
(* the countries of birth and residence; an rca is scored as a domestic PEP,  *)
(* one of an international organisation as a foreign one.  An amount of 0 was *)
(* not entered.                                                               *)
CustomerFacts ==
    [pep : {"none", "domestic", "foreign"}, matched : BOOLEAN, nationality : Countries \union {"none"},
     dual : Countries \union {"none"}, lived : SUBSET Countries, occupation : BOOLEAN,
     taxId : BOOLEAN]
Expectations ==
    [products : SUBSET {"crypto", "remittance", "fx", "cash", "trust", "bearer"},
     countries : SUBSET Countries,
     channel : {"branch", "phone", "online", "mobile", "introduced", "agent", "third_party"},
     introduced : BOOLEAN, reliance : BOOLEAN, volume : Nat, largest : Nat,
     frequency : {"occasional", "monthly", "weekly", "daily"}, crosses : BOOLEAN]

Capped(x) == IF x > 100 THEN 100 ELSE x
If(b, points) == IF b THEN points ELSE 0

PepPoints(pep) == CASE pep = "foreign" -> 50 [] pep = "domestic" -> 35 [] OTHER -> 0
NationalityPoints(c) ==
    IF c \in Blacklist THEN 40 ELSE IF c \in Greylist THEN 20 ELSE If(c \in HighRisk, 15)

ScoreCustomer(c) ==
    Capped(PepPoints(c.pep) + NationalityPoints(c.nationality) + If(c.occupation, 15)
           + If(c.dual \in Blacklist, 20) + If(~c.taxId, 5))

ScoreProduct(x) ==
    Capped(If("crypto" \in x.products, 40) + If("remittance" \in x.products, 30)
           + If("fx" \in x.products, 20) + If("cash" \in x.products, 25)
           + If("trust" \in x.products, 20) + If("bearer" \in x.products, 35))

AllCountries(c, x) ==
    (({c.nationality, c.dual} \ {"none"}) \union c.lived) \union x.countries

(* The highest points of a country of cs. *)
GeographicPoints(cs) ==
    IF cs \intersect Blacklist # {} THEN 80
    ELSE IF cs \intersect Sanctioned # {} THEN 75
    ELSE IF cs \intersect Greylist # {} THEN 40
    ELSE If(cs \intersect HighRisk # {}, 25)

ChannelPoints(channel) ==
    CASE channel = "branch" -> 0 [] channel = "phone" -> 10
      [] channel \in {"online", "mobile"} -> 15 [] channel = "introduced" -> 20
      [] channel \in {"agent", "third_party"} -> 25

ScoreChannel(x) ==
    Capped(ChannelPoints(x.channel) + If(x.introduced, 15) + If(x.reliance, 20))

FrequencyPoints(f) ==
    CASE f = "daily" -> 20 [] f = "weekly" -> 10 [] f = "monthly" -> 5 [] OTHER -> 0

ScoreExpected(x) ==
    Capped((IF x.volume >= 1000000 THEN 40
            ELSE IF x.volume >= 100000 THEN 25 ELSE If(x.volume >= 10000, 10))
           + (IF x.largest >= 100000 THEN 25 ELSE If(x.largest >= 10000, 10))
           + FrequencyPoints(x.frequency) + If(x.crosses, 20))

(* In twentieths of a point: 0 .. 2000. *)
Overall(c, x) ==
    6 * ScoreCustomer(c) + 5 * ScoreProduct(x) + 4 * GeographicPoints(AllCountries(c, x))
    + 3 * ScoreChannel(x) + 2 * ScoreExpected(x)

(* The EDD triggers: pep_match, sanctions_match, high_risk_country,           *)
(* complex_ownership, crypto_exposure and high_risk_score.                    *)
DetermineGateway(c, x) ==
    IF \/ c.pep # "none"
       \/ c.matched
       \/ AllCountries(c, x) \intersect (Blacklist \union Sanctioned) # {}
       \/ "bearer" \in x.products
       \/ "crypto" \in x.products
       \/ Overall(c, x) > 20 * 66
    THEN "edd" ELSE "cdd"

LevelOf(overall) ==
    IF overall <= 20 * 33 THEN "low"
    ELSE IF overall <= 20 * 66 THEN "medium"
    ELSE IF overall <= 20 * 85 THEN "high"
    ELSE "critical"

CddLevelOf(gateway, overall) ==
    IF gateway = "edd" THEN "enhanced"
    ELSE IF overall <= 20 * 33 THEN "simplified" ELSE "standard"

-----------------------------------------------------------------------------
LevelRank(level) ==
    CASE level = "low" -> 1 [] level = "medium" -> 2 [] level = "high" -> 3 [] level = "critical" -> 4
CddRank(cdd) ==
    CASE cdd = "simplified" -> 1 [] cdd = "standard" -> 2 [] cdd = "enhanced" -> 3

(* d and y say all that c and x say against the customer, and maybe more. *)
WorseCustomer(c, d) ==
    /\ PepPoints(c.pep) <= PepPoints(d.pep)
    /\ c.matched => d.matched
    /\ c.nationality \in {"none", d.nationality}
    /\ c.dual \in {"none", d.dual}
    /\ c.lived \subseteq d.lived
    /\ c.occupation => d.occupation
    /\ d.taxId => c.taxId
WorseExpectations(x, y) ==
    /\ x.products \subseteq y.products
    /\ x.countries \subseteq y.countries
    /\ ChannelPoints(x.channel) <= ChannelPoints(y.channel)
    /\ x.introduced => y.introduced
    /\ x.reliance => y.reliance
    /\ x.volume <= y.volume
    /\ x.largest <= y.largest
    /\ FrequencyPoints(x.frequency) <= FrequencyPoints(y.frequency)
    /\ x.crosses => y.crosses

=============================================================================

------------------------------ MODULE LatencyModel ----------------------------
(***************************************************************************)
(* src/latency/latency_model: simulated latencies from a seeded generator. *)
(*                                                                         *)
(* A number the generator draws is named by its seed and its position, and *)
(* a sample by the profile and the draw it is computed from.  The profile's*)
(* arithmetic and its floor are functions of the two and left out.         *)
(***************************************************************************)
EXTENDS Integers, Sequences, SequencesExt

CONSTANTS
  Seeds, FirstSeed,
  Clients, Profiles,
  FirstProfiles,  \* what the constructor sets: for network, matching, md
  TailDraws,      \* <<seed, position>> of the uniform draws in the tail regime
  MaxSamples      \* bound on the samples between two seedings

ASSUME SeedAssumption == FirstSeed \in Seeds
ASSUME FirstProfilesAssumption == FirstProfiles \in [{"network", "matching", "md"} -> Profiles]
ASSUME TailDrawsAssumption == TailDraws \subseteq Seeds \X Nat
ASSUME MaxSamplesAssumption == MaxSamples \in Nat

VARIABLES
  rng,                \* rng_ and the state of normal_dist_
  network_profile, matching_profile, md_profile,
  client_profiles,    \* client_profiles_
  seeded,             \* seed_
  kept,               \* history: the value normal_dist_ kept at the last seeding
  asked,              \* history: what was sampled since the last seeding
  results             \* history: the samples returned since then

profiles == <<network_profile, matching_profile, md_profile, client_profiles>>
latencyVars == <<rng, profiles, seeded, kept, asked, results>>

NoValue == <<>>
FreshGenerator(seed) == [seed |-> seed, pos |-> 0, saved |-> NoValue]

LatencyInit ==
  /\ rng = FreshGenerator(FirstSeed)
  /\ network_profile = FirstProfiles.network
  /\ matching_profile = FirstProfiles.matching /\ md_profile = FirstProfiles.md
  /\ client_profiles = [c \in {} |-> network_profile]
  /\ seeded = FirstSeed
  /\ kept = NoValue /\ asked = <<>> /\ results = <<>>

-------------------------------------------------------------------------------
(* Draws return a value and the generator after it.                        *)

(* std::normal_distribution makes its values in pairs from two numbers: it *)
(* returns one and keeps the other for the next call.                      *)
NormalDraw(g) ==
  IF g.saved # NoValue
  THEN [value |-> g.saved, rng |-> [g EXCEPT !.saved = NoValue]]
  ELSE [value |-> <<"normal", g.seed, g.pos, 1>>,
        rng |-> [g EXCEPT !.pos = @ + 2, !.saved = <<"normal", g.seed, g.pos, 2>>]]

ExponentialDraw(g) ==
  [value |-> <<"exponential", g.seed, g.pos>>, rng |-> [g EXCEPT !.pos = @ + 1]]

(* A uniform draw chooses the regime; jitter takes a normal value only.    *)
Jitter == "jitter"
Sample(g, what) ==
  IF what = Jitter THEN NormalDraw(g)
  ELSE LET after == [g EXCEPT !.pos = @ + 1]
       IN  IF <<g.seed, g.pos>> \in TailDraws THEN ExponentialDraw(after) ELSE NormalDraw(after)

(* The samples of a list, one after the other.                             *)
SampleAll(g, whats) ==
  FoldLeft(LAMBDA st, what :
             LET d == Sample(st.rng, what)
             IN  [rng |-> d.rng, values |-> Append(st.values, <<what, d.value>>)],
           [rng |-> g, values |-> <<>>], whats)

Returns(whats) ==
  /\ Len(asked) < MaxSamples
  /\ LET all == SampleAll(rng, whats)
     IN  /\ rng' = all.rng
         /\ results' = results \o all.values
  /\ asked' = asked \o whats
  /\ UNCHANGED <<profiles, seeded, kept>>

-------------------------------------------------------------------------------
(* The calls.                                                              *)

ClientOrNetwork(c) ==
  IF c \in DOMAIN client_profiles THEN client_profiles[c] ELSE network_profile

sample_network_latency(c) == Returns(<<ClientOrNetwork(c)>>)

sample_matching_latency == Returns(<<matching_profile>>)

sample_md_latency == Returns(<<md_profile>>)

sample_round_trip(c) ==
  Returns(<<ClientOrNetwork(c), matching_profile, ClientOrNetwork(c), md_profile>>)

add_jitter == Returns(<<Jitter>>)

set_client_profile(c, p) ==
  /\ client_profiles' = [x \in DOMAIN client_profiles \cup {c} |->
                           IF x = c THEN p ELSE client_profiles[x]]
  /\ UNCHANGED <<rng, network_profile, matching_profile, md_profile, seeded, kept, asked, results>>

set_network_profile(p) ==
  /\ network_profile' = p
  /\ UNCHANGED <<rng, matching_profile, md_profile, client_profiles, seeded, kept, asked, results>>

set_matching_profile(p) ==
  /\ matching_profile' = p
  /\ UNCHANGED <<rng, network_profile, md_profile, client_profiles, seeded, kept, asked, results>>

set_md_profile(p) ==
  /\ md_profile' = p
  /\ UNCHANGED <<rng, network_profile, matching_profile, client_profiles, seeded, kept, asked, results>>

(* Fault: the generator goes on from where it was.                         *)
set_seedGoOn(seed) ==
  /\ seeded' = seed
  /\ rng' = [rng EXCEPT !.seed = seed]
  /\ kept' = rng.saved /\ asked' = <<>> /\ results' = <<>>
  /\ UNCHANGED profiles

(* The generator is reseeded; the value normal_dist_ keeps is not dropped. *)
set_seed(seed) ==
  /\ seeded' = seed
  /\ rng' = [rng EXCEPT !.seed = seed, !.pos = 0]
  /\ kept' = rng.saved /\ asked' = <<>> /\ results' = <<>>
  /\ UNCHANGED profiles

LatencyNext ==
  \/ sample_matching_latency \/ sample_md_latency \/ add_jitter
  \/ \E c \in Clients :
       \/ sample_network_latency(c) \/ sample_round_trip(c)
       \/ \E p \in Profiles : set_client_profile(c, p)
  \/ \E p \in Profiles :
       set_network_profile(p) \/ set_matching_profile(p) \/ set_md_profile(p)
  \/ \E seed \in Seeds : set_seed(seed)

LatencySpec == LatencyInit /\ [][LatencyNext]_latencyVars

-------------------------------------------------------------------------------
(* Properties.                                                             *)

LatencyTypeOK ==
  /\ rng.seed \in Seeds /\ rng.pos \in Nat
  /\ {network_profile, matching_profile, md_profile} \subseteq Profiles
  /\ \A c \in DOMAIN client_profiles : c \in Clients /\ client_profiles[c] \in Profiles
  /\ seeded \in Seeds
  /\ Len(asked) = Len(results)

(* A claim of the documentation that the code does not keep.               *)

(* "Seeded for deterministic replay": after a seeding the model returns    *)
(* what a new model with this seed returns to the same calls.              *)
ReplayExact == results = SampleAll(FreshGenerator(seeded), asked).values

(* A model that is seeded when normal_dist_ keeps no value replays: mixed  *)
(* calls, changes of profiles in between, and what was drawn before the    *)
(* seeding make no difference to what the same calls return.               *)
ReplayFromRest == kept = NoValue => ReplayExact
===============================================================================

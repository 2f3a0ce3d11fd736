----------------------------- MODULE MCServing -----------------------------
(* The features at their smallest parameters, on two symbols. *)
EXTENDS Serving

FiniteFeatures ==
  << ret_log(1), ret_log(2), ret_simple(1), ret_overnight, ret_intraday, drawdown(2),
    sma(2), sma_dist(2), dist_52w_high(2), price_pctile(2), ols_slope(2),
    roc(1), mom(2, 1), mom(1, 0), williams_r(2), stoch_k(2), stoch_d(2, 2), cci(2),
    vol_cc(2), semivar_down(2), vol_parkinson(2), vol_gk(2), vol_rs(2), vol_yz(2),
    bb_pctb(2), bb_bw(2),
    vol_z(2), rel_volume(2), amihud(2), vwap_dist_close, cmf(2), mfi(2), roll_spread(2),
    spread_corwin_schultz, dollar_vol, adv(2), signed_vol(2),
    skew(2), kurt(2), downside_dev(2), up_down_vol_ratio(2),
    zscore_close(2), autocorr(1, 2), var_ratio(2, 3), var_ratio(2, 2), half_life(2),
    trade_imbalance(2), vpin(2), sign_autocorr(1, 2), rvar(2), bipower(2), jump_rj(2),
    rsemivar_up(2), rsemivar_dn(2), signed_jump(2), rskew(2), rkurt(2),
    quoted_spread(2), eff_spread(2), amihud_intraday(2), kyle_lambda(2),
    depth_imbalance(2), book_imbalance, season_dow, season_tom,
    beta(2), idio_vol(2), zscore(2),
    frac_diff(<<0, 1>>, 4, 3), frac_diff(<<1, 1>>, 4, 3), frac_diff(<<1, 2>>, 4, 3),
    frac_diff(<<1, 2>>, 16, 2) >>

CrossFeatures ==
  << xs_rank_mom(2, 1), xs_z_mom(1, 0), rev_1m(1), xs_zscore, xs_rank >>

DecayingFeatures ==
  << ema(2), ema_dist(2), macd(2, 3), macd_signal(2, 3, 2), macd_hist(2, 3, 2), adx(2),
    rsi(2), vol_ewma(<<1, 2>>), atr(2) >>

AllFeatures == FiniteFeatures \o CrossFeatures \o DecayingFeatures

(* What is served beyond the declared history, and beside it. *)
Extra == 1
FirstSymbol == CHOOSE s \in Symbols : TRUE
BarsOf(f, s) ==
  IF s = FirstSymbol \/ IsCross(f) THEN f.min_history + Extra
  ELSE IF f.name = "adx" THEN 0 ELSE 1

(* A feature is served a zero of each price it reads, one bar of those that *)
(* are the same to it.  True range and directional movement pass over a     *)
(* null: see the run series_imputed.  A flat stretch as long as a decaying  *)
(* memory is the run series_flat.                                           *)
OrdinaryKinds(f) ==
  {"clean", "halt"}
    \cup (IF f.name \in {"adx", "atr"} THEN {} ELSE {"gap"})
    \cup {CHOOSE kind \in ZeroKinds : Zeros(kind) \cap f.input_roles = read :
            read \in {Zeros(kind) \cap f.input_roles : kind \in ZeroKinds} \ {{}}}
FewOdd(f) == IF f.recurrence = "FINITE" /\ f.min_history <= 3 THEN 2 ELSE 1

(* One symbol alone, up to a few bars past the declared history. *)
Alone(f, s) == IF s = FirstSymbol THEN f.min_history + 3 ELSE 0

FlatFeatures == << rsi(2) >>
FlatKinds(f) == {"clean", "halt"}
FlatOdd(f) == f.min_history

ImputedFeatures == << adx(2) >>
ImputedKinds(f) == {"clean", "gap"}
ImputedOdd(f) == 1
=============================================================================

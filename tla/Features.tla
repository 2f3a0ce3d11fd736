------------------------------ MODULE Features ------------------------------
(***************************************************************************)
(* The feature factories: for each, the threshold it declares              *)
(* (min_history), the class of its memory, the roles it declares and the   *)
(* expression it builds.  A role names its column: every basis of every    *)
(* price, volume, quote, flow and market input the defaults declare.       *)
(***************************************************************************)
EXTENDS Expr

CONSTANTS
  WarmupTol,   \* 1 / EWM_WARMUP_TOL: the weight of a prefix a burn-in leaves
  ParityTol    \* 1 / PARITY_RECURSIVE_TOLERANCE: the weight parity overlooks

ASSUME Tolerances == /\ WarmupTol \in Nat /\ ParityTol \in Nat
                     /\ 1 < ParityTol /\ ParityTol <= WarmupTol

MaxWarmup == 8      \* no burn-in at these tolerances is longer

(* The least n with (1 - alpha)^n <= 1 / tol, for alpha = p / q.            *)
ewm_effective_warmup(alpha, tol) ==
  Min({n \in 1..MaxWarmup : (alpha[2] - alpha[1])^n * tol <= alpha[2]^n})

(* Mutant: burnt in to the tolerance of parity itself. *)
warmup_unmargined(alpha) == ewm_effective_warmup(alpha, ParityTol)
warmup(alpha) == ewm_effective_warmup(alpha, WarmupTol)

Span(n) == <<2, n + 1>>       \* ewm_mean(span=n)
OneOver(n) == <<1, n>>        \* ewm_mean(alpha=1 / n)

(* x.ewm_mean(alpha, adjust=False, min_samples): what it remembers is what  *)
(* weighs more than the tolerance of parity.                                *)
ewm_mean(x, alpha, samples) == Ewm(x, samples, ewm_effective_warmup(alpha, ParityTol))

-----------------------------------------------------------------------------
(* What bind_feature binds: a time-series feature of bounded or of decaying *)
(* memory, or a cross-sectional one, a signal and its reduction.            *)

Feature(name, min_history, recurrence, roles, signal, build) ==
  [name |-> name, min_history |-> min_history, recurrence |-> recurrence,
   input_roles |-> roles, signal |-> signal, build |-> build]

Finite(name, min_history, roles, build) ==
  Feature(name, min_history, "FINITE", roles, << >>, build)
Decaying(name, min_history, roles, build) ==
  Feature(name, min_history, "RECURSIVE_DECAY", roles, << >>, build)

CrossSectional(name, min_history, roles, signal, how) ==
  Feature(name, min_history, "FINITE", roles, <<signal>>, Slice(how, signal))

(* Shorthands.  A positive factor and a constant added to the outcome are   *)
(* left out: nothing compares the outcome with anything.                    *)
mean(x, w) == Rolling("mean", x, w)
sum(x, w) == Rolling("sum", x, w)
std(x, w) == Rolling("std", x, w)
Square(x) == Times(x, x)
Up(x) == Unary("up", x)            (* clip(lower_bound=0) *)
Down(x) == Unary("down", x)        (* clip(upper_bound=0) *)
Abs(x) == Unary("abs", x)
(* when(std == 0).then(None).otherwise((x - mean) / std) *)
Standard(x, w) == safe_div(Minus(x, mean(x, w)), std(x, w))

-----------------------------------------------------------------------------
(* returns.py *)

ret_log(period) ==
  Finite("ret_log", period + 1, {Close},
         grouped(log_return(Col(Close), Shift(Col(Close), period))))

ret_simple(period) ==
  Finite("ret_simple", period + 1, {Close},
         grouped(safe_div(Col(Close), Shift(Col(Close), period))))

ret_overnight ==
  Finite("ret_overnight", 2, {OpenTr, Close},
         grouped(log_return(Col(OpenTr), Shift(Col(Close), 1))))

ret_intraday ==
  Finite("ret_intraday", 1, {OpenTr, Close},
         grouped(log_return(Col(Close), Col(OpenTr))))

drawdown(window) ==
  Finite("drawdown", window, {Close},
         grouped(safe_div(Col(Close), Rolling("max", Col(Close), window))))

-----------------------------------------------------------------------------
(* trend.py *)

sma(window) == Finite("sma", window, {Close}, grouped(mean(Col(Close), window)))

sma_dist(window) ==
  Finite("sma_dist", window, {Close},
         grouped(safe_div(Col(Close), mean(Col(Close), window))))

dist_52w_high(window) ==
  Finite("dist_52w_high", window, {Close},
         grouped(safe_div(Col(Close), Rolling("max", Col(Close), window))))

price_pctile(window) ==
  Finite("price_pctile", window, {Close}, grouped(Rolling("pctile", Col(Close), window)))

(* sum(g y) - (g - w + 1) sum(y) - x_mean sum(y), g the row: its terms are  *)
(* the logarithms of a window.                                              *)
ols_slope(window) ==
  Finite("ols_slope", window, {Close},
         grouped(Rolling("slope", safe_log(Col(Close)), window)))

ema_of(x, span) == ewm_mean(x, Span(span), span)

ema(span) ==
  Decaying("ema", warmup(Span(span)), {Close},
           emit_after(grouped(ema_of(Col(Close), span)), warmup(Span(span))))

ema_dist(span) ==
  Decaying("ema_dist", warmup(Span(span)), {Close},
           emit_after(grouped(safe_div(Col(Close), ema_of(Col(Close), span))),
                      warmup(Span(span))))

macd_raw(fast, slow) == Minus(ema_of(Col(Close), fast), ema_of(Col(Close), slow))
macd_line_warmup(slow) == warmup(Span(slow))
macd_signal_warmup(slow, signal) == warmup(Span(slow)) + warmup(Span(signal))

macd_feature(name, n, x) ==
  Decaying(name, n, {Close}, emit_after(grouped(x), n))

macd(fast, slow) == macd_feature("macd", macd_line_warmup(slow), macd_raw(fast, slow))

macd_signal(fast, slow, signal) ==
  macd_feature("macd_signal", macd_signal_warmup(slow, signal),
               ema_of(macd_raw(fast, slow), signal))

macd_hist(fast, slow, signal) ==
  macd_feature("macd_hist", macd_signal_warmup(slow, signal),
               Minus(macd_raw(fast, slow), ema_of(macd_raw(fast, slow), signal)))

rma(x, window) == ewm_mean(x, OneOver(window), window)

TrueRange(close) ==
  Horizontal("max",
             << Minus(Col(High), Col(Low)),
                Abs(Minus(Col(High), Shift(Col(close), 1))),
                Abs(Minus(Col(Low), Shift(Col(close), 1))) >>)

(* when((x > y) & (x > 0)).then(x).otherwise(0) *)
DirectionalMove(x, y) == When(Both(Above(x, y), Above(x, Zero)), x, Zero)

(* |plus_di - minus_di| over their sum, each a smoothed movement over the   *)
(* smoothed range.                                                          *)
Dx(plus_di, minus_di) == safe_div(Abs(Minus(plus_di, minus_di)), Plus(plus_di, minus_di))
DxOf(up_move, down_move, atr_, window) ==
  Dx(safe_div(rma(DirectionalMove(up_move, down_move), window), atr_),
     safe_div(rma(DirectionalMove(down_move, up_move), window), atr_))
adx_core(window) ==
  rma(DxOf(Diff(Col(High)), Minus(Shift(Col(Low), 1), Col(Low)),
           rma(TrueRange(CloseSplit), window), window), window)

adx(window) ==
  LET n == 2 * warmup(OneOver(window)) + 2 * window
  IN  Decaying("adx", n, {High, Low, CloseSplit}, emit_after(grouped(adx_core(window)), n))

-----------------------------------------------------------------------------
(* momentum.py *)

(* 100 - 100 / (1 + up / down), 100 when nothing is down, null when nothing *)
(* moves: what rsi and mfi make of what rose and what fell.                 *)
Saturated(up, down) ==
  When(Both(Equal(up, Zero), Equal(down, Zero)), None,
       When(Equal(down, Zero), Lit(1), Over(up, down)))

rsi(period) ==
  LET delta == Diff(Col(Close))
      gain == ewm_mean(Up(delta), OneOver(period), period)
      loss == ewm_mean(Up(Unary("neg", delta)), OneOver(period), period)
  IN  Decaying("rsi", warmup(OneOver(period)), {Close},
               emit_after(grouped(Saturated(gain, loss)), warmup(OneOver(period))))

roc(window) ==
  Finite("roc", window + 1, {Close},
         grouped(safe_div(Col(Close), Shift(Col(Close), window))))

mom(formation, skip) ==
  Finite("mom", formation + 1, {Close},
         grouped(log_return(Shift(Col(Close), skip), Shift(Col(Close), formation))))

Oscillator(name, window, x) == Finite(name, window, {High, Low, CloseSplit}, grouped(x))
Highest(window) == Rolling("max", Col(High), window)
Lowest(window) == Rolling("min", Col(Low), window)
stoch_k_core(window) ==
  safe_div(Minus(Col(CloseSplit), Lowest(window)), Minus(Highest(window), Lowest(window)))

williams_r(window) ==
  Oscillator("williams_r", window,
             safe_div(Minus(Highest(window), Col(CloseSplit)),
                      Minus(Highest(window), Lowest(window))))

stoch_k(window) == Oscillator("stoch_k", window, stoch_k_core(window))

stoch_d(window, smooth) ==
  Finite("stoch_d", window + smooth - 1, {High, Low, CloseSplit},
         grouped(mean(stoch_k_core(window), smooth)))

Typical == Plus(Plus(Col(High), Col(Low)), Col(CloseSplit))

cci(window) ==
  Finite("cci", window, {High, Low, CloseSplit},
         grouped(safe_div(Minus(Typical, mean(Typical, window)),
                          Rolling("mad", Typical, window))))

-----------------------------------------------------------------------------
(* volatility.py *)

vol_cc(window) ==
  Finite("vol_cc", window + 1, {Close}, grouped(std(bar_return(Close), window)))

(* alpha = 1 - lam *)
vol_ewma(alpha) ==
  Decaying("vol_ewma", warmup(alpha), {Close},
           emit_after(grouped(safe_sqrt(ewm_mean(Square(bar_return(Close)), alpha, 2))),
                      warmup(alpha)))

semivar_down(window) ==
  Finite("semivar_down", window + 1, {Close},
         grouped(safe_sqrt(mean(Square(Down(bar_return(Close))), window))))

(* The range estimators divide bare. *)
RangeFeature(name, window, extra_history, roles, variance) ==
  Finite(name, window + extra_history, roles, grouped(safe_sqrt(variance)))
LogRatio(x, y) == safe_log(Over(Col(x), Col(y)))
Ohlc == {Open, High, Low, CloseSplit}

vol_parkinson(window) ==
  RangeFeature("vol_parkinson", window, 0, {High, Low},
               mean(Square(LogRatio(High, Low)), window))

vol_gk(window) ==
  RangeFeature("vol_gk", window, 0, Ohlc,
               mean(Minus(Square(LogRatio(High, Low)), Square(LogRatio(CloseSplit, Open))),
                    window))

rs_term == Plus(Times(LogRatio(High, CloseSplit), LogRatio(High, Open)),
                Times(LogRatio(Low, CloseSplit), LogRatio(Low, Open)))

vol_rs(window) == RangeFeature("vol_rs", window, 0, Ohlc, mean(rs_term, window))

vol_yz(window) ==
  LET overnight == safe_log(Over(Col(Open), Shift(Col(CloseSplit), 1)))
      open_close == LogRatio(CloseSplit, Open)
  IN  RangeFeature("vol_yz", window, 1, Ohlc,
                   Plus(Plus(Rolling("var", overnight, window),
                             Rolling("var", open_close, window)),
                        mean(rs_term, window)))

atr(window) ==
  Decaying("atr", warmup(OneOver(window)), {High, Low, CloseSplit},
           emit_after(grouped(rma(TrueRange(CloseSplit), window)), warmup(OneOver(window))))

Half(window) == std(Col(CloseSplit), window)
Mid(window) == mean(Col(CloseSplit), window)

bb_pctb(window) ==
  Finite("bb_pctb", window, {CloseSplit},
         grouped(safe_div(Minus(Col(CloseSplit), Minus(Mid(window), Half(window))),
                          Half(window))))

bb_bw(window) ==
  Finite("bb_bw", window, {CloseSplit}, grouped(safe_div(Half(window), Mid(window))))

-----------------------------------------------------------------------------
(* volume.py *)

vol_z(window) == Finite("vol_z", window, {Volume}, grouped(Standard(Col(Volume), window)))

rel_volume(window) ==
  Finite("rel_volume", window, {Volume},
         grouped(safe_div(Col(Volume), mean(Col(Volume), window))))

amihud(window) ==
  Finite("amihud", window + 1, {Close, Dvol},
         grouped(mean(safe_div(Abs(bar_return(Close)), Col(Dvol)), window)))

vwap_dist_close ==
  Finite("vwap_dist_close", 1, {CloseSplit, Vwap},
         grouped(safe_div(Col(CloseSplit), Col(Vwap))))

cmf(window) ==
  LET multiplier ==
        When(Equal(Col(High), Col(Low)), Zero,
             safe_div(Minus(Plus(Col(CloseSplit), Col(CloseSplit)), Plus(Col(High), Col(Low))),
                      Minus(Col(High), Col(Low))))
  IN  Finite("cmf", window, {High, Low, CloseSplit, Volume},
             grouped(safe_div(sum(Times(multiplier, Col(Volume)), window),
                              sum(Col(Volume), window))))

(* The flow of a bar whose typical price passed another, zero of one whose  *)
(* did not, null of one whose typical price or the previous one is missing. *)
FlowWhen(test, x, y, flow) ==
  When(Both(Present(x), Present(y)), When(test, flow, Zero), None)

(* What rose and what fell over the window. *)
MoneyFlows(x, y, flow, window) ==
  Saturated(sum(FlowWhen(Above(x, y), x, y, flow), window),
            sum(FlowWhen(Above(y, x), x, y, flow), window))

mfi(window) ==
  Finite("mfi", window + 1, {High, Low, CloseSplit, Volume},
         grouped(MoneyFlows(Typical, Shift(Typical, 1), Times(Typical, Col(Volume)), window)))

(* 2 sqrt(-cov) when cov < 0, cov of a change and the one before it. *)
roll_spread(window) ==
  LET dp == Diff(Col(Close))
  IN  Finite("roll_spread", window + 2, {Close},
             grouped(Unary("negative", rolling_cov(dp, Shift(dp, 1), window))))

(* Of two bars, the high and the low; alpha sets their range against those  *)
(* of each; a negative spread is clipped at zero.                           *)
Hi2 == Horizontal("max", <<Col(High), Shift(Col(High), 1)>>)
Lo2 == Horizontal("min", <<Col(Low), Shift(Col(Low), 1)>>)
SpreadAlpha(hl) ==
  Minus(safe_sqrt(Plus(hl, Shift(hl, 1))), safe_sqrt(Square(safe_log(Over(Hi2, Lo2)))))
NotNegative(x) == When(Above(Zero, x), Zero, x)

spread_corwin_schultz ==
  Finite("spread_corwin_schultz", 2, {High, Low},
         grouped(NotNegative(SpreadAlpha(Square(LogRatio(High, Low))))))

DollarVolume == Times(Col(CloseSplit), Col(Volume))
dollar_vol == Finite("dollar_vol", 1, {CloseSplit, Volume}, grouped(DollarVolume))
adv(window) ==
  Finite("adv", window, {CloseSplit, Volume}, grouped(mean(DollarVolume, window)))

signed_vol(window) ==
  Finite("signed_vol", window + 1, {Close, Volume},
         grouped(sum(Times(Unary("sign", Diff(Col(Close))), Col(Volume)), window)))

-----------------------------------------------------------------------------
(* distribution.py and mean_reversion.py *)

DistFeature(name, window, x) == Finite(name, window + 1, {Close}, grouped(x))

skew(window) ==
  DistFeature("skew", window, FillNan(Rolling("moment", bar_return(Close), window)))

kurt(window) ==
  DistFeature("kurt", window, FillNan(Rolling("moment", bar_return(Close), window)))

downside_dev(window) ==
  DistFeature("downside_dev", window, safe_sqrt(mean(Square(Down(bar_return(Close))), window)))

up_down_vol_ratio(window) ==
  DistFeature("up_down_vol_ratio", window,
              safe_div(safe_sqrt(mean(Square(Up(bar_return(Close))), window)),
                       safe_sqrt(mean(Square(Down(bar_return(Close))), window))))

zscore_close(window) ==
  Finite("zscore_close", window, {Close}, grouped(Standard(Col(Close), window)))

autocorr(lag, window) ==
  Finite("autocorr", window + lag + 1, {Close},
         grouped(rolling_corr(bar_return(Close), Shift(bar_return(Close), lag), window)))

(* The variances of the one-bar and of the q-bar returns, by rolling sums:  *)
(* the q-bar returns have their own, shorter window, and the threshold of   *)
(* the longer one is enforced.  The correction m is zero when q = window:   *)
(* the code's name, which ends in q and window, sets that one apart too.    *)
VarA(r1, qm, window) == Minus(sum(Square(r1), window), Square(qm))
VarC(rq, qm, nq, m) ==
  Over(Plus(Minus(sum(Square(rq), nq), Times(qm, sum(rq, nq))), Square(qm)), m)
VarianceRatio(r1, rq, qm, q, window) ==
  safe_div(VarC(rq, qm, window - q + 1, Lit(Truth(q # window))), VarA(r1, qm, window))

var_ratio(q, window) ==
  Finite(IF q = window THEN "var_ratio_of_window" ELSE "var_ratio", window + q, {Close},
         grouped(emit_after(
           VarianceRatio(bar_return(Close), log_return(Col(Close), Shift(Col(Close), q)),
                          sum(bar_return(Close), window), q, window), window + q)))

(* -ln 2 / ln(1 + beta) when -1 < beta < 0. *)
half_life(window) ==
  Finite("half_life", window + 1, {Close},
         grouped(Unary("negative",
                       rolling_slope(Shift(Col(Close), 1), Diff(Col(Close)), window))))

-----------------------------------------------------------------------------
(* microstructure.py *)

RealizedVar(r, window) == sum(Square(r), window)
BipowerVar(r, window) == sum(Times(Abs(r), Shift(Abs(r), 1)), window - 1)
MicroReturn == bar_return(CloseRaw)
RealizedFeature(name, window, x) == Finite(name, window + 1, {CloseRaw}, grouped(x))

trade_imbalance(window) ==
  Finite("trade_imbalance", window, {SignedVolume, VolumeRaw},
         grouped(safe_div(sum(Col(SignedVolume), window), sum(Col(VolumeRaw), window))))

vpin(n_buckets) ==
  Finite("vpin", n_buckets, {SignedVolume, VolumeRaw},
         grouped(mean(safe_div(Abs(Col(SignedVolume)), Col(VolumeRaw)), n_buckets)))

sign_autocorr(lag, window) ==
  LET imbalance == safe_div(Col(SignedVolume), Col(VolumeRaw))
  IN  Finite("sign_autocorr", window + lag, {SignedVolume, VolumeRaw},
             grouped(rolling_corr(imbalance, Shift(imbalance, lag), window)))

rvar(window) == RealizedFeature("rvar", window, RealizedVar(MicroReturn, window))
bipower(window) == RealizedFeature("bipower", window, BipowerVar(MicroReturn, window))

jump_rj(window) ==
  LET rv == RealizedVar(MicroReturn, window)
  IN  RealizedFeature("jump_rj", window,
                      safe_div(Up(Minus(rv, BipowerVar(MicroReturn, window))), rv))

(* The square of a return, masked to one sign. *)
Semivar(name, window, test) ==
  RealizedFeature(name, window,
                  sum(Times(Square(MicroReturn), When(test, Lit(1), Zero)), window))
rsemivar_up(window) == Semivar("rsemivar_up", window, Above(MicroReturn, Zero))
rsemivar_dn(window) == Semivar("rsemivar_dn", window, Above(Zero, MicroReturn))

signed_jump(window) ==
  RealizedFeature("signed_jump", window, sum(Times(MicroReturn, Abs(MicroReturn)), window))

rskew(window) ==
  LET rv == RealizedVar(MicroReturn, window)
  IN  RealizedFeature("rskew", window,
                      safe_div(sum(Times(Square(MicroReturn), MicroReturn), window),
                               Times(rv, safe_sqrt(rv))))

rkurt(window) ==
  RealizedFeature("rkurt", window,
                  safe_div(sum(Square(Square(MicroReturn)), window),
                           Square(RealizedVar(MicroReturn, window))))

quoted_spread(window) ==
  LET spread == When(Above(Col(Bid), Col(Ask)), None,
                     safe_div(Minus(Col(Ask), Col(Bid)), Plus(Col(Ask), Col(Bid))))
  IN  Finite("quoted_spread", window, {Bid, Ask}, grouped(mean(spread, window)))

(* |c - mid| / mid, both doubled. *)
eff_spread(window) ==
  LET mid == Plus(Col(Ask), Col(Bid))
      eff == safe_div(Abs(Minus(Plus(Col(CloseRaw), Col(CloseRaw)), mid)), mid)
  IN  Finite("eff_spread", window, {CloseRaw, Bid, Ask}, grouped(mean(eff, window)))

amihud_intraday(window) ==
  Finite("amihud_intraday", window + 1, {CloseRaw, VolumeRaw},
         grouped(mean(safe_div(Abs(MicroReturn), Times(Col(CloseRaw), Col(VolumeRaw))),
                      window)))

kyle_lambda(window) ==
  Finite("kyle_lambda", window + 1, {CloseRaw, SignedVolume},
         grouped(rolling_slope(Col(SignedVolume), Diff(Col(CloseRaw)), window)))

Imbalance(x, y) == safe_div(Minus(x, y), Plus(x, y))

depth_imbalance(window) ==
  Finite("depth_imbalance", window, {BidSize, AskSize},
         grouped(mean(Imbalance(Col(BidSize), Col(AskSize)), window)))

(* Two levels of the book. *)
book_imbalance ==
  LET depth(side) == Plus(Plus(Zero, Col(side[1])), Col(side[2]))
  IN  Finite("book_imbalance", 1, Depths,
             grouped(Imbalance(depth(BidDepth), depth(AskDepth))))

-----------------------------------------------------------------------------
(* seasonality.py: a number of the bar's timestamp alone. *)

season_dow == Finite("season_dow", 1, {}, Lit(1))
season_tom == Finite("season_tom", 1, {}, Lit(1))

-----------------------------------------------------------------------------
(* cross_sectional.py: a signal per symbol, reduced within a timestamp; and *)
(* the single-factor market model, per symbol.                              *)

MomentumSignal(formation, skip) ==
  grouped(log_return(Shift(Col(Close), skip), Shift(Col(Close), formation)))

xs_rank_mom(formation, skip) ==
  CrossSectional("xs_rank_mom", formation + 1, {Close},
                 MomentumSignal(formation, skip), "xs_rank")

xs_z_mom(formation, skip) ==
  CrossSectional("xs_z_mom", formation + 1, {Close},
                 MomentumSignal(formation, skip), "xs_zscore")

rev_1m(window) ==
  CrossSectional("rev_1m", window + 1, {Close},
                 grouped(Unary("neg", log_return(Col(Close), Shift(Col(Close), window)))),
                 "xs_rank")

beta(window) ==
  LET m == Col(Market)
  IN  Finite("beta", window + 1, {Close, Market},
             grouped(safe_div(rolling_cov(bar_return(Close), m, window),
                              rolling_cov(m, m, window))))

idio_vol(window) ==
  LET r == bar_return(Close)
      m == Col(Market)
  IN  Finite("idio_vol", window + 1, {Close, Market},
             grouped(safe_sqrt(Minus(rolling_cov(r, r, window),
                                     safe_div(Square(rolling_cov(r, m, window)),
                                              rolling_cov(m, m, window))))))

-----------------------------------------------------------------------------
(* normalize.py: a transform, applied to a column and grouped by symbol or  *)
(* by timestamp.                                                            *)

zscore(window) == Finite("zscore", window, {Close}, grouped(Standard(Col(Close), window)))
xs_zscore == CrossSectional("xs_zscore", 1, {Close}, Col(Close), "xs_zscore")
xs_rank == CrossSectional("xs_rank", 1, {Close}, Col(Close), "xs_rank")

(* The weights of (1 - L)^d as fractions, d = p / q, up to the first that   *)
(* falls below 1 / threshold or to max_lag.                                 *)
ffd_weight(d, max_lag) ==
  LET w[k \in 0..max_lag] ==
        IF k = 0 THEN <<1, 1>>
        ELSE <<- w[k - 1][1] * (d[1] - (k - 1) * d[2]), w[k - 1][2] * k * d[2]>>
  IN  w

ffd_lags(d, threshold, max_lag) ==
  LET w == ffd_weight(d, max_lag)
      size(n) == IF n < 0 THEN -n ELSE n
      dropped == {k \in 1..max_lag : size(w[k][1]) * threshold < w[k][2]}
  IN  Min(dropped \cup {max_lag + 1}) - 1

frac_diff(d, threshold, max_lag) ==
  LET w == ffd_weight(d, max_lag)
      n == ffd_lags(d, threshold, max_lag)
      terms[k \in 0..n] ==
        IF k = 0 THEN Col(Close)
        ELSE IF w[k][1] < 0 THEN Minus(terms[k - 1], Shift(Col(Close), k))
        ELSE Plus(terms[k - 1], Shift(Col(Close), k))
  IN  Finite("frac_diff", n + 1, {Close}, grouped(terms[n]))
=============================================================================

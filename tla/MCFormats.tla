----------------------------- MODULE MCFormats -----------------------------
EXTENDS FormatScan, HandlersAB, HandlersC, HandlersEF, HandlersDos, HandlersGM, HandlersMP,
        HandlersPS, HandlersST, HandlersUZ, HandlersLong, HandlersIbm

MCTable ==
    [turbo1000cc_a |-> turbo1000cc(FALSE), turbo1000cc_b |-> turbo1000cc(TRUE), acid |-> acid,
     adls |-> adls, ak_avalon |-> ak_avalon, aladdins_magic_lamp |-> aladdins_magic_lamp,
     albedo_protection |-> albedo_protection, albedo_data |-> albedo_data,
     alderan_protection |-> alderan_protection, alien_legion |-> alien_legion,
     alienbreed_protection |-> alienbreed_protection,
     amegas_high_scores |-> amegas_high_scores,
     arc_development_a |-> arc_development(FALSE), arc_development_b |-> arc_development(TRUE),
     forgotten_worlds |-> forgotten_worlds, armourgeddon_a |-> armourgeddon_a,
     armourgeddon_b |-> armourgeddon_b, aunt_arctic_adventure |-> aunt_arctic_adventure,
     awesome_demo |-> awesome_demo, bat |-> bat, battle_squadron |-> battle_squadron,
     blue_byte |-> blue_byte, brides_of_dracula |-> brides_of_dracula, cardiaxx |-> cardiaxx,
     chw |-> chw, chw_2a |-> chw_2(FALSE), chw_2b |-> chw_2(TRUE), hi_tec_a |-> hi_tec_a,
     antcliffe_no_checksum |-> antcliffe_no_checksum, universe |-> universe]
  @@
    [copylock |-> copylock, cobra |-> cobra, core_design |-> core_design,
     cosmo_ranger |-> cosmo_ranger, crackdown |-> crackdown, cyberblast |-> cyberblast,
     cyberblast_6 |-> cyberblast_protection(6), cyberblast_7 |-> cyberblast_protection(7),
     cyberdos |-> cyberdos, cyberworld |-> cyberworld(5120), sub_trade_a |-> cyberworld(6656),
     deep_core_sec_1 |-> deep_core_sec_1, deep_core_sec_2 |-> deep_core_sec_2,
     deep_core_sec_13 |-> deep_core_sec_N(13), deep_core_sec_4 |-> deep_core_sec_N(4),
     deep_core_diskid |-> deep_core_diskid, deflektor |-> deflektor,
     deja_vu_ii_protection |-> deja_vu_ii_protection, deliverance |-> deliverance,
     detector |-> detector, detector_protection |-> detector_protection,
     discoscopie |-> discoscopie, diskspare_dd |-> diskspare(12), diskspare_hd |-> diskspare(24),
     disposable_hero |-> disposable_hero, dma_design |-> dma_design,
     domination |-> domination, dugger |-> dugger]
  @@
    [dungeon_master_weak |-> dungeon_master_weak(0), chaos_strikes_back_weak |-> dungeon_master_weak(1),
     dyter_07 |-> dyter_07, ego |-> ego, abc_chemii |-> ego_protection("8951"), elfmania |-> elfmania,
     elite_a |-> elite(6144, TRUE), elite_c |-> elite(6312, TRUE), elite_d |-> elite(5120, FALSE),
     elite_e |-> elite_e, executioner_a |-> executioner(FALSE), executioner_b |-> executioner(TRUE),
     eye_of_horus |-> eye_of_horus, turrican |-> factor5(6520, {111600, 108000, 105600}), turrican_2 |-> factor5(6800, {111600}),
     denaris_a |-> denaris_a, denaris_b |-> denaris_b, factor5_hiscore |-> factor5_hiscore,
     fantastic_voyage |-> fantastic_voyage(6144), krymini_short |-> fantastic_voyage(512),
     fantasy_games |-> fantasy_games, fears |-> fears,
     federation_of_free_traders |-> federation_of_free_traders, firebird |-> firebird("firebird"),
     ikplus |-> firebird("ikplus"), afterburner_data |-> firebird("afterburner_data"),
     quartz_a |-> quartz(FALSE), quartz_b |-> quartz(TRUE), flimbos_quest_a |-> flimbos_quest_a,
     flimbos_quest_b |-> flimbos_quest_b, full_contact |-> full_contact, fun_factory |-> fun_factory,
     fuzzball |-> fuzzball]
  @@
    [amigados |-> dos, amigados_448a |-> amigados({"448a"}, "448a"), amigados_long |-> amigados_long,
     alternative |-> alternative, bombuzal |-> bombuzal, epic |-> epic, herndon_hls |-> herndon_hls,
     kickoff2 |-> kickoff2, podpierdzielacz |-> podpierdzielacz,
     rattleheads_disk_protector |-> rattleheads_disk_protector,
     tolteka_protection |-> tolteka_protection, yo_joe_boot |-> yo_joe_boot,
     psygnosis_c_track0_1 |-> psygnosis_c_track0(1), psygnosis_c_track0_2 |-> psygnosis_c_track0(2)]
  @@
    [garrison_dir |-> garrison(TRUE), garrison |-> garrison(FALSE), garrison_2 |-> garrison_prot(2),
     garrison_3 |-> garrison_prot(3), ghost_battle |-> ghost_battle, gladiators |-> gladiators,
     globulus |-> globulus, grand_monster_slam |-> grand_monster_slam,
     gunshoot_boot |-> gunshoot(4096), gunshoot |-> gunshoot(5632), hammerfist_a |-> hammerfist(6664),
     hellfire_attack |-> hellfire_attack, hellwig |-> hellwig, ilyad |-> ilyad, intact |-> intact,
     hackmat |-> hackmat, hackmat_v2 |-> hackmat_v2, space_harrier_sega |-> space_harrier_sega,
     judge_dredd |-> judge_dredd, kelloggs_land |-> kelloggs_land,
     killing_gameshow_demo_a |-> killing_game_show_demo(334), konami |-> konami,
     lankhor |-> lankhor(FALSE), lankhor_alt_a |-> lankhor(TRUE), lankhor_loader |-> lankhor_loader,
     lin_wus_challenge |-> lin_wus_challenge, logotron |-> logotron(5),
     logotron_longtrack |-> logotron(6), magic_marble |-> magic_marble(5968),
     magic_marble_prot |-> magic_marble_prot, megarts_hockey |-> megarts_hockey, mentasm |-> mentasm]
  @@
    [mickey_mouse |-> mickey_mouse, time_bandit |-> time_bandit, microdeal |-> microdeal,
     robocod |-> robocod, millennium |-> millennium, moochies |-> moochies,
     night_hunter |-> night_hunter, nightdawn |-> nightdawn, nine_lives |-> nine_lives(5120),
     no_second_prize_save |-> no_second_prize_save, rnc_pdos_old |-> rnc_pdos_old,
     persian_gulf_inferno |-> persian_gulf_inferno, phantom_fighter |-> phantom_fighter,
     pick_n_pile |-> pick_n_pile, pierre_adane |-> pierre_adane(6304), pieter_opdam |-> pieter_opdam,
     plan9 |-> plan9, power_drift_loader |-> power_drift_loader, power_drift |-> power_drift,
     power_drift_disk_2 |-> power_drift_disk_2, prime_mover |-> prime_mover,
     projekt_ikarus |-> projekt_ikarus, promic_protection |-> promic_protection,
     psygnosis_a |-> psygnosis_a, puffys_saga |-> puffys_saga,
     pinball_dreams |-> pinball_dreams, pinball_fantasies |-> pinball_fantasies,
     pinball_prelude |-> pinball_prelude, rainbird |-> rainbird(5120), rainbow_arts |-> rainbow_arts,
     rainbow_arts_protection |-> rainbow_arts_protection,
     rallye_master_protection |-> rallye_master_protection, ratt_dos |-> ratt_dos, rhino |-> rhino,
     robocop |-> robocop, rock_n_roll |-> rock_n_roll, rome_ad |-> rome_ad, rtype_a |-> rtype_a,
     rtype_b |-> rtype_b, ruffian |-> ruffian, sales_curve |-> sales_curve, savage |-> savage,
     sensible |-> sensible]
  @@
    [sextett_protection |-> sextett_protection, shadow_beast |-> shadow_beast(6200, 100400),
     beast_2 |-> shadow_beast(6300, 105700), shuffle |-> shuffle, silkworm |-> silkworm,
     sink_or_swim |-> sink_or_swim, skaermtrolden_hugo |-> skaermtrolden_hugo, sliders |-> sliders,
     sliding_skill |-> sliding_skill, smartdos |-> smartdos, special_fx |-> special_fx,
     speedball |-> speedball(31), ss_mfm |-> ss_mfm, stardust |-> stardust(FALSE),
     super_stardust |-> stardust(TRUE), star_trash |-> star_trash,
     steigenberger_hotelmanager |-> steigenberger_hotelmanager, street_gang |-> street_gang,
     street_hockey |-> street_hockey, summer_games |-> summer_games, supaplex |-> supaplex,
     super_hang_on |-> super_hang_on(FALSE), super_hang_on_2 |-> super_hang_on(TRUE),
     super_hang_on_scores |-> super_hang_on_scores, taekwondo_master |-> taekwondo_master,
     tank_buster |-> tank_buster, tech |-> tech, tech_boot |-> tech_boot, telexpress |-> telexpress,
     the_plague_a |-> the_plague_a, the_plague_b |-> the_plague_b, the_plague_c |-> the_plague_c,
     tlk_dos |-> tlk_dos, lorna |-> toposoft, tracker |-> tracker, turn_it |-> turn_it]
  @@
    [typhoon_thompson |-> typhoon_thompson, ubi_protection_validation |-> ubi_protection_validation,
     universal_warrior |-> universal_warrior, uss_john_young_protection |-> uss_john_young_protection,
     vade_retro_alienas |-> vade_retro_alienas, vampires_empire_a |-> vampires_empire(4096, <<"4489">>),
     vampires_empire_c |-> vampires_empire(5120, <<"4489", "4489">>), visionary_design |-> visionary_design("4489"),
     visionary_design_a |-> visionary_design_a, vortex_b |-> vortex_b,
     wayne_gretzky |-> wayne_gretzky, wjs_design |-> wjs_design(FALSE, 6232, 105500), baal |-> wjs_design(TRUE, 6200, 100500),
     world_championship_boxing |-> world_championship_boxing, x_out |-> x_out,
     xenon2 |-> xenon2(2, 6144, 100500), xenon2_1 |-> xenon2(1, 6912, 111600),
     xorron_2001 |-> xorron_2001(5920), xorron_2001_80 |-> xorron_2001(80), zgz |-> zgz,
     zyconix |-> zyconix, zzkj_boot |-> zzkj_boot, zzkj_11sec |-> zzkj_11sec,
     discovery |-> discovery(6272, 102300), zoom_a |-> zoom(FALSE), zoom_b |-> zoom(TRUE),
     novagen |-> novagen, okay_protection |-> okay_protection,
     creepsoft_protection |-> creepsoft_protection, yo_joe |-> yo_joe("2245", 6284),
     yo_joe_short |-> yo_joe("4489", 1000), readysoft |-> readysoft,
     cosmic_bouncer |-> cosmic_bouncer, c64 |-> c64, platou |-> platou,
     soft_touch |-> soft_touch(TRUE)]
  @@
    [protec_longtrack |-> protec_longtrack("4454"), protoscan_longtrack |-> protoscan_longtrack(105500),
     tiertex_longtrack |-> protoscan_longtrack(DefaultBits),
     silmarils_longtrack |-> silmarils_longtrack(<<>>, 110000),
     lankhor2_longtrack |-> silmarils_longtrack(<<Read(<<Is(MFM(16), "us")>>)>>, 106000),
     infogrames_longtrack |-> infogrames_longtrack, prolance_longtrack |-> prolance_longtrack,
     app_longtrack |-> app_longtrack, sevencities_longtrack |-> sevencities_longtrack,
     alternate_reality_gcr_protection |-> alternate_reality_gcr_protection,
     gauntlet2_longtrack |-> gauntlet2_longtrack, demonware_protection |-> demonware_protection,
     the_oath |-> the_oath, xelok_longtrack |-> xelok_longtrack,
     anco_kingsoft_protection |-> anco_kingsoft_protection(FALSE),
     anco_kingsoft_weak_protection |-> anco_kingsoft_protection(TRUE),
     tennis_cup_longtrack |-> tennis_cup_longtrack, rubicon_protection |-> rubicon_protection,
     protec_4489_longtrack |-> protec_4489_longtrack, plotting_longtrack |-> plotting_longtrack,
     rn_a145_protection |-> rn_a145_protection, rn_a145_alt_protection |-> rn_a145_alt_protection,
     warp_c |-> thalion_a(1537), chambers_of_shaolin |-> thalion_a(100), warp_a |-> warp_a,
     warp_b |-> warp_b, prehistoric_tale |-> prehistoric_tale, leavin_teramis_a |-> leavin_teramis_a,
     leavin_teramis_b |-> leavin_teramis_b, leavin_teramis_high |-> leavin_teramis_high,
     dragonflight |-> dragonflight(1536)]
  @@
    [ibm_pc_dd |-> ibm_img("ibm_pc_dd", 9, 512, 1),
     ibm_pc_dd_10sec |-> ibm_img("ibm_pc_dd_10sec", 10, 512, 1),
     ibm_pc_hd |-> ibm_img("ibm_pc_hd", 18, 512, 2),
     trace_traceback_hd |-> ibm_img("trace_traceback_hd", 1, 2048, 2),
     acorn_adfs_d_e |-> ibm_img("acorn_adfs_d_e", 5, 1024, 1),
     acorn_adfs_f |-> ibm_img("acorn_adfs_f", 10, 1024, 2)]

MaxDamage == 2    \* bound: one of the first two fields of each kind may be damaged
MCFormats == LET laid == LaidOut(MCTable, MaxDamage) IN laid

(* What StoredFieldsRead and DamageSeen rest on: no handler leaves a field      *)
(* without a checksum but those it names open, and what all but these keep lies *)
(* in line with the sync before it.                                             *)
MCSeek == {"adls", "dungeon_master_weak", "chaos_strikes_back_weak", "ibm_pc_dd",
           "ibm_pc_dd_10sec", "ibm_pc_hd", "trace_traceback_hd", "acorn_adfs_d_e",
           "acorn_adfs_f"}
MCBySync == {"albedo_protection", "copylock"}
MCOutOfLine == MCSeek \cup MCBySync \cup {"tolteka_protection", "savage"}
ASSUME EveryFieldChecked ==
    LET laid == MCFormats IN \A x \in DOMAIN laid :
        /\ Checked(laid[x])
        /\ x \in MCOutOfLine \/ IsPlaced(laid[x])

MCOneWay == {"garrison_dir", "sliding_skill", "platou", "soft_touch", "zoom_a", "lankhor2_longtrack",
             "rn_a145_alt_protection", "super_hang_on_scores"}
MCGivesUp == {"arc_development_a", "arc_development_b", "chw", "cyberdos", "cyberworld",
              "sub_trade_a", "disposable_hero", "elite_e", "executioner_a", "fears",
              "fuzzball", "gunshoot_boot", "gunshoot", "konami", "lin_wus_challenge",
              "magic_marble", "pierre_adane", "prime_mover", "rock_n_roll", "power_drift", "sliders",
              "the_plague_a", "the_plague_b", "world_championship_boxing", "xorron_2001",
              "xorron_2001_80", "zyconix", "plotting_longtrack", "prehistoric_tale",
              "leavin_teramis_a", "dragonflight"}
MCMoves == {"deflektor", "federation_of_free_traders", "elfmania", "full_contact", "epic",
            "yo_joe_boot", "logotron", "logotron_longtrack", "mentasm", "mickey_mouse", "microdeal",
            "pick_n_pile", "plan9", "power_drift", "power_drift_disk_2", "savage", "special_fx",
            "telexpress", "readysoft", "leavin_teramis_a", "dragonflight", "rn_a145_protection"}
=============================================================================

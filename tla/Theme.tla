-------------------------------- MODULE Theme --------------------------------
(***************************************************************************)
(* The overlay's colours: Theme::from_config (src/src/ui/theme.rs), which  *)
(* starts from COSMIC's theme when CosmicTheme::load                       *)
(* (src/src/platform/cosmic_theme.rs) finds one and lays the user's        *)
(* settings over it, and otherwise builds the theme from the settings.    *)
(*                                                                         *)
(* Colours are the Rgba records of Color.  A COSMIC colour has its four   *)
(* float channels as integers in thousandths (1000 is 1.0).  A COSMIC      *)
(* theme directory maps the file names it reads to Missing (absent or     *)
(* unparsable: read_* returns None either way) or to the parsed value;    *)
(* the is_dark file is Missing, TRUE or FALSE.  Lengths (border width,    *)
(* corner radius) are whole pixels.                                        *)
(***************************************************************************)
EXTENDS Color

CONSTANT Missing    \* a theme file that is absent or does not parse

\* A COSMIC colour and CosmicColor::to_rgba: each channel clamped to
\* [0, 1], times 255, truncated.
CosmicColor(r, g, b, a) == [red |-> r, green |-> g, blue |-> b, alpha |-> a]
ToU8(x) == ((IF x < 0 THEN 0 ELSE IF x > 1000 THEN 1000 ELSE x) * 255) \div 1000
ToRgba(c) == Rgba(ToU8(c.red), ToU8(c.green), ToU8(c.blue), ToU8(c.alpha))

\* Color::rgba with the alpha replaced, and (a as f32 * 0.7) as u8.
WithAlpha(c, a) == Rgba(c.r, c.g, c.b, a)
Dimmed(c) == WithAlpha(c, (c.a * 7) \div 10)

\* The colour fields of Settings and Settings::default (schema.rs:172-188).
ColorSettings == {"border_color", "background_color", "card_color", "text_color",
                  "hint_color", "hint_matched_color"}
DefaultThemeSettings ==
    [border_color       |-> Rgba(180, 160, 255, 180),
     background_color   |-> Rgba(0, 0, 0, 200),
     card_color         |-> Rgba(30, 30, 30, 240),
     text_color         |-> Rgba(255, 255, 255, 255),
     hint_color         |-> Rgba(100, 100, 100, 255),
     hint_matched_color |-> Rgba(76, 175, 80, 255),
     border_width       |-> 3]

White == Rgba(255, 255, 255, 255)

(***************************************************************************)
(* CosmicTheme::load: is_dark (dark when its file is missing) chooses the *)
(* directory; the background, primary and secondary containers and the    *)
(* accent colours are required, corner_radii and spacing fall back to      *)
(* their defaults (radius_m of CornerRadii::default is 16).  Spacing is   *)
(* not used by the theme and is left out.                                  *)
(***************************************************************************)
Required == {"background", "primary", "secondary", "accent"}

CosmicThemeLoad(isDarkFile, darkDir, lightDir) ==
    LET isDark == IF isDarkFile = Missing THEN TRUE ELSE isDarkFile
        dir == IF isDark THEN darkDir ELSE lightDir
    IN  IF \E f \in Required : dir[f] = Missing THEN Missing
        ELSE [is_dark |-> isDark, background |-> dir["background"],
              primary |-> dir["primary"], secondary |-> dir["secondary"],
              accent |-> dir["accent"],
              radius_m |-> IF dir["corner_radii"] = Missing THEN 16
                           ELSE dir["corner_radii"]]

(***************************************************************************)
(* Theme::from_cosmic: the card is primary.base, its text primary.on, the *)
(* badges secondary.component, the border and the matched badge accent.   *)
(***************************************************************************)
FromCosmic(cosmic) ==
    LET primaryOn == ToRgba(cosmic.primary.on)
        accentBase == ToRgba(cosmic.accent.base)
    IN  [background               |-> WithAlpha(ToRgba(cosmic.background.base), 200),
         card_background          |-> WithAlpha(ToRgba(cosmic.primary.base), 245),
         card_border              |-> WithAlpha(accentBase, 255),
         text_primary             |-> primaryOn,
         text_secondary           |-> Dimmed(primaryOn),
         badge_background         |-> WithAlpha(ToRgba(cosmic.secondary.component.base), 255),
         badge_text               |-> ToRgba(cosmic.secondary.component.on),
         badge_matched_background |-> WithAlpha(accentBase, 255),
         badge_matched_text       |-> ToRgba(cosmic.accent.on),
         border_width             |-> 2,
         corner_radius            |-> cosmic.radius_m]

\* The theme field each colour setting sets.
FieldOf == [border_color |-> "card_border", background_color |-> "background",
            card_color |-> "card_background", text_color |-> "text_primary",
            hint_color |-> "badge_background",
            hint_matched_color |-> "badge_matched_background"]

(***************************************************************************)
(* Theme::apply_config_overrides: a setting that differs from its default *)
(* replaces its field; text_color sets the secondary text as well, dimmed. *)
(***************************************************************************)
ApplyConfigOverridesNoSecondary(theme, settings) ==
    LET set(s) == settings[s] # DefaultThemeSettings[s]
        setField(f) == \E s \in ColorSettings : FieldOf[s] = f /\ set(s)
        settingOf(f) == settings[CHOOSE s \in ColorSettings : FieldOf[s] = f]
    IN  [f \in DOMAIN theme |->
            IF setField(f) THEN settingOf(f)
            ELSE IF f = "border_width" /\ set("border_width") THEN settings.border_width
            ELSE theme[f]]

ApplyConfigOverrides(theme, settings) ==
    LET set(s) == settings[s] # DefaultThemeSettings[s]
        setField(f) == \E s \in ColorSettings : FieldOf[s] = f /\ set(s)
        settingOf(f) == settings[CHOOSE s \in ColorSettings : FieldOf[s] = f]
    IN  [f \in DOMAIN theme |->
            IF setField(f) THEN settingOf(f)
            ELSE IF f = "text_secondary" /\ set("text_color")
                 THEN Dimmed(settings.text_color)
            ELSE IF f = "border_width" /\ set("border_width") THEN settings.border_width
            ELSE theme[f]]

\* Theme::from_config_only: the settings, white badge text, radius 8.
FromConfigOnly(settings) ==
    [background               |-> settings.background_color,
     card_background          |-> settings.card_color,
     card_border              |-> settings.border_color,
     text_primary             |-> settings.text_color,
     text_secondary           |-> Dimmed(settings.text_color),
     badge_background         |-> settings.hint_color,
     badge_text               |-> White,
     badge_matched_background |-> settings.hint_matched_color,
     badge_matched_text       |-> White,
     border_width             |-> settings.border_width,
     corner_radius            |-> 8]

\* Theme::from_config, called by Overlay::new.
ThemeFromConfig(settings, isDarkFile, darkDir, lightDir) ==
    LET cosmic == CosmicThemeLoad(isDarkFile, darkDir, lightDir)
    IN  IF cosmic = Missing THEN FromConfigOnly(settings)
        ELSE ApplyConfigOverrides(FromCosmic(cosmic), settings)
====

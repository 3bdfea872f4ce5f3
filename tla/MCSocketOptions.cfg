SPECIFICATION HelixSpec
CONSTANTS
  t0 = t0 t1 = t1 g1 = g1 g2 = g2
  TosValues = {t0, t1}
  NoTos = t0
  Groups = {g1, g2}
  NoGroup = NoGroup
INVARIANT OptionsObeyed
